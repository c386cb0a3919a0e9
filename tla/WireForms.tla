----------------------------- MODULE WireForms ------------------------------
(***************************************************************************)
(* What peers say to each other: rows of columns (a seed, its news, the    *)
(* metadata of a URL, a posting), the forms and messages of the five       *)
(* endpoints, and the batches of rows some of them carry.  Rows are passed *)
(* on from peer to peer; each reads a row into its own terms and writes it *)
(* anew.                                                                   *)
(*                                                                         *)
(* A text is the sequence of the pieces its separators leave.  A piece is  *)
(* what its reader tells it apart by: the number it reads as (a hash, a    *)
(* name by its length, an instant, a port, a letter), whole, with          *)
(* something ragged after it, or unreadable.                               *)
(***************************************************************************)
EXTENDS Integers, SequencesExt

CONSTANTS
    ByteRange, WordRange, DayRange,   \* where the cardinals of a posting wrap
    MostColumns,                      \* kind -> columns a row of it may have
    PostingLimit,                     \* maxRWIPostingsPerTransfer
    Samples,                          \* bound of the model: the numbers texts read as
    MostTurns,                        \* bound of the model: how often a column is in a row
    MaxItems                          \* bound of the model: items of a batch

ASSUME SamplesAssumption ==
    /\ Samples \subseteq Int
    /\ MostTurns \in Nat \ {0}
    /\ {PostingLimit, MaxItems} \subseteq Nat

VARIABLES
    kind,    \* the kind of the row that is passed on
    row,     \* what is on the wire: column and turn -> text
    reader,  \* the batch that is read
    batch    \* its items

wireVars == <<kind, row, reader, batch>>

----------------------------------------------------------------------------
\* Pieces and texts

Plain(n)  == [is |-> "plain", n |-> n]
Ragged(n) == [is |-> "ragged", n |-> n]     \* 12abc, english, a hash and a half
Junk      == [is |-> "junk", n |-> 0]

Pieces == {Plain(n) : n \in Samples} \cup {Ragged(n) : n \in Samples} \cup {Junk}

\* What a text is read as: so many values, none, or nothing its reader accepts.
Some(values) == [ok |-> TRUE, of |-> values]
NoValue == Some(<<>>)
Bad == [ok |-> FALSE, of |-> <<>>]

----------------------------------------------------------------------------
\* The values there are of a type

Hashes == Int                      \* 12 symbols of the alphabet
PeerNames == 3 .. 80               \* by their length
PeerTypes == 1 .. 6                \* virgin, junior, mentee, senior, mentor, principal
Categories == 1 .. 28              \* prfleupd, crwlstrt, ...
Hosts == Nat                       \* addresses and host names
Ports == 1 .. 65535
ListAddresses == Nat               \* http and https addresses that have a host
Offsets == -720 .. 840             \* minutes east of UTC
Versions == Nat                    \* a release and its revision, packed
Places == -90 .. 90                \* a latitude, with a longitude in its limits
Languages == 0 .. 675              \* two letters
Objects == 1 .. 8                  \* rwicount, rwiurlcount, lurlcount, ...
PostingResults == 1 .. 10          \* ok, wrong_target, busy, not_granted, ...
URLResults == 1 .. 3               \* ok, wrong_target, error_not_granted
Domains == 1 .. 7                  \* all, text, image, audio, video, app, ctrl
Instants == Int                    \* to the second
Days == Int
Numbers == Int
Answers == 0 .. 1                  \* true, on, 1; false, off, 0
Records == Nat                     \* a row that is framed and carried in a column
Traits == 4096                     \* the appearances a word can have
Capable == 32                      \* the capabilities a peer can have
MaxTags == 64
KnownTypes == {97, 98, 100, 102, 104, 105, 109, 112, 115, 116, 117}
UnknownType == 117                 \* u
TextType == 116                    \* t

\* The letters of types are bytes.
ASSUME RangesAssumption ==
    /\ {ByteRange, WordRange, DayRange} \subseteq Nat \ {0}
    /\ KnownTypes \subseteq 0 .. ByteRange - 1

----------------------------------------------------------------------------
\* The readers of a column.  An empty text is none at all.

IsValue(text, values) == Len(text) = 1 /\ text[1].is = "plain" /\ text[1].n \in values

Required(text, values) == IF IsValue(text, values) THEN Some(<<text[1].n>>) ELSE Bad

Optional(text, values) == IF IsValue(text, values) THEN Some(<<text[1].n>>) ELSE NoValue

\* Optional, but what is there must be readable.
Strict(text, values) == IF text = <<>> THEN NoValue ELSE Required(text, values)

\* A count that is not readable is none (Atoi of a row's column).
Count(text) == IF IsValue(text, Numbers) THEN Some(<<text[1].n>>) ELSE Some(<<0>>)

\* optionalInt: a form or a message is refused for it.
StrictCount(text) == IF text = <<>> THEN Some(<<0>>) ELSE Required(text, Numbers)

\* optionalBool: what is not said is no.
Answer(text) == IF text = <<>> THEN Some(<<0>>) ELSE Required(text, Answers)

\* The number a text begins with, the way YaCy writes cardinals.
Prefix(text) == IF Len(text) # 1 \/ text[1].is = "junk" THEN 0 ELSE text[1].n

Cardinal(text, range) == Some(<<Prefix(text) % range>>)

TypeOfLetter(n) == IF n \in KnownTypes THEN n ELSE UnknownType

PostingType(text) == Some(<<TypeOfLetter(Prefix(text) % ByteRange)>>)

\* A mutant: a type no letter stands for is none.
MetadataTypeOrNone(text) ==
    IF text = <<>> THEN Some(<<TextType>>)
    ELSE IF text[1].is = "junk" \/ text[1].n \notin KnownTypes THEN NoValue
    ELSE Some(<<text[1].n>>)

MetadataType(text) ==
    IF text = <<>> THEN Some(<<TextType>>)
    ELSE Some(<<IF text[1].is = "junk" THEN UnknownType ELSE TypeOfLetter(text[1].n)>>)

\* Three-letter codes are known to be sent: the first two letters count.
FirstLetters(text) ==
    IF text # <<>> /\ text[1].is # "junk" /\ text[1].n \in Languages
    THEN Some(<<text[1].n>>) ELSE Bad

KnownLanguage(text) == IF FirstLetters(text).ok THEN FirstLetters(text) ELSE NoValue

\* Flags: those no trait stands for are read past.
Flags(text, traits) ==
    IF text = <<>> THEN Some(<<0>>)
    ELSE IF text[1].is = "junk" THEN Bad ELSE Some(<<text[1].n % traits>>)

\* The appearance a word must have: none, if no trait or every flag is asked for.
Constraint(text) ==
    IF text = <<>> THEN NoValue
    ELSE IF text[1].is = "junk" THEN Bad
    ELSE IF text[1].n = -1 \/ text[1].n % Traits = 0 THEN NoValue
    ELSE Some(<<text[1].n % Traits>>)

\* A capability is a bit of four characters, whatever they are.
Capabilities(text) ==
    IF text = <<>> \/ text[1].is = "junk" THEN Some(<<0>>) ELSE Some(<<text[1].n % Capable>>)

\* The zero pair stands for no location.
Location(text) ==
    IF Count(text).of = <<0>> THEN NoValue ELSE Required(text, Places)

NumbersOf(text) == [i \in DOMAIN text |-> text[i].n]

AllOf(text, values) == \A i \in DOMAIN text : IsValue(<<text[i]>>, values)

\* The n-th of some places, and what is at them alone.
Nth(places, n) == CHOOSE i \in places : Cardinality({j \in places : j <= i}) = n

Only(items, places) == [n \in 1 .. Cardinality(places) |-> items[Nth(places, n)]]

\* Addresses that are none are left out of a list of them.
HostList(text) ==
    Some(NumbersOf(Only(text, {i \in DOMAIN text : IsValue(<<text[i]>>, Hosts)})))

\* One tag that is none is the end of the seed; the wildcard is no tag.
TagList(text) ==
    IF AllOf(text, Numbers) /\ Len(text) <= MaxTags THEN Some(NumbersOf(text)) ELSE Bad

HashList(text) == IF AllOf(text, Hashes) THEN Some(NumbersOf(text)) ELSE Bad

\* The hashes of a query run into each other; half a hash at the end is not read.
QueryHashes(text) ==
    LET half == text # <<>> /\ Last(text).is = "ragged"
    IN  HashList(IF half THEN Front(text) ELSE text)

\* A framed text: plain, in base64, compressed, or not framed at all.
Framed(text) == IF AllOf(text, Numbers) THEN Some(NumbersOf(text)) ELSE Bad

FramedAddress(text) == IF text = <<>> THEN Bad ELSE Framed(text)

Kept(text) == Some(NumbersOf(text))

----------------------------------------------------------------------------
\* The columns of each row, and the fields of each form and message

Must(values)    == [as |-> "required", of |-> values]
May(values)     == [as |-> "optional", of |-> values]
Sound(values)   == [as |-> "strict", of |-> values]
Told(way)       == [as |-> way, of |-> Numbers]
Wrapped(range)  == [as |-> "cardinal", of |-> range]

\* What is in both: columns, or texts.
f || g == [x \in DOMAIN f \cup DOMAIN g |-> IF x \in DOMAIN f THEN f[x] ELSE g[x]]

SeedColumns ==
    [Hash |-> Must(Hashes), Name |-> Must(PeerNames), PeerType |-> Must(PeerTypes),
     yourtype |-> May(PeerTypes), IP |-> May(Hosts), IP6 |-> Told("hosts"),
     Port |-> May(Ports), PortSSL |-> May(Ports), seedURL |-> Sound(ListAddresses),
     Flags |-> Told("capabilities"), Version |-> May(Versions), Tags |-> Told("tags"),
     SorlAvail |-> May(Answers), BDate |-> May(Instants), LastSeen |-> May(Instants),
     dct |-> May(Instants), UTC |-> May(Offsets), news |-> Sound(Records)]

\* What a peer reports of its work: a column that is not readable counts nothing.
ActivityColumns ==
    [c \in {"Uptime", "ISpeed", "RSpeed", "USpeed", "CCount", "ICount", "LCount", "NCount",
            "RCount", "SCount", "sI", "rI", "sU", "rU"} |-> Told("count")]

NewsColumns ==
    [ori |-> Must(Hashes), cat |-> Must(Categories), cre |-> Must(Instants),
     rec |-> May(Instants), dis |-> Told("count"), title |-> Told("kept"), url |-> Told("kept")]

MetadataColumns ==
    [url |-> Told("address"), descr |-> Told("framed"), author |-> Told("framed"),
     tags |-> Told("framed"), publisher |-> Told("framed"), lat |-> Told("location"),
     mod |-> May(Days), load |-> May(Days), fresh |-> May(Days), referrer |-> Sound(Hashes),
     dt |-> Told("metadataType"), mime |-> Told("framed"), lang |-> Told("language"),
     snippet |-> Told("framed"), favicon |-> Told("framed")]

CountColumns ==
    [c \in {"size", "wc", "llocal", "lother", "limage", "laudio", "lvideo", "lapp"}
        |-> Told("count")]

PostingColumns ==
    [word |-> Must(Hashes), h |-> Must(Hashes), a |-> Wrapped(DayRange),
     w |-> Wrapped(WordRange), p |-> Wrapped(WordRange), t |-> Wrapped(WordRange),
     d |-> Told("postingType"), l |-> Told("letters"), z |-> Told("flags")]
    || [c \in {"u", "x", "y", "m", "n", "c", "r", "o"} |-> Wrapped(ByteRange)]

\* The posting of a resource is carried in a column of its metadata.
ResourceColumns == MetadataColumns || CountColumns || [wi |-> Sound(Records)]

Asked == [network |-> Told("kept"), iam |-> Sound(Hashes), key |-> Told("kept")]

HelloRequestFields ==
    Asked || [seed |-> Must(Records), count |-> Told("number"), magicmd5 |-> Told("kept"),
              mytime |-> Sound(Instants)]

ResponseHeader == [version |-> Told("kept"), uptime |-> Told("number")]

HelloResponseFields ==
    ResponseHeader || [yourip |-> Told("kept"), yourtype |-> Sound(PeerTypes),
                       mytime |-> Sound(Instants), message |-> Told("kept")]

QueryRequestFields ==
    Asked || [youare |-> Sound(Hashes), object |-> Must(Objects), env |-> Told("kept"),
              magicmd5 |-> Told("kept"), mytime |-> Sound(Instants)]

QueryResponseFields ==
    ResponseHeader || [response |-> Told("number"), mytime |-> Sound(Instants),
                       magic |-> Told("kept")]

TransferRWIRequestFields ==
    Asked || [youare |-> Sound(Hashes), wordc |-> Told("number"), entryc |-> Told("number")]

TransferRWIResponseFields ==
    ResponseHeader || [result |-> Must(PostingResults), pause |-> Told("number"),
                       unknownURL |-> Told("hashes"), errorURL |-> Told("hashes")]

TransferURLRequestFields ==
    [network |-> Told("kept"), iam |-> Sound(Hashes), youare |-> Sound(Hashes),
     urlc |-> Told("number")]

TransferURLResponseFields ==
    ResponseHeader || [result |-> Sound(URLResults), double |-> Told("number"),
                       errorURL |-> Told("hashes")]

\* What is asked for, and what narrows it; the texts are passed to nobody.
SearchRequestFields ==
    [myseed |-> Sound(Records), query |-> Told("query"), exclude |-> Told("query"),
     urls |-> Told("query"), abstracts |-> Told("query"), contentdom |-> Sound(Domains),
     strictContentDom |-> Told("answer"), constraint |-> Told("constraint")]
    || [f \in {"count", "time", "maxdist", "partitions", "timezoneOffset"}
           |-> Told("someNumber")]
    || [f \in {"network", "language", "modifier", "prefer", "filter", "profile", "sitehost",
               "sitehash", "author", "collection", "filetype", "protocol"} |-> Told("kept")]

\* The counts and the abstracts of the terms are messages of a column each.
SearchResponseFields ==
    ResponseHeader || [searchtime |-> Told("number"), references |-> Told("kept"),
                       joincount |-> Told("number"), count |-> Told("number"),
                       indexcount |-> Told("readable"), indexabstract |-> Told("kept")]

\* A seed of a seed list is one of a peer elsewhere: it must have an address.
Rows ==
    [Seed |-> SeedColumns || ActivityColumns, ListedSeed |-> SeedColumns || ActivityColumns,
     News |-> NewsColumns,
     Metadata |-> MetadataColumns || CountColumns, Posting |-> PostingColumns,
     Resource |-> ResourceColumns]

Forms ==
    [HelloRequest |-> HelloRequestFields, QueryRequest |-> QueryRequestFields,
     TransferRWIRequest |-> TransferRWIRequestFields,
     TransferURLRequest |-> TransferURLRequestFields, SearchRequest |-> SearchRequestFields]

Messages ==
    [HelloResponse |-> HelloResponseFields, QueryResponse |-> QueryResponseFields,
     TransferRWIResponse |-> TransferRWIResponseFields,
     TransferURLResponse |-> TransferURLResponseFields,
     SearchResponse |-> SearchResponseFields]

Schema == Rows || Forms || Messages

----------------------------------------------------------------------------
\* Reading and writing a row

ValueOf(column, text) ==
    CASE column.as = "required"     -> Required(text, column.of)
      [] column.as = "optional"     -> Optional(text, column.of)
      [] column.as = "strict"       -> Strict(text, column.of)
      [] column.as = "cardinal"     -> Cardinal(text, column.of)
      [] column.as = "count"        -> Count(text)
      [] column.as = "number"       -> StrictCount(text)
      [] column.as = "someNumber"   -> StrictCount(text)
      [] column.as = "answer"       -> Answer(text)
      [] column.as = "readable"     -> Required(text, Numbers)
      [] column.as = "hosts"        -> HostList(text)
      [] column.as = "tags"         -> TagList(text)
      [] column.as = "hashes"       -> HashList(text)
      [] column.as = "query"        -> QueryHashes(text)
      [] column.as = "capabilities" -> Capabilities(text)
      [] column.as = "flags"        -> Flags(text, Traits)
      [] column.as = "constraint"   -> Constraint(text)
      [] column.as = "postingType"  -> PostingType(text)
      [] column.as = "metadataType" -> MetadataType(text)
      [] column.as = "letters"      -> FirstLetters(text)
      [] column.as = "language"     -> KnownLanguage(text)
      [] column.as = "location"     -> Location(text)
      [] column.as = "address"      -> FramedAddress(text)
      [] column.as = "framed"       -> Framed(text)
      [] column.as = "kept"         -> Kept(text)

\* The pairs of a row are told apart by their column, and by their turn among the
\* pairs of that column: what order the columns are in says nothing.
Turns == 1 .. MostTurns

Refused == [ok |-> FALSE, of |-> <<>>]

IsThere(pairs, column) == \E turn \in Turns : <<column, turn>> \in DOMAIN pairs

\* A row is refused for what is no pair and takes the last of a column twice
\* there; a message skips the line; a form has the first.
TextIn(k, pairs, column) ==
    LET turns == {turn \in Turns : <<column, turn>> \in DOMAIN pairs} IN
    IF ~IsThere(pairs, column) THEN <<>>
    ELSE pairs[<<column, IF k \in DOMAIN Forms THEN Min(turns) ELSE Max(turns)>>]

\* What has no equals sign is of no column.
Unpaired == <<"", 1>>

IsAddressable(seed) == seed.IP # <<>> \/ seed.IP6 # <<>>

\* Columns whose absence is not an empty text.
ToldByPresence == {"capabilities", "readable"}

\* More columns than are read of a row.
Outgrows(k, pairs) == Cardinality(DOMAIN pairs) > MostColumns[k]

ReadRow(k, pairs) ==
    LET columns == Schema[k]
        values == [c \in DOMAIN columns |->
                     IF columns[c].as \in ToldByPresence /\ ~IsThere(pairs, c) THEN NoValue
                     ELSE ValueOf(columns[c], TextIn(k, pairs, c))]
    IN  IF \/ k \in DOMAIN Rows /\ Unpaired \in DOMAIN pairs
           \/ Outgrows(k, pairs)
           \/ \E c \in DOMAIN columns : ~values[c].ok
        THEN Refused
        ELSE LET record == [c \in DOMAIN columns |-> values[c].of] IN
             IF k = "ListedSeed" /\ ~IsAddressable(record) THEN Refused
             ELSE [ok |-> TRUE, of |-> record]

TextOf(values) == [i \in DOMAIN values |-> Plain(values[i])]

\* Nothing is written of what is none, nor of a number or a no that may be left out.
IsWritten(column, values) ==
    /\ values # <<>> \/ column.as \in {"framed", "hashes", "tags"}
    /\ column.as \in {"someNumber", "answer"} => values # <<0>>

\* A column is written once.
WriteRow(k, record) ==
    [place \in {d \in DOMAIN Schema[k] : IsWritten(Schema[k][d], record[d])} \X {1} |->
        TextOf(record[place[1]])]

----------------------------------------------------------------------------
\* Reading a batch: postings by lines, rows of metadata and resources by their
\* numbers, seeds by their numbers or by lines.

Good(n) == [is |-> "good", n |-> n]
Broken  == [is |-> "broken", n |-> 0]     \* there, and refused
Nothing == [is |-> "nothing", n |-> 0]    \* a blank line, a number left out

First(items, n) == SubSeq(items, 1, IF n < Len(items) THEN n ELSE Len(items))

GoodOf(items) == NumbersOf(Only(items, {i \in DOMAIN items : items[i].is = "good"}))

\* A mutant: lines that are refused count as postings.
CountingEveryLine(lines) == GoodOf(First(lines, PostingLimit))

\* Lines are read until there are enough postings.
PostingLines(lines) == First(GoodOf(lines), PostingLimit)

\* The items before the first that is left out.
UpToGap(items) ==
    LET gaps == {i \in DOMAIN items : items[i].is = "nothing"} IN
    IF gaps = {} THEN items ELSE SubSeq(items, 1, (CHOOSE i \in gaps : \A j \in gaps : i <= j) - 1)

\* As many rows as are announced.
MetadataRows(items, count) == GoodOf(First(items, count))

\* Its own seed is the first a peer sends, and has to be readable.
HelloSeeds(items) ==
    IF items # <<>> /\ items[1].is = "broken" THEN Refused ELSE Some(GoodOf(UpToGap(items)))

Resources(items, count) ==
    IF count <= 0 THEN GoodOf(UpToGap(items)) ELSE GoodOf(First(items, count))

SeedLines(lines) == GoodOf(lines)

ReadBatch(r, b) ==
    CASE r = "postings"  -> Some(PostingLines(b.items))
      [] r = "metadata"  -> Some(MetadataRows(b.items, b.count))
      [] r = "seeds"     -> HelloSeeds(b.items)
      [] r = "resources" -> Some(Resources(b.items, b.count))
      [] r = "seedList"  -> Some(SeedLines(b.items))

----------------------------------------------------------------------------
\* The cases

Texts ==
    {<<>>} \cup {<<p>> : p \in Pieces}
           \cup {<<p, q>> : p, q \in {Plain(1), Ragged(1), Junk}}

Compulsory == {"required", "address", "letters", "readable"}

\* The row that has just what it must have.
Barest(k) ==
    LET needed == {c \in DOMAIN Schema[k] :
                      Schema[k][c].as \in Compulsory \/ (k = "ListedSeed" /\ c = "IP")}
    IN  [place \in needed \X {2} |-> <<Plain(3)>>]

At(place, text) == [p \in {place} |-> text]

\* What a row has beside: a column, one nobody knows, no column.
Beside == {<<>>, At(Unpaired, <<Junk>>), At(<<"unknown", 1>>, <<Plain(1)>>)}

SentOnce(k) ==
    {(At(<<c, 1>>, t) || Barest(k)) || more : c \in DOMAIN Schema[k], t \in Texts, more \in Beside}

\* A column is there twice, or three times.
Again == {<<>>, <<Plain(5)>>, <<Junk>>}

SentAgain(k) ==
    {(At(<<c, 1>>, t) || Barest(k)) || At(<<c, 3>>, u) :
        c \in DOMAIN Schema[k], t \in Texts, u \in Again}

Sent(k) == SentOnce(k) \cup SentAgain(k)

BatchReaders == {"postings", "metadata", "seeds", "resources", "seedList"}

Items == {Good(1), Good(2), Broken, Nothing}

Batches == {[items |-> s, count |-> n] : s \in BoundedSeq(Items, MaxItems - 1), n \in 0 .. MaxItems}

WireInit ==
    \/ /\ kind \in DOMAIN Schema /\ row \in Sent(kind)
       /\ reader = "postings" /\ batch = [items |-> <<>>, count |-> 0]
    \/ /\ kind = "News" /\ row = <<>>
       /\ reader \in BatchReaders /\ batch \in Batches

WireRests == kind = "News" /\ row = <<>> /\ reader = "seeds" /\ batch = [items |-> <<>>, count |-> 0]

\* A peer reads a row and tells the next what it read.
PassOn ==
    /\ row # <<>> /\ ReadRow(kind, row).ok
    /\ row' = WriteRow(kind, ReadRow(kind, row).of)
    /\ UNCHANGED <<kind, reader, batch>>

\* A row that is refused goes no further.
Drop ==
    /\ row # <<>> /\ ~ReadRow(kind, row).ok
    /\ row' = <<>>
    /\ UNCHANGED <<kind, reader, batch>>

\* Where an item may be spoilt and the others are still told apart.
Spoils ==
    [postings |-> {Broken, Nothing}, metadata |-> {Broken, Nothing}, seeds |-> {Broken},
     resources |-> {Broken}, seedList |-> {Broken, Nothing}]

\* One more item is sent, and is nothing its reader can use.
SpoiltItem ==
    /\ row = <<>>
    /\ Len(batch.items) < MaxItems
    /\ \E i \in 1 .. Len(batch.items) + 1, x \in Spoils[reader] :
          /\ reader = "seeds" => i > 1
          /\ batch' = [items |-> InsertAt(batch.items, i, x),
                       count |-> IF batch.count >= i THEN batch.count + 1 ELSE batch.count]
    /\ UNCHANGED <<kind, row, reader>>

NextBatch ==
    /\ row = <<>> /\ Len(batch.items) \in {0, MaxItems}
    /\ batch' = [items |-> <<Good(1)>>, count |-> 1]
    /\ UNCHANGED <<kind, row, reader>>

WireNext == PassOn \/ Drop \/ SpoiltItem \/ NextBatch

----------------------------------------------------------------------------
\* However a peer wrote it, with columns twice, unknown, ragged, out of range or
\* left out: a row that one node accepts is read as the same by every node it is
\* passed on to, as long as it does not outgrow the bound on what is read.  The
\* codecs of both directions have to agree on every default, bound and wrap.
PassedOnUnchanged ==
    [][PassOn /\ ~Outgrows(kind, row') =>
         ReadRow(kind, row') = ReadRow(kind, row)]_wireVars

\* An item that cannot be read costs no other item of the batch, whatever is
\* counted, announced or numbered; and a batch within the bounds is read whole.
BadItemsCostOnlyThemselves ==
    /\ [][SpoiltItem => ReadBatch(reader, batch') = ReadBatch(reader, batch)]_wireVars
    /\ [](LET all == GoodOf(batch.items) IN
          Len(all) = Len(batch.items) /\ Len(all) <= PostingLimit /\ batch.count = Len(all)
             => ReadBatch(reader, batch) = Some(all))
=============================================================================
