---------------------------- MODULE BinaryPlist ----------------------------
(***************************************************************************)
(* The binary property lists of the control channel                        *)
(* (src/src/airplay/bplist.cpp): BPlistWriter, which makes the answers,    *)
(* and BPlistReader, which reads the requests.                             *)
(*                                                                         *)
(* An object is its head, which are bytes (a marker and, if it does not    *)
(* hold it, the count), and its body: the bytes of a number, the           *)
(* references of an array or a dictionary, or so many bytes of text or     *)
(* data, which are known by the place of the file they take.  What was     *)
(* added is kept beside what was written.                                  *)
(***************************************************************************)
EXTENDS Integers, Sequences
LOCAL INSTANCE SequencesExt
LOCAL INSTANCE FiniteSetsExt

CONSTANT MaxAdds \* objects that are added to a document

VARIABLES
    document, \* which document this is
    maker,    \* "writer": BPlistWriter; "device": what an iPhone sends
    objects,  \* objects_
    left,     \* how many objects may yet be added
    file      \* <<>>, or the one file build() has made

plistVars == <<document, maker, objects, left, file>>

\* Numbers are eight bytes, the most significant first.
Number(n) == <<0, 0, 0, 0, 0, 0, n \div 256, n % 256>>
Numbers == {Number(110), Number(256), <<0, 0, 0, 0, 0, 1, 0, 0>>, [i \in 1..8 |-> 255]}

\* A string is known by its name, and has a length.
Names == [type |-> 4, streams |-> 7, streamConnectionID |-> 18, server |-> 256]

\* The marker's upper four bits.
Uint == 1  Real == 2  Data == 4  Ascii == 5  Unicode == 6  Array == 10  Dict == 13

-----------------------------------------------------------------------------
(* BPlistWriter                                                            *)

Object(head, body, bytes, added, name) ==
    [head |-> head, body |-> body, bytes |-> bytes, added |-> added, name |-> name]

UintObject(v) ==
    LET Zero(k) == \A i \in 1..k : v[i] = 0
        log == IF Zero(7) THEN 0 ELSE IF Zero(6) THEN 1 ELSE IF Zero(4) THEN 2 ELSE 3
        body == SubSeq(v, 9 - 2^log, 8)
    IN  Object(<<16 * Uint + log>>, body, Len(body), v, "")

RealObject == Object(<<16 * Real + 3>>, <<>>, 8, <<>>, "")
BoolObject(b) == Object(<<IF b THEN 9 ELSE 8>>, <<>>, 0, <<>>, "")

\* Mutant: the long form begins after fifteen.
CountHeadLate(type, n) ==
    IF n <= 15 THEN <<16 * type + n>>
    ELSE IF n <= 255 THEN <<16 * type + 15, 16, n>>
    ELSE <<16 * type + 15, 17, (n \div 256) % 256, n % 256>>

\* The head of n bytes of text or data.
CountHead(type, n) ==
    IF n < 15 THEN <<16 * type + n>>
    ELSE IF n <= 255 THEN <<16 * type + 15, 16, n>>
    ELSE <<16 * type + 15, 17, (n \div 256) % 256, n % 256>>

TextObject(type, name) ==
    Object(CountHead(type, Names[name]), <<>>,
           Names[name] * (IF type = Unicode THEN 2 ELSE 1), <<>>, name)
DataObject(n) == Object(CountHead(Data, n), <<>>, n, <<>>, "")

\* The head of n references: n has one byte, unless a device has written it.
RefsHead(by, type, n) ==
    IF n < 15 THEN <<16 * type + n>>
    ELSE IF by = "device" THEN CountHead(type, n)
    ELSE <<16 * type + 15, 16, n % 256>>

RefSize(by) == IF by = "device" THEN 2 ELSE 1
Refs(by, items) == [i \in DOMAIN items |-> items[i] % 256 ^ RefSize(by)]

ArrayObject(by, items) ==
    Object(RefsHead(by, Array, Len(items)), Refs(by, items), RefSize(by) * Len(items), items, "")
\* Keys first, then values.
DictObject(by, keys, vals) ==
    Object(RefsHead(by, Dict, Len(keys)), Refs(by, keys \o vals),
           2 * RefSize(by) * Len(keys), keys \o vals, "")

SizeOf(o) == Len(o.head) + o.bytes

\* Where objects start, one after the other, the first of them at zero, and where
\* the last one ends: of two runs of them in turn, and of the objects i..j.  A
\* function's arguments are evaluated once.
Joined[front, back \in Seq(Nat)] ==
    front \o [k \in 1 .. Len(back) - 1 |-> front[Len(front)] + back[k + 1]]
Places[i, j \in Nat] ==
    IF i = j THEN <<0, SizeOf(objects[i])>>
    ELSE Joined[Places[i, (i + j) \div 2], Places[(i + j) \div 2 + 1, j]]

\* After the header; the table of the offsets comes behind them.  No place here
\* is above three bytes.
Build(root) ==
    /\ file = <<>>
    /\ \E places \in {Places[1, Len(objects)]} :
        LET n == Len(objects)
            end == 8 + places[n + 1]
            size == IF end <= 255 THEN 1 ELSE IF end <= 65535 THEN 2 ELSE 4
        IN  file' = <<[starts |-> [i \in 1..n |-> 8 + places[i]],
                       offset_size |-> size,
                       offsets |-> [i \in 1..n |-> (8 + places[i]) % 256 ^ Min({size, 3})],
                       root |-> root, table |-> end,
                       len |-> end + size * n + 32]>>
    /\ UNCHANGED <<document, maker, objects, left>>

-----------------------------------------------------------------------------
(* The server's answers and a device's request.                            *)

\* Text of the given length, of which nothing else is asked.
Text(n) == Object(CountHead(Ascii, n), <<>>, n, <<>>, "")
N(n) == UintObject(Number(n))

\* The fields, each a key's length and a value, and their dictionary, after the
\* objects before; `more' are fields whose values are among those.
Put(before, fields, more) ==
    LET n == Len(fields)
        all == before \o [k \in 1 .. 2 * n |-> IF k % 2 = 1 THEN Text(fields[(k + 1) \div 2][1])
                                          ELSE fields[k \div 2][2]]
                      \o [i \in DOMAIN more |-> Text(more[i][1])]
        keys == [i \in 1..n |-> Len(before) + 2 * (i - 1)]
                   \o [i \in DOMAIN more |-> Len(before) + 2 * n + i - 1]
        vals == [i \in 1..n |-> Len(before) + 2 * i - 1] \o [i \in DOMAIN more |-> more[i][2]]
    IN  Append(all, DictObject("writer", keys, vals))
PutArray(before, items) == Append(before, ArrayObject("writer", items))

\* handle_info(): two dictionaries in an array, two more, and one in a third.
Formats ==
    LET f3 == UintObject(<<0, 0, 0, 0, 3, 255, 255, 252>>)
        fields == <<<<4, N(100)>>, <<17, f3>>, <<18, f3>>>>
    IN  PutArray(Put(Put(<<>>, fields, <<>>), fields, <<>>), <<6, 13>>)
Latencies ==
    LET fields == <<<<4, N(100)>>, <<9, Text(7)>>, <<18, N(0)>>, <<19, BoolObject(FALSE)>>>>
    IN  PutArray(Put(Put(Formats, fields, <<>>), fields, <<>>), <<23, 32>>)
Displays ==
    LET fields == <<<<4, Text(36)>>, <<5, N(1920)>>, <<6, N(1080)>>, <<11, N(1920)>>,
            <<12, N(1080)>>, <<13, N(0)>>, <<14, N(0)>>, <<8, BoolObject(FALSE)>>,
            <<11, RealObject>>, <<6, N(30)>>, <<11, BoolObject(FALSE)>>, <<8, N(14)>>>>
    IN  PutArray(Put(Latencies, fields, <<>>), <<58>>)
InfoAnswer ==
    Put(Displays,
        <<<<8, Text(17)>>, <<10, Text(17)>>, <<8, UintObject(<<0, 0, 0, 0, 90, 127, 254, 230>>)>>,
          <<5, Text(10)>>, <<4, TextObject(Ascii, "server")>>, <<9, Text(3)>>, <<13, Text(6)>>,
          <<2, DataObject(32)>>, <<2, Text(36)>>, <<2, N(2)>>, <<11, N(68)>>, <<17, N(1)>>,
          <<24, BoolObject(TRUE)>>, <<13, RealObject>>>>,
        <<<<12, 14>>, <<14, 33>>, <<8, 59>>>>)

\* handle_pair_setup_pin(): the key B of 2048 bits and the salt.
PairAnswer == Put(<<>>, <<<<2, DataObject(256)>>, <<4, DataObject(16)>>>>, <<>>)

\* A request of SETUP with the two streams a device sets up.
SetupRequest(by) ==
    LET T(name) == TextObject(Ascii, name)
    IN  <<T("streams"), T("type"), T("streamConnectionID"), N(110), N(96),
          UintObject([i \in 1..8 |-> 255]), DictObject(by, <<1, 2>>, <<3, 5>>),
          DictObject(by, <<1>>, <<4>>), ArrayObject(by, <<6, 7>>), DictObject(by, <<0>>, <<8>>)>>

\* As many numbers as bring the references to the end of their byte.
Filler == [i \in 1..254 |-> N(110)] \o <<TextObject(Ascii, "type")>>

\* A key and two values it may have at once.
Fields == <<TextObject(Ascii, "type"), N(110), N(96)>>

Answers == {"info", "pair"}
Init ==
    /\ document \in Answers \cup {"request", "fields", "filler", "empty"}
    /\ maker \in IF document \in Answers THEN {"writer"} ELSE {"writer", "device"}
    /\ objects = CASE document = "info"    -> InfoAnswer
                   [] document = "pair"    -> PairAnswer
                   [] document = "request" -> SetupRequest(maker)
                   [] document = "fields"  -> Fields
                   [] document = "filler"  -> Filler
                   [] document = "empty"   -> <<>>
    /\ left = IF document = "filler" THEN 1 ELSE MaxAdds
    /\ file = <<>>

\* The empty document, from which this component does not move.
Nothing == document = "empty" /\ maker = "writer"

-----------------------------------------------------------------------------
(* What else may be added.                                                 *)

MayAdd == file = <<>> /\ document \notin Answers /\ left > 0
Add(object) ==
    /\ objects' = Append(objects, object) /\ left' = left - 1
    /\ UNCHANGED <<document, maker, file>>

AddUint == \E v \in Numbers : Add(UintObject(v))
AddString == \E name \in DOMAIN Names : Add(TextObject(Ascii, name))
\* What a device writes and this program only reads.
AddUnicode == maker = "device" /\ \E name \in DOMAIN Names : Add(TextObject(Unicode, name))
AddData == \E n \in {14, 15, 255, 65535} : Add(DataObject(n))

\* The last objects, by their references; and those of them that are keys.
Recent == {i \in 0 .. Len(objects) - 1 : i + 3 >= Len(objects)}
Texts == {i \in Recent : objects[i + 1].name # ""}

AddArray == \E n \in {0, 1, 2, 15, 256} : \E i \in Recent : Add(ArrayObject(maker, [k \in 1..n |-> i]))
AddDict ==
    \E n \in {0, 1, 2, 15} : \E k, l \in Texts, i, j \in Recent :
        Add(DictObject(maker, [m \in 1..n |-> IF m = 1 THEN k ELSE l],
                       [m \in 1..n |-> IF m = 1 THEN i ELSE j]))

Next ==
    \/ MayAdd /\ (AddUint \/ AddString \/ AddUnicode \/ AddData \/ AddArray \/ AddDict)
    \/ objects # <<>> /\ Build(Len(objects) - 1)

-----------------------------------------------------------------------------
(* BPlistReader, on the file.  References and places are those of the file *)
(* and count from zero.                                                    *)

f == file[1]

\* parse()
Parses ==
    /\ f.len >= 40
    /\ Len(objects) # 0 /\ Len(objects) <= 100000
    /\ f.root < Len(objects)
    /\ f.table + Len(objects) * f.offset_size <= f.len - 32
    /\ \A i \in DOMAIN f.offsets : f.offsets[i] < f.len

\* The object a reference leads to, if the offset is where it starts; else bytes
\* of which nothing is known.
At(ref) ==
    IF ref < Len(objects) /\ f.offsets[ref + 1] = f.starts[ref + 1]
    THEN objects[ref + 1] ELSE Object(<<0>>, <<>>, 0, <<>>, "")
OffsetAt(ref) == IF ref < Len(objects) THEN f.offsets[ref + 1] ELSE 0
TypeAt(ref) == At(ref).head[1] \div 16

Padded(o) == o.head \o <<0, 0, 0>>
CountWidth(o) == 2 ^ (Padded(o)[2] % 16)

\* decode_count(): the count, which no head gives in more than two bytes, and
\* where what it counts starts.
Count(o) ==
    IF o.head[1] % 16 # 15 THEN o.head[1] % 16
    ELSE IF CountWidth(o) = 1 THEN Padded(o)[3]
    ELSE 256 * Padded(o)[3] + Padded(o)[4]
BodyAt(ref) ==
    LET o == At(ref)
    IN  OffsetAt(ref) + 1 + (IF o.head[1] % 16 = 15 THEN 1 + CountWidth(o) ELSE 0)

ReadUint(ref) ==
    LET o == At(ref)  width == 2 ^ (o.head[1] % 16)
    IN  IF TypeAt(ref) # Uint \/ OffsetAt(ref) + 1 + width > f.len THEN Number(0)
        ELSE [i \in 1..8 |-> IF i <= 8 - width THEN 0 ELSE o.body[i - (8 - width)]]

\* The bytes a string or data object is read from, or none.
Bytes(ref, types, limit) ==
    LET o == At(ref)
        n == Count(o) * (IF TypeAt(ref) = Unicode THEN 2 ELSE 1)
    IN  IF TypeAt(ref) \notin types \/ Count(o) > limit \/ BodyAt(ref) + n > f.len THEN <<>>
        ELSE <<BodyAt(ref), n>>
ReadData(ref) == Bytes(ref, {Data}, 16777216)

\* The name of which these are the bytes.
ReadString(ref) ==
    LET bytes == Bytes(ref, {Ascii, Unicode}, 65536)
    IN  IF bytes = <<OffsetAt(ref) + Len(At(ref).head), At(ref).bytes>> THEN At(ref).name ELSE ""

\* The references of an array, or of a dictionary's keys and values.
ReadRefs(ref, type, each) ==
    LET o == At(ref)
    IN  IF TypeAt(ref) # type \/ Count(o) > 4096
           \/ BodyAt(ref) + each * Count(o) * RefSize(maker) > f.len THEN <<>>
        ELSE SubSeq(o.body, 1, each * Count(o))
ReadArray(ref) == ReadRefs(ref, Array, 1)
ReadDict(ref) ==
    LET refs == ReadRefs(ref, Dict, 2)  n == Len(refs) \div 2
    IN  [keys |-> SubSeq(refs, 1, n), vals |-> SubSeq(refs, n + 1, 2 * n)]

\* Mutant: the last entry with the key.
GetUintLast(key) ==
    LET dict == ReadDict(f.root)
        hits == {i \in DOMAIN dict.keys : ReadString(dict.keys[i]) = key}
    IN  IF hits = {} THEN <<>> ELSE ReadUint(dict.vals[Max(hits)])

\* get_uint() of the root: the value of the first entry with the key.
GetUint(key) ==
    LET dict == ReadDict(f.root)
        hits == {i \in DOMAIN dict.keys : ReadString(dict.keys[i]) = key}
    IN  IF hits = {} THEN <<>> ELSE ReadUint(dict.vals[Min(hits)])

\* get_streams(): of each stream its type, zero if it says none; the last entry
\* with the key counts.
GetStreams ==
    LET root == ReadDict(f.root)
        hits == {i \in DOMAIN root.keys : ReadString(root.keys[i]) = "streams"}
        array == ReadArray(root.vals[Min(hits)])
        Type(dict) ==
            LET types == {i \in DOMAIN dict.keys : ReadString(dict.keys[i]) = "type"}
            IN  IF types = {} THEN Number(0) ELSE ReadUint(dict.vals[Max(types)])
    IN  IF hits = {} THEN <<>> ELSE [i \in DOMAIN array |-> Type(ReadDict(array[i]))]

-----------------------------------------------------------------------------
(* Properties *)

TypeOK ==
    /\ maker \in {"writer", "device"} /\ left \in 0 .. MaxAdds + 1
    /\ \A i \in DOMAIN objects :
          /\ ToSet(objects[i].head) \subseteq 0..255
          /\ ToSet(objects[i].body) \subseteq 0 .. 256 ^ RefSize(maker) - 1
    /\ Len(file) <= 1

\* What one byte can hold, which bplist.cpp:399 says is enough: the references
\* and, of an array or a dictionary, the number of them.
Fits ==
    \/ maker = "device"
    \/ /\ Len(objects) <= 256
       /\ \A i \in DOMAIN objects : objects[i].head[1] \div 16 \in {Array, Dict} =>
             objects[i].bytes < 256 * (IF objects[i].head[1] \div 16 = Dict THEN 2 ELSE 1)

\* Every object is read as what was added.
ReadsBack(i) ==
    LET o == objects[i]  ref == i - 1
        text == <<f.starts[i] + Len(o.head), o.bytes>>
    IN  CASE TypeAt(ref) = Uint  -> ReadUint(ref) = o.added
          [] TypeAt(ref) = Data  -> ReadData(ref) = text
          [] TypeAt(ref) \in {Ascii, Unicode} ->
                Bytes(ref, {Ascii, Unicode}, 65536) = text
          [] TypeAt(ref) = Array -> ReadArray(ref) = o.added
          [] TypeAt(ref) = Dict  -> ReadDict(ref).keys \o ReadDict(ref).vals = o.added
          [] OTHER               -> OffsetAt(ref) = f.starts[i]

\* What is added is what is read, across every change of an encoding's length;
\* the server's own answers, and the requests of SETUP, are within the limits.
PlistsReadBack ==
    file # <<>> /\ (document \in Answers \/ Fits) =>
        /\ Parses
        /\ \A i \in DOMAIN objects : ReadsBack(i)
        /\ document = "request" /\ f.root = 9 => GetStreams = <<Number(110), Number(96)>>

\* Of two entries with one key the root's first one is taken.
FirstEntryCounts ==
    file # <<>> /\ Fits /\ TypeAt(f.root) = Dict =>
        LET refs == objects[f.root + 1].added
            n == Len(refs) \div 2
            Name(i) == objects[refs[i] + 1].name
        IN  \A i \in 1..n :
                (Name(i) # "" /\ \A j \in 1 .. i - 1 : Name(j) # Name(i))
                  => LET o == objects[refs[n + i] + 1]
                     IN  GetUint(Name(i)) =
                            IF o.head[1] \div 16 = Uint THEN o.added ELSE Number(0)
=============================================================================
