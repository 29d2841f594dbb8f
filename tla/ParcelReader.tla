---------------------------- MODULE ParcelReader ----------------------------
(***************************************************************************)
(* tools/parse_packageconf.py: read_strings walks a Parcel that Android    *)
(* wrote, one string, null or byte at a time, without knowing which of its *)
(* words are integers.  The module writes a Parcel item by item and reads  *)
(* it back, so that what was written can be compared with what is found.   *)
(***************************************************************************)
EXTENDS Integers, Sequences, Picking

CONSTANTS
  Strings,     \* strings that are written, as sequences of character codes
  Ints,        \* integers that are written, 0 .. 2^16 - 1
  MaxItems     \* bound: items of the Parcel

Octet == 0..255
Ascii == 32..126

ASSUME ParcelAssumption ==
  /\ Strings \subseteq Seq(Ascii)
  /\ \A n \in Ints : n \in Nat /\ n <= 65535
  /\ MaxItems \in Nat

VARIABLES
  items,     \* what was written
  bytes,     \* the file
  reading,   \* read_strings has begun
  at,        \* its i, from 0
  found      \* its out

pvars == <<items, bytes, reading, at, found>>

Null == <<-1>>  \* what a null string is read as; no string holds a -1

-----------------------------------------------------------------------------
(* android.os.Parcel                                                       *)

Word(n) == <<n % 256, (n \div 256) % 256, 0, 0>>
Zeros(n) == [i \in 1..n |-> 0]

Align4(n) == ((n + 3) \div 4) * 4

\* Rounded up by the writer in the same way.
Padded(b) == b \o Zeros(((Len(b) + 3) \div 4) * 4 - Len(b))

Wide(s) == [i \in 1..(2 * Len(s)) |-> IF i % 2 = 1 THEN s[(i + 1) \div 2] ELSE 0]

Bytes(item) ==
  CASE item.k = "null"  -> <<255, 255, 255, 255>>
    [] item.k = "int"   -> Word(item.n)
    [] item.k = "utf8"  -> Padded(Word(Len(item.s)) \o item.s \o <<0>>)
    [] item.k = "utf16" -> Padded(Word(Len(item.s)) \o Wide(item.s) \o <<0, 0>>)

Items == {[k |-> "null", n |-> 0, s |-> <<>>]}
         \cup {[k |-> "int", n |-> n, s |-> <<>>] : n \in Ints}
         \cup {[k |-> k, n |-> 0, s |-> s] : k \in {"utf8", "utf16"}, s \in Strings}

Write ==
  /\ ~reading /\ Len(items) < MaxItems
  /\ \E item \in Items : items' = Append(items, item) /\ bytes' = bytes \o Bytes(item)
  /\ UNCHANGED <<reading, at, found>>

-----------------------------------------------------------------------------
(* read_strings                                                            *)

Byte(i) == bytes[i + 1]
Slice(i, n) == SubSeq(bytes, i + 1, i + n)
Total == Len(bytes)

\* struct.unpack_from("<i"); the high byte is the sign.
Int32(i) ==
  Byte(i) + 256 * Byte(i + 1) + 65536 * Byte(i + 2)
    + 16777216 * (IF Byte(i + 3) > 127 THEN Byte(i + 3) - 256 ELSE Byte(i + 3))

Printable(s) == \A j \in DOMAIN s : s[j] \in Ascii

\* _try_utf8 and _try_utf16: a length, that many printable characters, a terminator.
\* Mutant: any bytes will do.
Utf8Unprintable(i) ==
  LET ln == Int32(i) IN
  /\ ln > 0 /\ ln < 4000 /\ i + 4 + ln + 1 <= Total
  /\ Byte(i + 4 + ln) = 0

Utf8At(i) ==
  LET ln == Int32(i) IN
  /\ ln > 0 /\ ln < 4000 /\ i + 4 + ln + 1 <= Total
  /\ Byte(i + 4 + ln) = 0
  /\ Printable(Slice(i + 4, ln))

Units(i, ln) == [j \in 1..ln |-> Byte(i + 2 * j + 2) + 256 * Byte(i + 2 * j + 3)]

\* Mutant: the terminator is not asked for.
Utf16Unterminated(i) ==
  LET ln == Int32(i) IN
  /\ ln >= 0 /\ ln < 4000 /\ i + 4 + 2 * ln + 2 <= Total
  /\ Printable(Units(i, ln))

Utf16At(i) ==
  LET ln == Int32(i) IN
  /\ ln >= 0 /\ ln < 4000 /\ i + 4 + 2 * ln + 2 <= Total
  /\ Slice(i + 4 + 2 * ln, 2) = <<0, 0>>
  /\ Printable(Units(i, ln))

More == reading /\ at <= Total - 4

ReadNull ==
  /\ More /\ Int32(at) = -1
  /\ found' = Append(found, Null) /\ at' = at + 4
  /\ UNCHANGED <<items, bytes, reading>>

\* UTF-8 is tried first.
ReadString ==
  /\ More /\ Int32(at) # -1
  /\ LET ln == Int32(at) IN
     \/ /\ Utf8At(at)
        /\ found' = Append(found, Slice(at + 4, ln))
        /\ at' = at + Align4(4 + ln + 1)
     \/ /\ ~Utf8At(at) /\ Utf16At(at)
        /\ found' = Append(found, Units(at, ln))
        /\ at' = at + Align4(4 + 2 * ln + 2)
  /\ UNCHANGED <<items, bytes, reading>>

Skip ==
  /\ More /\ Int32(at) # -1 /\ ~Utf8At(at) /\ ~Utf16At(at)
  /\ at' = at + 1
  /\ UNCHANGED <<items, bytes, reading, found>>

Open ==
  /\ ~reading /\ reading' = TRUE
  /\ UNCHANGED <<items, bytes, at, found>>

PInit == items = <<>> /\ bytes = <<>> /\ reading = FALSE /\ at = 0 /\ found = <<>>

PNext == Write \/ Open \/ ReadNull \/ ReadString \/ Skip

PSpec == PInit /\ [][PNext]_pvars

-----------------------------------------------------------------------------
(* Properties                                                              *)

\* classify: the strings that are neither null nor empty.
Values == Picked(found, {i \in DOMAIN found : found[i] \notin {Null, <<>>}})

Named == {i \in DOMAIN items : items[i].k \in {"utf8", "utf16"} /\ items[i].s # <<>>}
Written == Picked([i \in DOMAIN items |-> items[i].s], Named)

\* An integer the reader gets over: nothing but a null or a string with something
\* in it follows, and it is not a 1 before a length that is itself printable.
Lone(i) ==
  i < Len(items) =>
    /\ items[i + 1].k # "int" /\ (items[i + 1].k = "null" \/ items[i + 1].s # <<>>)
    /\ items[i].n = 1 => Len(items[i + 1].s) < 32

PTypeOK ==
  /\ Len(items) <= MaxItems
  /\ \A i \in DOMAIN bytes : bytes[i] \in Octet
  /\ reading \in BOOLEAN /\ at \in Nat
  /\ \A i \in DOMAIN found : found[i] = Null \/ found[i] \in Seq(Ascii)

\* When the walk is over, the names found are the names written, in their order:
\* no integer among them hides one, cuts one or makes one up.
StringsFound ==
  /\ reading /\ ~More
  /\ \A i \in DOMAIN items : items[i].k = "int" => Lone(i)
  => Values = Written

\* Refuted: the same whatever the integers are ("component ordering / grouping is
\* preserved", module docstring).  A 5000 and a 0 before a string are read as an
\* empty string that ends inside it.
AlwaysFound == reading /\ ~More => Values = Written
=============================================================================
