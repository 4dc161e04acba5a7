----------------------------- MODULE BinaryFormat -----------------------------
(***************************************************************************)
(* What BinarySerializer writes for a value and what it makes of bytes when *)
(* it reads (binary_serializer.tpp and .cpp): the layout of each type that  *)
(* writeSingle takes, the size serializedSizeSingle announces for it, and  *)
(* the reads with their checks and early returns.  All are functions of    *)
(* the bytes and of the byte order of the host.                            *)
(*                                                                         *)
(* A value is a record of its type and val:                                *)
(*   scalar    a number          array, vector   a sequence of numbers     *)
(*   string    a text            vectors         a sequence of sequences   *)
(*   strings   a sequence of texts (vector<string>, of no trivial type)    *)
(*   object    a Serializable with two members, a number and a text        *)
(*   file      a name and a content                                        *)
(* A text is a sequence of bytes.  A byte has Base values, a SizeUnit has   *)
(* SizeOfUnit bytes and a number SizeOfNumber: the code depends on which   *)
(* sizes are equal, not on how large they are.                             *)
(***************************************************************************)
EXTENDS Integers, SequencesExt

CONSTANT ArrayLength   \* L of the std::array<T, L> that is written and read

Base == 4
SizeOfUnit == 2
SizeOfNumber == 2

(* How many values a SizeUnit has: sums and products of sizes wrap there.  *)
Word == Base ^ SizeOfUnit

Byte == 0 .. Base - 1
Endianess == {"LT_ENDIAN", "BG_ENDIAN"}
Type == {"scalar", "string", "array", "vector", "vectors", "strings", "object", "file"}

Number == 0 .. Base ^ SizeOfNumber - 1
Text == Seq(Byte)

(* What a variable of each type can hold.                                  *)
Val(type) ==
  CASE type = "scalar"  -> Number
    [] type = "string"  -> Text
    [] type = "array"   -> [1 .. ArrayLength -> Number]
    [] type = "vector"  -> Seq(Number)
    [] type = "vectors" -> Seq(Seq(Number))
    [] type = "strings" -> Seq(Text)
    [] type = "object"  -> [number : Number, text : Text]
    [] type = "file"    -> [name : Text, content : Text]

Total(numbers) == FoldLeft(+, 0, numbers)

(* The memory of a number of n bytes on a host, and the number in a memory. *)
InMemory(h, number, n) ==
  LET bytes == [i \in 1 .. n |-> (number \div Base ^ (n - i)) % Base]
  IN IF h = "LT_ENDIAN" THEN Reverse(bytes) ELSE bytes
NumberIn(h, memory) ==
  FoldLeft(LAMBDA n, byte : n * Base + byte, 0,
           IF h = "LT_ENDIAN" THEN Reverse(memory) ELSE memory)

(* A little-endian host reverses all it copies, in both directions.        *)
BinarySerialize(h, bytes) == IF h = "LT_ENDIAN" THEN Reverse(bytes) ELSE bytes
BinaryDeserialize(h, bytes) == IF h = "LT_ENDIAN" THEN Reverse(bytes) ELSE bytes
-----------------------------------------------------------------------------
(* Layout *)

SizeField(h, n) == BinarySerialize(h, InMemory(h, n, SizeOfUnit))
NumberField(h, n) == BinarySerialize(h, InMemory(h, n, SizeOfNumber))
(* Mutant: all numbers reversed at once.                                   *)
NumbersAtOnce(h, numbers) ==
  BinarySerialize(h, FlattenSeq([i \in DOMAIN numbers |-> InMemory(h, numbers[i], SizeOfNumber)]))

NumberFields(h, numbers) ==
  FlattenSeq([i \in DOMAIN numbers |-> NumberField(h, numbers[i])])

ScalarLayout(h, n) == SizeField(h, SizeOfNumber) \o NumberField(h, n)

StringLayout(h, text) == SizeField(h, Len(text)) \o BinarySerialize(h, text)

VectorLayout(h, numbers) ==
  SizeField(h, Len(numbers)) \o SizeField(h, SizeOfNumber) \o NumberFields(h, numbers)

VectorsLayout(h, vectors) ==
  SizeField(h, Len(vectors)) \o SizeField(h, SizeOfNumber)
    \o FlattenSeq([i \in DOMAIN vectors |->
                     SizeField(h, Len(vectors[i])) \o NumberFields(h, vectors[i])])

(* The content of a file goes from the disk to the buffer as it is.        *)
FileLayout(h, file) == StringLayout(h, file.name) \o SizeField(h, Len(file.content)) \o file.content

(* The part of an inner vector.  Mutant: its size is not counted.          *)
InnerElementsSize(inner) == SizeOfNumber * Len(inner)
InnerSize(inner) == SizeOfUnit + SizeOfNumber * Len(inner)

(* The size writes and reserves rely on.                                   *)
SerializedSize(v) ==
  CASE v.type = "scalar"  -> SizeOfUnit + SizeOfNumber
    [] v.type = "string"  -> SizeOfUnit + Len(v.val)
    [] v.type = "array"   -> 2 * SizeOfUnit + SizeOfNumber * ArrayLength
    [] v.type = "vector"  -> 2 * SizeOfUnit + SizeOfNumber * Len(v.val)
    [] v.type = "vectors" -> 2 * SizeOfUnit + Total([i \in DOMAIN v.val |-> InnerSize(v.val[i])])
    [] v.type = "strings" -> SizeOfUnit + Total([i \in DOMAIN v.val |-> SizeOfUnit + Len(v.val[i])])
    [] v.type = "object"  -> SizeOfUnit + SizeOfNumber + SizeOfUnit + Len(v.val.text)
    [] v.type = "file"    -> 2 * SizeOfUnit + Len(v.val.name) + Len(v.val.content)

SerializedSizes(vs) == Total([i \in DOMAIN vs |-> SerializedSize(vs[i])])

(***************************************************************************)
(* What writing a value does, one critical section at a time: a reserve,   *)
(* or bytes to append, with the value they complete.  The strings of a     *)
(* vector and the members of a Serializable are sections of their own; the *)
(* write() in Serializable::serialize reserves again.                      *)
(***************************************************************************)
ReserveStep(n) == [op |-> "reserve", size |-> n]
AppendStep(bytes, done) == [op |-> "append", bytes |-> bytes, done |-> done]

Sections(h, v) ==
  CASE v.type = "scalar"  -> <<AppendStep(ScalarLayout(h, v.val), <<v>>)>>
    [] v.type = "string"  -> <<AppendStep(StringLayout(h, v.val), <<v>>)>>
    [] v.type \in {"array", "vector"} -> <<AppendStep(VectorLayout(h, v.val), <<v>>)>>
    [] v.type = "vectors" -> <<AppendStep(VectorsLayout(h, v.val), <<v>>)>>
    [] v.type = "strings" ->
         LET Done(i) == IF i = Len(v.val) THEN <<v>> ELSE <<>>
         IN <<AppendStep(SizeField(h, Len(v.val)), Done(0))>>
              \o [i \in DOMAIN v.val |-> AppendStep(StringLayout(h, v.val[i]), Done(i))]
    [] v.type = "object"  ->
         << ReserveStep(SerializedSize(v)),
            AppendStep(ScalarLayout(h, v.val.number), <<>>),
            AppendStep(StringLayout(h, v.val.text), <<v>>) >>
    [] v.type = "file"    -> <<AppendStep(FileLayout(h, v.val), <<v>>)>>
-----------------------------------------------------------------------------
(* Reads.  b is a buffer, a record of its data and the host that reads it. *)
(* A read starts at an offset and an old value of the variable it fills;   *)
(* it gives a value or throws, and leaves an offset in both cases.         *)

Gives(off, val) == [res |-> "value", off |-> off, val |-> val]
Throws(off) == [res |-> "throws", off |-> off, val |-> <<>>]

(* It copies outside of the variable or goes on after a length that wraps,  *)
(* which only bytes of another type can make it do: nothing is known of    *)
(* what comes of it, and the offset is that of the model.                  *)
Undefined(off) == [res |-> "undefined", off |-> off, val |-> <<>>]

(* The n bytes are there.  For the size of a SizeUnit or of a variable this *)
(* is what the code checks: they are in memory, as the buffer is, so that   *)
(* the sum does not wrap.                                                  *)
There(b, off, n) == off + n <= Len(b.data)

(* Mutant: the last byte is never read.                                    *)
LeftStrictly(b, off, n) == (off + n) % Word < Len(b.data)

(* What the code checks for a size, or a product of sizes, that was read:   *)
(* it may wrap, and the check pass although the bytes are not there.  Then  *)
(* it is more than any container can hold, so that resize throws.          *)
Left(b, off, n) == (off + n) % Word <= Len(b.data)
Bytes(b, off, n) == BinaryDeserialize(b.host, SubSeq(b.data, off + 1, off + n))

(* Reads a size, if it is there, and goes on with it.                      *)
Sized(b, off, Then(_, _)) ==
  IF There(b, off, SizeOfUnit)
  THEN Then(NumberIn(b.host, Bytes(b, off, SizeOfUnit)), off + SizeOfUnit)
  ELSE Throws(off)

(* A number whose first n bytes of memory are read, the others kept.       *)
NumberOver(b, off, n, old) ==
  LET memory == InMemory(b.host, old, SizeOfNumber)
      bytes == Bytes(b, off, n)
  IN NumberIn(b.host, [i \in 1 .. SizeOfNumber |-> IF i <= n THEN bytes[i] ELSE memory[i]])

NumbersOver(b, off, elem, count, old) ==
  [i \in 1 .. count |->
     NumberOver(b, off + (i - 1) * elem, elem, IF i <= Len(old) THEN old[i] ELSE 0)]

(* A size that wraps is larger than the number, and throws for that.       *)
ReadScalar(b, off, old) ==
  Sized(b, off, LAMBDA size, o :
    IF size > SizeOfNumber \/ ~There(b, o, size) THEN Throws(o)
    ELSE Gives(o + size, NumberOver(b, o, size, old)))

ReadString(b, off, old) ==
  Sized(b, off, LAMBDA size, o :
    IF size = 0 THEN Gives(o, old)
    ELSE IF ~Left(b, o, size) \/ ~There(b, o, size) THEN Throws(o)
    ELSE Gives(o + size, Bytes(b, o, size)))

(* The size of the elements is read only if there are elements.  Nothing    *)
(* compares it, or the count, with what the variable has room for.         *)
NumbersRest(b, off, count, old, room) ==
  Sized(b, off, LAMBDA elem, p :
    IF elem = 0 \/ ~Left(b, p, elem * count) THEN Throws(p)
    ELSE IF elem > SizeOfNumber \/ count > room THEN Undefined(p)
    ELSE IF ~There(b, p, elem * count) THEN Throws(p)
    ELSE Gives(p + elem * count, NumbersOver(b, p, elem, count, old)))
ReadNumbers(b, off, old, room) ==
  Sized(b, off, LAMBDA count, o :
    IF count = 0 THEN Gives(o, old) ELSE NumbersRest(b, o, count, old, room))

ReadArray(b, off, old) ==
  LET r == ReadNumbers(b, off, old, ArrayLength)
  IN IF r.res = "value" THEN [r EXCEPT !.val = @ \o SubSeq(old, Len(@) + 1, Len(old))] ELSE r

(* A vector has room for any count.                                        *)
ReadVector(b, off, old) == ReadNumbers(b, off, old, Word)

(* One more vector, after those in r.                                      *)
Subvector(b, r, elem) ==
  IF r.res # "value" THEN r
  ELSE Sized(b, r.off, LAMBDA count, o :
    IF ~Left(b, o, elem * count) THEN Throws(o)
    ELSE IF elem > SizeOfNumber /\ count # 0 THEN Undefined(o)
    ELSE IF ~There(b, o, elem * count) THEN Throws(o)
    ELSE Gives(o + elem * count, Append(r.val, NumbersOver(b, o, elem, count, <<>>))))
Subvectors(b, count, elem, off) ==
  LET upTo[i \in 0 .. count] == IF i = 0 THEN Gives(off, <<>>) ELSE Subvector(b, upTo[i-1], elem)
  IN upTo[count]

VectorsRest(b, off, count) ==
  Sized(b, off, LAMBDA elem, p : IF elem = 0 THEN Throws(p) ELSE Subvectors(b, count, elem, p))
ReadVectors(b, off, old) ==
  Sized(b, off, LAMBDA count, o :
    IF count = 0 THEN Gives(o, old) ELSE VectorsRest(b, o, count))

(* One more string, after those in r, into text.                           *)
Element(b, r, text) ==
  IF r.res # "value" THEN r
  ELSE LET s == ReadString(b, r.off, text) IN [s EXCEPT !.val = Append(r.val, @)]
Elements(b, count, off, old) ==
  LET upTo[i \in 0 .. count] ==
        IF i = 0 THEN Gives(off, <<>>)
        ELSE Element(b, upTo[i-1], IF i <= Len(old) THEN old[i] ELSE <<>>)
  IN upTo[count]

ReadStrings(b, off, old) ==
  Sized(b, off, LAMBDA count, o :
    IF count = 0 THEN Gives(o, old) ELSE Elements(b, count, o, old))

(* The check is made with the size of the variable, not of what is stored. *)
ReadObject(b, off, old) ==
  IF ~There(b, off, SerializedSize([type |-> "object", val |-> old])) THEN Throws(off)
  ELSE LET number == ReadScalar(b, off, old.number)
           text   == ReadString(b, number.off, old.text)
       IN IF number.res # "value" THEN number
          ELSE IF text.res # "value" THEN text
          ELSE Gives(text.off, [number |-> number.val, text |-> text.val])

NoFile == [name |-> <<>>, content |-> <<>>]

(* An empty file is not created.  opens: the path can be written.  The      *)
(* stream takes the length as a signed number, and does not refuse one that *)
(* wraps.                                                                  *)
FileRest(b, off, name, opens) ==
  Sized(b, off, LAMBDA length, p :
    IF length = 0 THEN Gives(p, NoFile)
    ELSE IF ~Left(b, p, length) \/ ~opens THEN Throws(p)
    ELSE IF ~There(b, p, length) THEN Undefined(p)
    ELSE Gives(p + length, [name |-> name, content |-> SubSeq(b.data, p + 1, p + length)]))
ReadFile(b, off, opens) ==
  Sized(b, off, LAMBDA size, o :
    IF size = 0 \/ ~Left(b, o, size) \/ ~There(b, o, size) THEN Throws(o)
    ELSE FileRest(b, o + size, Bytes(b, o, size), opens))

ReadSingle(b, off, type, old, opens) ==
  CASE type = "scalar"  -> ReadScalar(b, off, old)
    [] type = "string"  -> ReadString(b, off, old)
    [] type = "array"   -> ReadArray(b, off, old)
    [] type = "vector"  -> ReadVector(b, off, old)
    [] type = "vectors" -> ReadVectors(b, off, old)
    [] type = "strings" -> ReadStrings(b, off, old)
    [] type = "object"  -> ReadObject(b, off, old)
    [] type = "file"    -> ReadFile(b, off, opens)
=============================================================================
