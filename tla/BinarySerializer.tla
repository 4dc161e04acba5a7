--------------------------- MODULE BinarySerializer ---------------------------
(***************************************************************************)
(* One BinarySerializer with its buffer: threads that write to it, and the  *)
(* code that reads it back, on this host or, once the bytes were moved     *)
(* out and sent, on another.  What the bytes are is in BinaryFormat.       *)
(*                                                                         *)
(* A write takes mtx_ for each of its sections, and so is a sequence of    *)
(* steps.  Reads, and what replaces the buffer, come when no write is in   *)
(* progress.                                                               *)
(***************************************************************************)
EXTENDS BinaryFormat

CONSTANTS
  Thread,         \* the threads that write
  Host,           \* the byte orders there are
  Value,          \* the values that are written
  Capacities,     \* the capacities a serializer is constructed with
  MaxSize         \* bound of the size of the buffer

ASSUME HostAssumption == Host \subseteq Endianess
(* A file that was opened has a name.                                      *)
ASSUME ValueAssumption ==
  \A v \in Value : /\ v.type \in Type
                   /\ v.val \in Val(v.type)
                   /\ v.type = "file" => v.val.name # <<>>
(* A size is a number of a SizeUnit.                                       *)
ASSUME SizeAssumption ==
  /\ ArrayLength \in Nat
  /\ Capacities \subseteq Nat
  /\ MaxSize \in 0 .. Base ^ SizeOfUnit - 1

VARIABLES
  host,           \* endianess_
  data,           \* data_, as far as size_
  capacity,       \* capacity_
  offset,         \* offset_
  todo,           \* for each thread, what remains of the write it is in
  written,        \* history: the values in the buffer, and the host that wrote each
  next,           \* history: the first of them that is not read yet
  lost            \* history: a read threw halfway

vars == <<host, data, capacity, offset, todo, written, next, lost>>

Idle == \A t \in Thread : todo[t] = <<>>
Buffer == [data |-> data, host |-> host]
ValuesOf(entries) == [i \in DOMAIN entries |-> entries[i].value]

(* What fastDeserialization asks when it has read.                         *)
AllReaded == offset = Len(data)

(* What a variable may hold before it is read, first of all its default.   *)
Fresh(type) ==
  CASE type = "scalar" -> 0
    [] type = "array"  -> [i \in 1 .. ArrayLength |-> 0]
    [] type = "object" -> [number |-> 0, text |-> <<>>]
    [] type = "file"   -> NoFile
    [] OTHER           -> <<>>
Targets(type) ==
  {Fresh(type)} \cup IF type = "file" THEN {} ELSE {v.val : v \in {w \in Value : w.type = type}}

Init ==
  /\ host \in Host
  /\ data = <<>>
  /\ capacity \in Capacities
  /\ offset = 0
  /\ todo = [t \in Thread |-> <<>>]
  /\ written = <<>>
  /\ next = 1
  /\ lost = FALSE
-----------------------------------------------------------------------------
(* write(a) or write(a, b), and writeFile(a).                               *)
Write(t, vs) ==
  /\ todo[t] = <<>>
  /\ Len(data) + SerializedSizes(vs) <= MaxSize
  /\ todo' = [todo EXCEPT ![t] =
       <<ReserveStep(SerializedSizes(vs))>> \o FlattenSeq([i \in DOMAIN vs |-> Sections(host, vs[i])])]
  /\ UNCHANGED <<host, data, capacity, offset, written, next, lost>>

(* Mutant: the size of the buffer is forgotten.                            *)
ReserveOnlyNew(t) ==
  LET needed == Head(todo[t]).size
      grow   == [op |-> "grow", size |-> needed]
  IN /\ todo[t] # <<>>
     /\ Head(todo[t]).op = "reserve"
     /\ todo' = [todo EXCEPT ![t] = (IF needed > capacity THEN <<grow>> ELSE <<>>) \o Tail(@)]
     /\ UNCHANGED <<host, data, capacity, offset, written, next, lost>>

(* reserve: what is needed is computed and compared without the mutex.     *)
Reserve(t) ==
  LET needed == Len(data) + Head(todo[t]).size
      grow   == [op |-> "grow", size |-> needed]
  IN /\ todo[t] # <<>>
     /\ Head(todo[t]).op = "reserve"
     /\ todo' = [todo EXCEPT ![t] = (IF needed > capacity THEN <<grow>> ELSE <<>>) \o Tail(@)]
     /\ UNCHANGED <<host, data, capacity, offset, written, next, lost>>

(* reserve: the new buffer, with the mutex.                                *)
Grow(t) ==
  /\ todo[t] # <<>>
  /\ Head(todo[t]).op = "grow"
  /\ capacity' = Head(todo[t]).size
  /\ todo' = [todo EXCEPT ![t] = Tail(@)]
  /\ UNCHANGED <<host, data, offset, written, next, lost>>

(* A section of writeSingle or writeFile.                                  *)
AppendBytes(t) ==
  /\ todo[t] # <<>>
  /\ Head(todo[t]).op = "append"
  /\ data' = data \o Head(todo[t]).bytes
  /\ written' = written \o [i \in DOMAIN Head(todo[t]).done |->
                              [value |-> Head(todo[t]).done[i], host |-> host]]
  /\ todo' = [todo EXCEPT ![t] = Tail(@)]
  /\ UNCHANGED <<host, capacity, offset, next, lost>>

(***************************************************************************)
(* read, or readFile: into a variable of the type that was written, or,    *)
(* past the last value, of any.  Reading stops at an exception, unless it   *)
(* was thrown before anything was read.                                    *)
(***************************************************************************)
Read(type, old, opens) ==
  LET r == ReadSingle(Buffer, offset, type, old, opens)
  IN /\ Idle
     /\ ~lost
     /\ next <= Len(written) => type = written[next].value.type
     /\ offset' = r.off
     /\ next' = IF r.res = "value" /\ next <= Len(written) THEN next + 1 ELSE next
     /\ lost' = (r.res = "undefined" \/ (r.res = "throws" /\ r.off # offset))
     /\ UNCHANGED <<host, data, capacity, todo, written>>

ResetReading ==
  /\ Idle
  /\ offset' = 0
  /\ next' = 1
  /\ lost' = FALSE
  /\ UNCHANGED <<host, data, capacity, todo, written>>

(* Mutants: the offset is not reset.                                       *)
SendInMidst(h) ==
  /\ Idle
  /\ data # <<>>
  /\ host' = h
  /\ capacity' = Len(data)
  /\ next' = 1
  /\ lost' = FALSE
  /\ UNCHANGED <<data, offset, todo, written>>
ClearDataInMidst ==
  /\ Idle
  /\ data' = <<>>
  /\ capacity' = 0
  /\ written' = <<>>
  /\ next' = 1
  /\ lost' = FALSE
  /\ UNCHANGED <<host, offset, todo>>

(* moveUnique or release, the bytes sent, and the constructors that take   *)
(* or copy them (on one host, what fastSerialization and                   *)
(* fastDeserialization do before and after a write and a read).            *)
Send(h) ==
  /\ Idle
  /\ data # <<>>
  /\ host' = h
  /\ capacity' = Len(data)
  /\ offset' = 0
  /\ next' = 1
  /\ lost' = FALSE
  /\ UNCHANGED <<data, todo, written>>

(* clearData, or the serializer after moveUnique and release.              *)
ClearData ==
  /\ Idle
  /\ data' = <<>>
  /\ capacity' = 0
  /\ offset' = 0
  /\ written' = <<>>
  /\ next' = 1
  /\ lost' = FALSE
  /\ UNCHANGED <<host, todo>>

(* The arguments of a write; writeFile takes one file.                     *)
Calls ==
  {<<v>> : v \in Value}
    \cup {<<v, w>> : v, w \in {u \in Value : u.type # "file"}}

Next ==
  \/ \E t \in Thread :
       \/ \E vs \in Calls : Write(t, vs)
       \/ Reserve(t)
       \/ Grow(t)
       \/ AppendBytes(t)
  \/ \E type \in Type, opens \in BOOLEAN : \E old \in Targets(type) : Read(type, old, opens)
  \/ ResetReading
  \/ \E h \in Host : Send(h)
  \/ ClearData

Spec == Init /\ [][Next]_vars
-----------------------------------------------------------------------------
(* Sequences whose size is written with that of their elements.            *)
EmptyVector(v) == v.type \in {"array", "vector", "vectors"} /\ v.val = <<>>

(* Values a read of which leaves something of the variable as it was.      *)
KeepsOld(v) ==
  CASE v.type = "strings" -> v.val = <<>> \/ <<>> \in ToSet(v.val)
    [] v.type = "object"  -> v.val.text = <<>>
    [] v.type \in {"scalar", "file"} -> FALSE
    [] OTHER              -> v.val = <<>>

HasText(v) == v.type \in {"string", "strings", "object", "file"}

(* The next read is of a value that is there, by what was read before.     *)
InStep ==
  /\ Idle
  /\ ~lost
  /\ \A i \in 1 .. next - 1 : ~EmptyVector(written[i].value)
Due == InStep /\ next <= Len(written)

NextRead(old) == ReadSingle(Buffer, offset, written[next].value.type, old, TRUE)

(* Types, and the offset within what is written.                           *)
TypeOK ==
  /\ host \in Host
  /\ data \in Seq(Byte)
  /\ capacity \in Nat
  /\ offset \in 0 .. Len(data)
  /\ \A t \in Thread : \A i \in DOMAIN todo[t] : todo[t][i].op \in {"reserve", "grow", "append"}
  /\ \A i \in DOMAIN written : written[i].value \in Value /\ written[i].host \in Host
  /\ next \in 1 .. Len(written) + 1
  /\ lost \in BOOLEAN

(***************************************************************************)
(* What is written fits in the memory that is reserved, whatever is        *)
(* written, cleared, moved out and received before: the writes themselves   *)
(* check nothing and rely on the size computed for all of them.            *)
(***************************************************************************)
DataFits == Len(data) <= capacity

(***************************************************************************)
(* serializedSize is exact: the sizes announced for what was written, which *)
(* write returns and reserve and Serializable rely on, add up to the size   *)
(* of the buffer.                                                          *)
(***************************************************************************)
SizesAreExact == Idle => Len(data) = SerializedSizes(ValuesOf(written))

(***************************************************************************)
(* A value that is read takes exactly its bytes, although what it replaces *)
(* in the variable may be larger, smaller or empty; so allReaded, which    *)
(* fastDeserialization asks, is true exactly when all values are read.     *)
(* After an empty vector this is false: the size of its elements is left.   *)
(***************************************************************************)
OffsetIsExact ==
  InStep => /\ offset = SerializedSizes(ValuesOf(SubSeq(written, 1, next - 1)))
            /\ AllReaded <=> next = Len(written) + 1

(***************************************************************************)
(* What is read is what was written, into a new variable or one in use,    *)
(* and on a host of the other byte order too.  Left out is what the code   *)
(* does otherwise: an empty text or sequence leaves the old content of the  *)
(* variable, and a text that goes to the other byte order is reversed.     *)
(***************************************************************************)
ReadsBack ==
  Due => LET w == written[next] IN
    \A old \in Targets(w.value.type) :
      /\ old = Fresh(w.value.type) \/ ~KeepsOld(w.value)
      /\ w.host = host \/ ~HasText(w.value)
      /\ NextRead(old).res = "value"
      => \/ NextRead(old).val = w.value.val
         \/ w.value.type = "file" /\ w.value.val.content = <<>>

(***************************************************************************)
(* A read throws exactly when there is nothing left to read, and then      *)
(* leaves the offset; or when a Serializable is read into a variable that   *)
(* holds more than what comes.                                             *)
(***************************************************************************)
ThrowsPastTheEnd ==
  /\ Due => \A old \in Targets(written[next].value.type) :
       NextRead(old).res = "value"
         <=> \/ written[next].value.type # "object"
             \/ Len(data) - offset >= SerializedSize([type |-> "object", val |-> old])
  /\ InStep /\ next > Len(written) => \A type \in Type : \A old \in Targets(type) :
       ReadSingle(Buffer, offset, type, old, TRUE) = Throws(offset)
=============================================================================
