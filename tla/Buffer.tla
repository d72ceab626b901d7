------------------------------- MODULE Buffer -------------------------------
(***************************************************************************)
(* Buffer (Buffer.h, Buffer.cpp): bytes in a vector, between a reader and  *)
(* a writer index, with room for a header in front.                        *)
(*                                                                         *)
(*     0      <=      M_readerIndex   <=   M_writerIndex    <=     size    *)
(*                                                                         *)
(* A Buffer is a record; the methods are operators on it, and the actions  *)
(* call them with small arguments.  The vector is a sequence: the byte at  *)
(* index i of the code is data[i + 1].                                     *)
(*                                                                         *)
(* An integer is the sequence of its digits, the most significant first,   *)
(* in two's complement, which is also its form in network byte order.      *)
(***************************************************************************)
EXTENDS Integers, SequencesExt

CONSTANTS kCheapPrepend, kInitialSize,
          ExtraBuf,        \* sizeof(extrabuf) in readFd()
          Base,            \* a byte is one of 0 .. Base - 1
          SizeofInt16,     \* in bytes; int32_t and int64_t are 2 and 4 times it
          MaxData,         \* bound: bytes in one call
          MaxSize          \* bound: M_buffer.size()

ASSUME BufferAssumption ==
    /\ kCheapPrepend \in Nat /\ kInitialSize \in Nat
    /\ ExtraBuf \in Nat /\ SizeofInt16 \in Nat \ {0}
    /\ Base \in Nat \ {0} /\ Base % 2 = 0
    /\ MaxData \in Nat /\ MaxSize \in Nat

VARIABLES buffer,
          call      \* history: the last call, its bytes and its integer

bufferVars == <<buffer, call>>

Byte     == 0 .. Base - 1
Data     == BoundedSeq(Byte, MaxData)
Int16    == SizeofInt16
Int32    == 2 * SizeofInt16
Int64    == 4 * SizeofInt16
Zeros(n) == [i \in 1 .. n |-> 0]
NoInt    == <<>>

readableBytes(b)    == b.writer - b.reader
writableBytes(b)    == Len(b.data) - b.writer
prependableBytes(b) == b.reader
Content(b)          == SubSeq(b.data, b.reader + 1, b.writer)

BufferTypeOK ==
    /\ buffer.data \in Seq(Byte)
    /\ buffer.reader \in Nat /\ buffer.writer \in Nat
    /\ buffer.reader <= buffer.writer /\ buffer.writer <= Len(buffer.data)
    /\ call.op \in {"append", "prepend", "retrieve", "unwrite", "rearrange"}
    /\ call.bytes \in Seq(Byte) /\ call.int \in Seq(Byte)

-----------------------------------------------------------------------------
NewBuffer(initialSize) ==
    [data |-> Zeros(kCheapPrepend + initialSize),
     reader |-> kCheapPrepend, writer |-> kCheapPrepend]

(* std::copy() of bytes to the place that begins at index.                 *)
Copy(data, bytes, index) ==
    [i \in 1 .. Len(data) |->
        IF i \in index + 1 .. index + Len(bytes) THEN bytes[i - index] ELSE data[i]]

(* Fault: the bytes are not moved with the indexes.                        *)
MakeSpaceForgets(b, len) ==
    IF writableBytes(b) + prependableBytes(b) < len + kCheapPrepend
    THEN [b EXCEPT !.data = @ \o Zeros(b.writer + len - Len(@))]
    ELSE [b EXCEPT !.reader = kCheapPrepend,
                   !.writer = kCheapPrepend + readableBytes(b)]

(* makeSpace(): resize(), or move the readable bytes to the front.         *)
MakeSpace(b, len) ==
    IF writableBytes(b) + prependableBytes(b) < len + kCheapPrepend
    THEN [b EXCEPT !.data = @ \o Zeros(b.writer + len - Len(@))]
    ELSE [data   |-> Copy(b.data, Content(b), kCheapPrepend),
          reader |-> kCheapPrepend,
          writer |-> kCheapPrepend + readableBytes(b)]

EnsureWritable(b, len) ==
    IF writableBytes(b) < len THEN MakeSpace(b, len) ELSE b

(* The bytes are copied to beginWrite(), then hasWritten().                *)
Write(b, bytes) ==
    [b EXCEPT !.data = Copy(@, bytes, b.writer), !.writer = @ + Len(bytes)]

AppendTo(b, bytes) == Write(EnsureWritable(b, Len(bytes)), bytes)

PrependTo(b, bytes) ==
    LET reader == b.reader - Len(bytes) IN
    [b EXCEPT !.reader = reader, !.data = Copy(@, bytes, reader)]

RetrieveFrom(b, len) ==
    IF len < readableBytes(b)
    THEN [b EXCEPT !.reader = @ + len]
    ELSE [b EXCEPT !.reader = kCheapPrepend, !.writer = kCheapPrepend]

(* readFd(): readv() fills the writable bytes, then extrabuf, whose bytes  *)
(* are appended.                                                           *)
ReceivedIn(b, bytes) ==
    LET writable == writableBytes(b) IN
    IF Len(bytes) <= writable
    THEN Write(b, bytes)
    ELSE AppendTo(Write(b, SubSeq(bytes, 1, writable)),
                  SubSeq(bytes, writable + 1, Len(bytes)))

ReadFdLimit(b) ==
    writableBytes(b) + (IF writableBytes(b) < ExtraBuf THEN ExtraBuf ELSE 0)

(* An integer as an int64_t: the sign fills the digits in front.           *)
Widened(int) ==
    LET fill == IF int # <<>> /\ int[1] >= Base \div 2 THEN Base - 1 ELSE 0 IN
    [i \in 1 .. Int64 - Len(int) |-> fill] \o int

(* peekInt64() returns an int32_t, peekInt32() an int32_t and peekInt16()  *)
(* an int16_t; readInt64(), readInt32() and readInt16() widen it.          *)
PeekInt(b, size) ==
    LET int == SubSeq(Content(b), 1, size) IN
    IF size = Int64 THEN SubSeq(int, Int32 + 1, Int64) ELSE int

(* prependInt16() keeps the two bytes in an int32_t and prepends all of it. *)
Int16InMemory(int) == int \o Zeros(Int32 - Int16)

-----------------------------------------------------------------------------
BufferInit ==
    /\ buffer = NewBuffer(kInitialSize)
    /\ call = [op |-> "rearrange", bytes |-> <<>>, int |-> NoInt]

(* One call of a method: the buffer it leaves is within the bound.         *)
Call(op, bytes, int, b) ==
    /\ Len(b.data) <= MaxSize
    /\ buffer' = b
    /\ call' = [op |-> op, bytes |-> bytes, int |-> int]

Append_(bytes) == Call("append", bytes, NoInt, AppendTo(buffer, bytes))

EnsureWritableBytes(len) == Call("rearrange", <<>>, NoInt, EnsureWritable(buffer, len))

HasWritten(bytes) ==
    /\ Len(bytes) <= writableBytes(buffer)
    /\ Call("append", bytes, NoInt, Write(buffer, bytes))

ReadFd(bytes) ==
    /\ Len(bytes) <= ReadFdLimit(buffer)
    /\ Call("append", bytes, NoInt, ReceivedIn(buffer, bytes))

Prepend(bytes) ==
    /\ Len(bytes) <= prependableBytes(buffer)
    /\ Call("prepend", bytes, NoInt, PrependTo(buffer, bytes))

Retrieve(len) ==
    /\ len <= readableBytes(buffer)
    /\ Call("retrieve", SubSeq(Content(buffer), 1, len), NoInt, RetrieveFrom(buffer, len))

RetrieveAll ==
    Call("retrieve", Content(buffer), NoInt, RetrieveFrom(buffer, readableBytes(buffer)))

Unwrite(len) ==
    /\ len <= readableBytes(buffer)
    /\ Call("unwrite",
            SubSeq(Content(buffer), readableBytes(buffer) - len + 1, readableBytes(buffer)),
            NoInt, [buffer EXCEPT !.writer = @ - len])

Shrink(reserve) ==
    Call("rearrange", <<>>, NoInt,
         AppendTo(EnsureWritable(NewBuffer(kInitialSize), readableBytes(buffer) + reserve),
                  Content(buffer)))

AppendInt(int) == Call("append", int, int, AppendTo(buffer, int))

PrependInt32(int) ==
    /\ Int32 <= prependableBytes(buffer)
    /\ Call("prepend", int, int, PrependTo(buffer, int))

PrependInt16(int) ==
    /\ Int32 <= prependableBytes(buffer)
    /\ Call("prepend", Int16InMemory(int), int, PrependTo(buffer, Int16InMemory(int)))

ReadInt(size) ==
    /\ size <= readableBytes(buffer)
    /\ Call("retrieve", SubSeq(Content(buffer), 1, size),
            Widened(PeekInt(buffer, size)), RetrieveFrom(buffer, size))

Ints(size) == [1 .. size -> Byte]

BufferNext ==
    \/ \E bytes \in Data : Append_(bytes) \/ HasWritten(bytes) \/ ReadFd(bytes) \/ Prepend(bytes)
    \/ \E len \in 0 .. MaxSize : EnsureWritableBytes(len) \/ Retrieve(len) \/ Unwrite(len) \/ Shrink(len)
    \/ RetrieveAll
    \/ \E size \in {Int16, Int32, Int64} :
          \/ \E int \in Ints(size) : AppendInt(int)
          \/ ReadInt(size)
    \/ \E int \in Ints(Int32) : PrependInt32(int)
    \/ \E int \in Ints(Int16) : PrependInt16(int)

BufferSpec == BufferInit /\ [][BufferNext]_bufferVars

-----------------------------------------------------------------------------
Abstract == INSTANCE ByteQueue WITH content <- Content(buffer)

(* Buffer: whatever the sequence of calls, and wherever makeSpace(),       *)
(* shrink() and readFd() move them, the readable bytes are those that were *)
(* appended or prepended and not retrieved, in order.                      *)
ImplementsByteQueue == Abstract!Spec

-----------------------------------------------------------------------------
(* What a comment or an assertion of the code says and the code does not   *)
(* keep (README, section 4.3).                                             *)

(* readInt64() and its like: "Read int64_t from network endian": the value *)
(* returned is the integer that the retrieved bytes spell.                 *)
ReadIntReturnsTheInt ==
    call.op = "retrieve" /\ call.int # NoInt => call.int = Widened(call.bytes)

(* prependInt16() and its like: "Prepend int16_t using network endian":    *)
(* the bytes in front are those of the integer.                            *)
PrependIntPutsTheInt ==
    call.op = "prepend" /\ call.int # NoInt => call.bytes = call.int

=============================================================================
