------------------------------ MODULE ByteFile ------------------------------
(***************************************************************************)
(* What the deblocker promises to the packages above it: the device is a   *)
(* row of bytes with a position, read and written any number of bytes at a *)
(* time.  What has been written is seen at once; it reaches the device     *)
(* sooner or later, and at the latest when the file is closed, unless the  *)
(* device fails.                                                           *)
(*                                                                         *)
(* Deblock (bin/of/deblock.c) is shown to implement this specification.    *)
(***************************************************************************)
EXTENDS Integers, Sequences

CONSTANTS Bytes,        \* number of bytes of the device
          SeekTo,       \* positions that callers seek to
          Lens,         \* lengths that callers read and write
          Fill          \* the byte that is written

VARIABLES faulty,       \* the device may fail; never changes
          content,      \* the bytes a reader would get
          durable,      \* the bytes on the device
          pos,          \* where the next byte is read or written
          call,         \* the read or write under way
          res           \* the result of the last operation

vars == <<faulty, content, durable, pos, call, res>>

At == 0 .. Bytes - 1
NotPushed == -2         \* the operation left no number on the stack
Idle == [op |-> "none", left |-> 0, total |-> 0, data |-> <<>>]

Result(op, ret, actual, data) ==
    res' = [op |-> op, ret |-> ret, actual |-> actual, data |-> data]

\* Bytes written before this step may reach the device in it.
Settles == \A i \in At : durable'[i] \in {durable[i], content[i]}

Init == /\ faulty \in BOOLEAN
        /\ content = [i \in At |-> i]
        /\ durable = content
        /\ pos = 0
        /\ call = Idle
        /\ res = [op |-> "none", ret |-> "NO_ERROR", actual |-> 0, data |-> <<>>]

Open == /\ call = Idle
        /\ pos' = 0
        /\ Result("open", "NO_ERROR", 0, <<>>)
        /\ UNCHANGED <<content, durable, call>>

\* Closing writes everything out; what a failing device did not take is lost.
Close == /\ call = Idle
         /\ \/ durable' = content /\ UNCHANGED content
            \/ faulty /\ UNCHANGED durable /\ content' = durable
         /\ Result("close", "NO_ERROR", 0, <<>>)
         /\ UNCHANGED <<pos, call>>

\* Here "actual" is the status.
Seek(p) == /\ call = Idle
           /\ pos' = p
           /\ Settles
           /\ \E ret \in {"NO_ERROR", "E_WRITE_ERROR", "E_DEVICE"}, status \in {NotPushed, 0} :
                 /\ ret # "NO_ERROR" => faulty
                 /\ Result("seek", ret, status, <<>>)
           /\ UNCHANGED <<content, call>>

SeekTooFar == /\ call = Idle
              /\ Result("seek", "NO_ERROR", -1, <<>>)
              /\ UNCHANGED <<content, durable, pos, call>>

Start(op, len) == /\ call = Idle
                  /\ call' = [op |-> op, left |-> len, total |-> 0, data |-> <<>>]
                  /\ UNCHANGED <<content, durable, pos, res>>

Slice(n) == [i \in 1 .. n |-> content[pos + i - 1]]

\* The next n bytes of the call, read from or written to where pos is.
Move(n) ==
    LET got == IF call.op = "read" THEN call.data \o Slice(n) ELSE <<>> IN
    /\ call # Idle
    /\ pos + n <= Bytes
    /\ pos' = pos + n
    /\ content' = [i \in At |-> IF call.op = "write" /\ pos <= i /\ i < pos + n
                                THEN Fill ELSE content[i]]
    /\ Settles
    /\ \/ /\ n < call.left \/ n = 0
          /\ call' = [call EXCEPT !.left = @ - n, !.total = @ + n, !.data = got]
          /\ UNCHANGED res
       \/ /\ n = call.left
          /\ call' = Idle
          /\ Result(call.op, "NO_ERROR", call.total + n, got)

\* The call ends early: at the end of the device, or by a fault.
Stop == /\ call # Idle
        /\ call' = Idle
        /\ Settles
        /\ \/ pos >= Bytes /\ Result(call.op, "NO_ERROR", call.total, call.data)
           \/ faulty /\ \E ret \in {"E_WRITE_ERROR", "E_DEVICE"},
                           actual \in {NotPushed, call.total} :
                           Result(call.op, ret, actual, call.data)
           \/ faulty /\ Result(call.op, "NO_ERROR", call.total, call.data)
        /\ UNCHANGED <<content, pos>>

Next == /\ \/ Open \/ Close \/ SeekTooFar \/ Stop
           \/ \E p \in SeekTo : Seek(p)
           \/ \E op \in {"read", "write"}, len \in Lens : Start(op, len)
           \/ \E n \in 0 .. call.left : Move(n)
        /\ UNCHANGED faulty

Spec == Init /\ [][Next]_vars
=============================================================================
