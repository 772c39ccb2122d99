---------------------------- MODULE StorageProofs ----------------------------
(***************************************************************************)
(* What is proved of the two components that keep what they are given on a *)
(* device.  Of the deblocker, for any sizes of block, buffer and device    *)
(* and any callers: until the buffer is taken for what it is not, what is  *)
(* buffered is what the device holds, and a caller cannot tell the         *)
(* instance from a file of bytes.  Of the configuration variables, for any *)
(* variables and any records: what a restart gives them.                   *)
(***************************************************************************)
EXTENDS Deblock, Nvram, SequenceTheorems, FiniteSetTheorems, TLAPS

-----------------------------------------------------------------------------
(* Sizes.  The products are taken apart here, and nowhere else.             *)

LEMMA Sizes ==
    /\ BlockSize \in Nat \ {0} /\ XferBlocks \in Nat \ {0} /\ DevBlocks \in Nat \ {0}
    /\ BufBytes \in Nat /\ BufBytes >= BlockSize
    /\ DevBytes \in Nat
<1>1. BlockSize \in Nat \ {0} /\ XferBlocks \in Nat \ {0} /\ DevBlocks \in Nat \ {0}
    BY DeblockAssumption
<1>2. \A x, y \in Nat \ {0} : x * y \in Nat /\ x * y >= y
    OBVIOUS
<1> QED
    BY <1>1, <1>2 DEF BufBytes, DevBytes

\* Bytes of a buffer that begins with block cur.
LEMMA Products ==
    ASSUME NEW cur \in Nat, NEW b \in Nat
    PROVE  /\ cur * BlockSize \in Nat /\ b * BlockSize \in Nat
           /\ (cur + XferBlocks) * BlockSize = cur * BlockSize + BufBytes
           /\ (b - cur) * BlockSize = b * BlockSize - cur * BlockSize
           /\ (XferBlocks - (b - cur)) * BlockSize
                  = cur * BlockSize + BufBytes - b * BlockSize
           /\ cur <= b => cur * BlockSize <= b * BlockSize
           /\ b < cur + XferBlocks => b * BlockSize + BlockSize <= cur * BlockSize + BufBytes
           /\ cur + XferBlocks <= DevBlocks => cur * BlockSize + BufBytes <= DevBytes
           /\ b >= DevBlocks => b * BlockSize >= DevBytes
<1>1. BlockSize \in Nat \ {0} /\ XferBlocks \in Nat \ {0} /\ DevBlocks \in Nat \ {0}
    BY Sizes
<1>2. \A x, y, z \in Int : (x + y) * z = x * z + y * z /\ (x - y) * z = x * z - y * z
    OBVIOUS
<1>3. \A x, y, z \in Nat : x * z \in Nat /\ (x <= y => x * z <= y * z)
                           /\ (x < y => x * z + z <= y * z)
  <2>1. \A x, y, z \in Nat : x * z \in Nat
    OBVIOUS
  <2>2. ASSUME NEW x \in Nat, NEW y \in Nat, NEW z \in Nat, x <= y
        PROVE  x * z <= y * z
    <3>1. (y - x) \in Nat /\ y = x + (y - x)
        BY <2>2
    <3>2. (y - x) * z \in Nat /\ y * z = x * z + (y - x) * z
        BY <1>2, <2>1, <3>1
    <3> QED
        BY <2>1, <3>2
  <2>3. ASSUME NEW x \in Nat, NEW y \in Nat, NEW z \in Nat, x < y
        PROVE  x * z + z <= y * z
    <3>1. (x + 1) * z = x * z + z
        BY <1>2
    <3>2. (x + 1) * z <= y * z
        BY <2>2, <2>3
    <3> QED
        BY <3>1, <3>2
  <2> QED
    BY <2>1, <2>2, <2>3
<1>4. BufBytes = XferBlocks * BlockSize /\ DevBytes = DevBlocks * BlockSize
    BY DEF BufBytes, DevBytes
<1>5. (cur + XferBlocks) * BlockSize = cur * BlockSize + BufBytes
    BY <1>1, <1>2, <1>4
<1>6. (b - cur) * BlockSize = b * BlockSize - cur * BlockSize
    BY <1>1, <1>2
<1>7. (XferBlocks - (b - cur)) * BlockSize = cur * BlockSize + BufBytes - b * BlockSize
  <2>1. (XferBlocks - (b - cur)) * BlockSize = XferBlocks * BlockSize - (b - cur) * BlockSize
    BY <1>1, <1>2
  <2> QED
    BY <1>1, <1>3, <1>4, <1>6, <2>1
<1>8. cur * BlockSize \in Nat /\ b * BlockSize \in Nat
    BY <1>1, <1>3
<1>9. cur <= b => cur * BlockSize <= b * BlockSize
    BY <1>1, <1>3
<1>10. b < cur + XferBlocks => b * BlockSize + BlockSize <= cur * BlockSize + BufBytes
    BY <1>1, <1>3, <1>5
<1>11. cur + XferBlocks <= DevBlocks => cur * BlockSize + BufBytes <= DevBytes
  <2>1. cur + XferBlocks \in Nat
    BY <1>1
  <2> QED
    BY <1>1, <1>3, <1>4, <1>5, <2>1
<1>12. b >= DevBlocks => b * BlockSize >= DevBytes
    BY <1>1, <1>3, <1>4
<1> QED
    BY <1>5, <1>6, <1>7, <1>8, <1>9, <1>10, <1>11, <1>12

LEMMA Division ==
    ASSUME NEW m \in Nat \ {0}, NEW w \in Nat
    PROVE  /\ w \div m \in Nat /\ w % m \in Nat /\ w % m < m
           /\ w = (w \div m) * m + (w % m)
<1> DEFINE q == w \div m
           r == w % m
<1>1. w = m * q + r /\ q \in Nat /\ r \in 0 .. m - 1
    OBVIOUS
<1> HIDE DEF q, r
<1>2. m * q = q * m
    BY <1>1
<1>3. q \in Nat /\ r \in Nat /\ r < m /\ w = q * m + r
    BY <1>1, <1>2
<1> QED
    BY <1>3 DEF q, r

\* A position and its block and offset.
LEMMA Positions ==
    ASSUME NEW p \in Nat
    PROVE  /\ p \div BlockSize \in Nat /\ p % BlockSize \in Nat /\ p % BlockSize < BlockSize
           /\ (p \div BlockSize) * BlockSize + (p % BlockSize) = p
<1> DEFINE d == p \div BlockSize
           r == p % BlockSize
<1>1. BlockSize \in Nat \ {0}
    BY Sizes
<1>2. d \in Nat /\ r \in Nat /\ r < BlockSize /\ p = d * BlockSize + r
    BY <1>1, Division
<1> QED
    BY <1>2 DEF d, r

-----------------------------------------------------------------------------
(* The inductive invariant.                                                  *)

At == 0 .. DevBytes - 1
InBuf == 0 .. BufBytes - 1
BufAt == currblock * BlockSize          \* where the buffer begins

Busy == /\ DOMAIN call = {"op", "left", "total", "data"}
        /\ call.op \in {"read", "write"}
        /\ call.left \in Nat \ {0} /\ call.total \in Nat

\* The offset may be past the block, but then not past the buffer.
Placed ==
    /\ offset < BlockSize \/ (InMemory /\ Pos <= BufAt + BufBytes)
    /\ currblock # NoBlock => currblock + XferBlocks <= DevBlocks
    /\ modified => self /\ currblock # NoBlock
    /\ call # Idle => self /\ Busy

Coherent == self /\ ~modified /\ currblock # NoBlock =>
                \A k \in InBuf : buf[k] = dev[BufAt + k]

DInv == TypeOK /\ Placed /\ Coherent

-----------------------------------------------------------------------------
(* What a reader gets.                                                       *)

LEMMA Types ==
    ASSUME DInv
    PROVE  /\ use \in Uses /\ dev \in [At -> Byte] /\ buf \in [InBuf -> Byte]
           /\ self \in BOOLEAN /\ modified \in BOOLEAN
           /\ blocknum \in Nat /\ offset \in 0 .. BufBytes
           /\ currblock \in Nat \union {NoBlock} /\ NoBlock \notin Nat
           /\ Pos \in Nat /\ blocknum * BlockSize \in Nat
           /\ Pos = blocknum * BlockSize + offset
           /\ currblock # NoBlock => BufAt \in Nat /\ BufAt + BufBytes <= DevBytes
<1>1. /\ use \in Uses /\ dev \in [At -> Byte] /\ buf \in [InBuf -> Byte]
      /\ self \in BOOLEAN /\ modified \in BOOLEAN
      /\ blocknum \in Nat /\ offset \in 0 .. BufBytes
      /\ currblock \in Nat \union {NoBlock} /\ NoBlock \notin Nat
    BY DEF DInv, TypeOK, At, InBuf, NoBlock
<1>2. blocknum * BlockSize \in Nat
    BY <1>1, Products
<1>3. offset \in Nat
    BY <1>1, Sizes
<1>4. Pos \in Nat /\ Pos = blocknum * BlockSize + offset
    BY <1>2, <1>3 DEF Pos
<1>5. currblock # NoBlock => BufAt \in Nat /\ BufAt + BufBytes <= DevBytes
    BY <1>1, Products DEF DInv, Placed, BufAt
<1> QED
    BY <1>1, <1>2, <1>4, <1>5

LEMMA ContentFacts ==
    ASSUME DInv
    PROVE  /\ Content \in [At -> Byte]
           /\ ~modified => Content = dev
           /\ self /\ currblock # NoBlock =>
                 \A k \in InBuf : BufAt + k \in At /\ Content[BufAt + k] = buf[k]
           /\ currblock # NoBlock =>
                 \A j \in At : ~(BufAt <= j /\ j < BufAt + BufBytes) => Content[j] = dev[j]
<1>1. /\ dev \in [At -> Byte] /\ buf \in [InBuf -> Byte]
      /\ currblock # NoBlock => BufAt \in Nat /\ BufAt + BufBytes <= DevBytes
    BY Types
<1>2. BufBytes \in Nat /\ DevBytes \in Nat
    BY Sizes
<1>3. Content = [j \in At |-> IF modified /\ currblock # NoBlock /\ j - BufAt \in InBuf
                              THEN buf[j - BufAt] ELSE dev[j]]
    BY <1>1 DEF Content, BufAt
<1>4. Content \in [At -> Byte]
    BY <1>1, <1>3
<1>5. ASSUME ~modified
      PROVE  Content = dev
  <2>1. Content = [j \in At |-> dev[j]]
    BY <1>3, <1>5
  <2> QED
    BY <1>1, <2>1
<1>6. ASSUME self, currblock # NoBlock, NEW k \in InBuf
      PROVE  BufAt + k \in At /\ Content[BufAt + k] = buf[k]
  <2>1. BufAt + k \in At /\ (BufAt + k) - BufAt = k
    BY <1>1, <1>2, <1>6 DEF At, InBuf
  <2>2. CASE modified
    BY <1>3, <1>6, <2>1, <2>2
  <2>3. CASE ~modified
    BY <1>3, <1>6, <2>1, <2>3 DEF DInv, Coherent
  <2> QED
    BY <2>1, <2>2, <2>3
<1>7. ASSUME currblock # NoBlock, NEW j \in At, ~(BufAt <= j /\ j < BufAt + BufBytes)
      PROVE  Content[j] = dev[j]
  <2>1. j - BufAt \notin InBuf
    BY <1>1, <1>2, <1>7 DEF At, InBuf
  <2> QED
    BY <1>3, <2>1
<1> QED
    BY <1>4, <1>5, <1>6, <1>7

\* A flush writes the whole buffer, or fails and leaves everything as it is.
LEMMA FlushFacts ==
    ASSUME DInv, NEW fl \in flushbuf
    PROVE  \/ fl = [dev |-> Content, modified |-> FALSE, ret |-> "NO_ERROR"]
           \/ /\ use.faulty /\ modified
              /\ fl = [dev |-> dev, modified |-> TRUE, ret |-> "E_DEVICE"]
<1>1. CASE ~modified
    BY <1>1, ContentFacts DEF flushbuf
<1>2. CASE modified
  <2>1. currblock \in Nat /\ currblock # NoBlock /\ currblock + XferBlocks <= DevBlocks
    BY <1>2, Types DEF DInv, Placed
  <2>2. Available(currblock) = XferBlocks
    BY <2>1, Sizes DEF Available
  <2>3. WriteBlocks(XferBlocks) = Content
    <3>1. dev \in [At -> Byte] /\ buf \in [InBuf -> Byte] /\ BufAt \in Nat
        BY <2>1, Types
    <3>2. WriteBlocks(XferBlocks) =
              [j \in At |-> IF 0 <= j - BufAt /\ j - BufAt < BufBytes
                            THEN buf[j - BufAt] ELSE dev[j]]
        BY <3>1 DEF WriteBlocks, BufAt, BufBytes
    <3>3. Content = [j \in At |-> IF j - BufAt \in InBuf THEN buf[j - BufAt] ELSE dev[j]]
        BY <1>2, <2>1, <3>1 DEF Content, BufAt
    <3>4. \A j \in At : (0 <= j - BufAt /\ j - BufAt < BufBytes) <=> j - BufAt \in InBuf
        BY <3>1, Sizes DEF At, InBuf
    <3> QED
        BY <3>2, <3>3, <3>4
  <2>4. \/ fl = [dev |-> WriteBlocks(XferBlocks), modified |-> FALSE, ret |-> "NO_ERROR"]
        \/ use.faulty /\ fl = [dev |-> dev, modified |-> TRUE, ret |-> "E_DEVICE"]
    <3>1. (XferBlocks # XferBlocks) = FALSE
        OBVIOUS
    <3> QED
        BY <1>2, <2>2, <3>1, Zenon DEF flushbuf
  <2> QED
    BY <1>2, <2>3, <2>4
<1> QED
    BY <1>1, <1>2

-----------------------------------------------------------------------------
(* The copy between the caller and the buffer.                               *)

\* The buffer b that begins with block cur holds what a reader would get, and
\* is to be written if unsaved; the copy starts inside of it.
Filled(cur, b, unsaved) ==
    /\ cur \in Nat /\ b \in [InBuf -> Byte] /\ unsaved \in BOOLEAN
    /\ cur <= blocknum /\ blocknum < cur + XferBlocks
    /\ cur + XferBlocks <= DevBlocks
    /\ Pos <= cur * BlockSize + BufBytes
    /\ \A k \in InBuf : b[k] = Content[cur * BlockSize + k]

\* What a copy of n bytes does to the numbers.
Advances(n) ==
    /\ n \in 0 .. call.left /\ Pos + n <= DevBytes
    /\ Pos' \in Nat /\ Pos' = Pos + n
    /\ offset' \in 0 .. BufBytes /\ blocknum' \in Nat
    /\ \/ n < call.left /\ offset' = 0
       \/ n = call.left /\ call' = Idle /\ blocknum' = blocknum

LEMMA TransferNumbers ==
    ASSUME DInv, call # Idle,
           NEW cur, NEW b, NEW unsaved, Filled(cur, b, unsaved),
           Transfer(XferBlocks - (blocknum - cur), cur, b, unsaved)
    PROVE  \E n \in Nat :
              /\ Advances(n)
              /\ Pos >= cur * BlockSize /\ Pos + n <= cur * BlockSize + BufBytes
              /\ n < call.left => blocknum' = cur + XferBlocks
              /\ buf' = IF call.op = "write"
                        THEN Overwritten(b, Pos - cur * BlockSize, n) ELSE b
              /\ LET got == IF call.op = "read"
                            THEN call.data \o Copied(b, Pos - cur * BlockSize, n) ELSE <<>>
                 IN  \/ /\ n < call.left
                        /\ call' = [call EXCEPT !.left = @ - n, !.total = @ + n, !.data = got]
                        /\ UNCHANGED res
                     \/ /\ n = call.left
                        /\ Result(call.op, "NO_ERROR", call.total + n, got)
<1> DEFINE C == cur * BlockSize
           A == (XferBlocks - (blocknum - cur)) * BlockSize
           l == A - offset
           n == IF call.left > l THEN l ELSE call.left
<1>1. cur \in Nat /\ blocknum \in Nat /\ call.left \in Nat \ {0}
    BY Types DEF Filled, DInv, Placed, Busy
<1>2. /\ C \in Nat /\ blocknum * BlockSize \in Nat
      /\ (blocknum - cur) * BlockSize = blocknum * BlockSize - C
      /\ A = C + BufBytes - blocknum * BlockSize
      /\ C <= blocknum * BlockSize
      /\ C + BufBytes <= DevBytes
      /\ (cur + XferBlocks) * BlockSize = C + BufBytes
    BY <1>1, Products DEF Filled
<1>3. /\ Pos \in Nat /\ Pos = blocknum * BlockSize + offset /\ offset \in Nat
      /\ BufBytes \in Nat /\ DevBytes \in Nat /\ BlockSize \in Nat /\ XferBlocks \in Nat
    BY Types, Sizes
<1>4. (blocknum - cur) * BlockSize + offset = Pos - C
    BY <1>2, <1>3
<1>5. Pos <= C + BufBytes
    BY DEF Filled
<1> HIDE DEF C, A
<1>6. l = C + BufBytes - Pos /\ l \in Nat /\ Pos >= C /\ A <= BufBytes
    BY <1>2, <1>3, <1>5
<1>7. /\ n \in 0 .. call.left /\ n \in Nat /\ n <= l
      /\ Pos + n <= C + BufBytes /\ Pos + n <= DevBytes
    BY <1>1, <1>2, <1>3, <1>6
<1> DEFINE K == (blocknum - cur) * BlockSize + offset
           got == IF call.op = "read" THEN call.data \o Copied(b, K, n) ELSE <<>>
<1>8. /\ buf' = IF call.op = "write" THEN Overwritten(b, K, n) ELSE b
      /\ \/ /\ call.left > l
            /\ offset' = 0 /\ blocknum' = cur + XferBlocks
            /\ call' = [call EXCEPT !.left = @ - l, !.total = @ + l, !.data = got]
            /\ UNCHANGED res
         \/ /\ call.left <= l /\ call.left > 0
            /\ offset' = offset + call.left
            /\ call' = Idle
            /\ Result(call.op, "NO_ERROR", call.total + call.left, got)
            /\ UNCHANGED blocknum
         \/ call.left = 0
    BY DEF Transfer, A
<1>9. \/ /\ call.left > l /\ n = l
         /\ offset' = 0 /\ blocknum' = cur + XferBlocks
         /\ call' = [call EXCEPT !.left = @ - l, !.total = @ + l, !.data = got]
         /\ UNCHANGED res
      \/ /\ call.left <= l /\ call.left > 0 /\ n = call.left
         /\ offset' = offset + call.left /\ blocknum' = blocknum
         /\ call' = Idle
         /\ Result(call.op, "NO_ERROR", call.total + call.left, got)
  <2> HIDE DEF got
  <2>1. call.left # 0
    BY <1>1
  <2>2. call.left > l => n = l
    OBVIOUS
  <2>3. call.left <= l => n = call.left
    BY <1>1, <1>6
  <2> HIDE DEF l, n
  <2> QED
    BY <1>8, <2>1, <2>2, <2>3
<1> HIDE DEF l, n, got
<1>10. /\ Advances(n)
       /\ n < call.left => blocknum' = cur + XferBlocks
       /\ \/ /\ n < call.left
             /\ call' = [call EXCEPT !.left = @ - n, !.total = @ + n, !.data = got]
             /\ UNCHANGED res
          \/ n = call.left /\ Result(call.op, "NO_ERROR", call.total + n, got)
  <2>1. CASE /\ call.left > l /\ n = l
             /\ offset' = 0 /\ blocknum' = cur + XferBlocks
             /\ call' = [call EXCEPT !.left = @ - l, !.total = @ + l, !.data = got]
             /\ UNCHANGED res
    <3>1. Pos' = C + BufBytes
        BY <1>2, <1>3, <2>1 DEF Pos
    <3> QED
        BY <1>1, <1>2, <1>3, <1>6, <1>7, <2>1, <3>1 DEF Advances
  <2>2. CASE /\ call.left <= l /\ call.left > 0 /\ n = call.left
             /\ offset' = offset + call.left /\ blocknum' = blocknum
             /\ call' = Idle
             /\ Result(call.op, "NO_ERROR", call.total + call.left, got)
    <3>1. Pos' = Pos + call.left
        BY <1>1, <1>2, <1>3, <2>2 DEF Pos
    <3>2. offset + call.left <= A
        BY <1>1, <1>2, <1>3, <1>6, <2>2
    <3>3. offset' \in 0 .. BufBytes
        BY <1>1, <1>2, <1>3, <1>6, <2>2, <3>2
    <3> QED
        BY <1>1, <1>2, <1>3, <1>6, <1>7, <2>2, <3>1, <3>3 DEF Advances
  <2> QED
    BY <1>9, <2>1, <2>2
<1> QED
  <2>1. K = Pos - C
    BY <1>4
  <2> HIDE DEF K
  <2> QED
    BY <1>6, <1>7, <1>8, <1>10, <2>1 DEF C, got

\* The device as it is after the flush before the copy, if there was one.
Flushed(cur, unsaved) == /\ unsaved => cur = currblock /\ modified /\ dev' = dev
                         /\ ~unsaved => dev' = Content

LEMMA TransferBytes ==
    ASSUME DInv, call # Idle,
           NEW cur, NEW b, NEW unsaved, Filled(cur, b, unsaved), Flushed(cur, unsaved),
           NEW n \in Nat,
           Pos >= cur * BlockSize, Pos + n <= cur * BlockSize + BufBytes,
           currblock' = cur,
           modified' = (unsaved \/ (call.op = "write" /\ call.left > 0)),
           buf' = IF call.op = "write" THEN Overwritten(b, Pos - cur * BlockSize, n) ELSE b
    PROVE  /\ dev' \in [At -> Byte] /\ buf' \in [InBuf -> Byte] /\ modified' \in BOOLEAN
           /\ Content' = [i \in At |-> IF call.op = "write" /\ Pos <= i /\ i < Pos + n
                                       THEN Fill ELSE Content[i]]
           /\ Abstract!Settles
           /\ Coherent'
           /\ Copied(b, Pos - cur * BlockSize, n) = Abstract!Slice(n)
<1> DEFINE C == cur * BlockSize
<1>1. /\ cur \in Nat /\ cur # NoBlock /\ b \in [InBuf -> Byte] /\ unsaved \in BOOLEAN
      /\ call.op \in {"read", "write"} /\ call.left > 0
    BY Types DEF Filled, DInv, Placed, Busy
<1>2. C \in Nat /\ C + BufBytes <= DevBytes
    BY <1>1, Products DEF Filled
<1>3. /\ Pos \in Nat /\ BufBytes \in Nat /\ DevBytes \in Nat
      /\ dev \in [At -> Byte] /\ Content \in [At -> Byte]
    BY Types, Sizes, ContentFacts
<1>4. \A k \in InBuf : b[k] = Content[C + k]
    BY DEF Filled
<1>5. Fill \in Byte /\ Junk \in Byte
    BY <1>3 DEF Byte, Fill, Junk
<1>6. dev' \in [At -> Byte]
    BY <1>1, <1>3 DEF Flushed
<1>7. Pos >= C /\ Pos + n <= C + BufBytes
    OBVIOUS
<1>8. call.op = "write" =>
          buf' = [i \in InBuf |-> IF Pos - C <= i /\ i < Pos - C + n THEN Fill ELSE b[i]]
    BY <1>1 DEF Overwritten
<1>9. call.op = "read" => buf' = b
    BY <1>1
<1>10. buf' \in [InBuf -> Byte]
    BY <1>1, <1>5, <1>8, <1>9
<1>11. /\ call.op = "write" => modified' = TRUE
       /\ call.op = "read" => modified' = unsaved
    BY <1>1, Zenon
<1>12. modified' \in BOOLEAN
    BY <1>1, <1>11
<1>13. Content' = [i \in At |-> IF modified' /\ i - C \in InBuf THEN buf'[i - C] ELSE dev'[i]]
    BY <1>1, <1>6, <1>10 DEF Content
<1> HIDE DEF C
<1>14. \A i \in At : i - C \in InBuf => C + (i - C) = i
    BY <1>2 DEF At
<1>15. \A i \in At : i - C \notin InBuf => ~(Pos <= i /\ i < Pos + n)
    BY <1>2, <1>3, <1>7 DEF At, InBuf
<1>16. ASSUME unsaved, NEW i \in At, i - C \notin InBuf
       PROVE  dev'[i] = Content[i]
  <2>1. cur = currblock /\ modified /\ dev' = dev
    BY <1>16 DEF Flushed
  <2>2. ~(C <= i /\ i < C + BufBytes)
    BY <1>2, <1>3, <1>16 DEF At, InBuf
  <2>3. C = BufAt
    BY <2>1 DEF C, BufAt
  <2> QED
    BY <1>1, <2>1, <2>2, <2>3, ContentFacts
<1>17. ~unsaved => dev' = Content
    BY DEF Flushed
<1>18. \A i \in At : i - C \notin InBuf => dev'[i] = Content[i]
    BY <1>1, <1>16, <1>17
<1>19. \A i \in At : i - C \in InBuf => b[i - C] = Content[i]
    BY <1>4, <1>14
<1>20. Content' = [i \in At |-> IF call.op = "write" /\ Pos <= i /\ i < Pos + n
                                THEN Fill ELSE Content[i]]
  <2>1. CASE call.op = "write"
    <3>1. \A i \in At : i - C \in InBuf =>
              buf'[i - C] = IF Pos <= i /\ i < Pos + n THEN Fill ELSE Content[i]
      <4> SUFFICES ASSUME NEW i \in At, i - C \in InBuf
                   PROVE  buf'[i - C] = IF Pos <= i /\ i < Pos + n THEN Fill ELSE Content[i]
          OBVIOUS
      <4>1. buf'[i - C] = IF Pos - C <= i - C /\ i - C < Pos - C + n THEN Fill ELSE b[i - C]
          BY <1>8, <2>1
      <4>2. (Pos - C <= i - C /\ i - C < Pos - C + n) <=> (Pos <= i /\ i < Pos + n)
          BY <1>2, <1>3 DEF At
      <4> QED
          BY <1>19, <4>1, <4>2
    <3>2. modified' = TRUE
        BY <1>11, <2>1
    <3> QED
        BY <1>13, <1>15, <1>18, <2>1, <3>1, <3>2
  <2>2. CASE call.op = "read"
    <3>1. \A i \in At : modified' /\ i - C \in InBuf => buf'[i - C] = Content[i]
        BY <1>9, <1>19, <2>2
    <3>2. \A i \in At : ~modified' => dev'[i] = Content[i]
        BY <1>11, <1>17, <2>2
    <3>3. Content' = [i \in At |-> Content[i]]
        BY <1>13, <1>18, <3>1, <3>2
    <3> QED
        BY <2>2, <3>3
  <2> QED
    BY <1>1, <2>1, <2>2
<1>21. Abstract!Settles
  <2>1. \A i \in At : dev'[i] \in {dev[i], Content[i]}
    BY <1>1, <1>17 DEF Flushed
  <2> QED
    BY <2>1 DEF Abstract!Settles, Abstract!At, At
<1>22. Coherent'
  <2>1. ASSUME ~modified', NEW k \in InBuf
        PROVE  buf'[k] = dev'[C + k]
    <3>1. call.op = "read" /\ ~unsaved
        BY <1>1, <1>11, <2>1
    <3> QED
        BY <1>4, <1>9, <1>17, <3>1
  <2> QED
    BY <2>1 DEF Coherent, BufAt, C, InBuf
<1>23. Copied(b, Pos - C, n) = Abstract!Slice(n)
  <2>1. \A i \in 1 .. n : /\ Pos - C + i - 1 \in InBuf
                          /\ C + (Pos - C + i - 1) = Pos + i - 1
    BY <1>2, <1>3, <1>7 DEF InBuf
  <2>2. \A i \in 1 .. n : b[Pos - C + i - 1] = Content[Pos + i - 1]
    BY <1>4, <2>1
  <2>3. Copied(b, Pos - C, n) = [i \in 1 .. n |-> b[Pos - C + i - 1]]
    BY <1>1, <2>1 DEF Copied
  <2> QED
    BY <2>2, <2>3 DEF Abstract!Slice
<1> QED
    BY <1>6, <1>10, <1>12, <1>20, <1>21, <1>22, <1>23 DEF C

LEMMA TransferStep ==
    ASSUME DInv, call # Idle,
           NEW cur, NEW b, NEW unsaved, Filled(cur, b, unsaved), Flushed(cur, unsaved),
           Transfer(XferBlocks - (blocknum - cur), cur, b, unsaved),
           self' = self, use' = use, spoilt' = FALSE
    PROVE  DInv' /\ \E n \in 0 .. call.left : Abstract!Move(n)
<1> DEFINE got(n) == IF call.op = "read"
                     THEN call.data \o Copied(b, Pos - cur * BlockSize, n) ELSE <<>>
<1>1. PICK n \in Nat :
          /\ Advances(n)
          /\ Pos >= cur * BlockSize /\ Pos + n <= cur * BlockSize + BufBytes
          /\ n < call.left => blocknum' = cur + XferBlocks
          /\ buf' = IF call.op = "write"
                    THEN Overwritten(b, Pos - cur * BlockSize, n) ELSE b
          /\ \/ /\ n < call.left
                /\ call' = [call EXCEPT !.left = @ - n, !.total = @ + n, !.data = got(n)]
                /\ UNCHANGED res
             \/ /\ n = call.left
                /\ Result(call.op, "NO_ERROR", call.total + n, got(n))
    BY TransferNumbers
<1> HIDE DEF got
<1>2. /\ currblock' = cur
      /\ modified' = (unsaved \/ (call.op = "write" /\ call.left > 0))
    BY DEF Transfer
<1>3. /\ dev' \in [At -> Byte] /\ buf' \in [InBuf -> Byte] /\ modified' \in BOOLEAN
      /\ Content' = [i \in At |-> IF call.op = "write" /\ Pos <= i /\ i < Pos + n
                                  THEN Fill ELSE Content[i]]
      /\ Abstract!Settles
      /\ Coherent'
      /\ Copied(b, Pos - cur * BlockSize, n) = Abstract!Slice(n)
    BY <1>1, <1>2, TransferBytes
<1>4. /\ self = TRUE /\ self' = TRUE /\ Busy /\ use \in Uses
      /\ Pos \in Nat /\ BlockSize \in Nat \ {0} /\ XferBlocks \in Nat \ {0}
      /\ cur \in Nat /\ NoBlock \notin Nat /\ blocknum \in Nat
    BY Types, Sizes DEF Filled, DInv, Placed
<1>5. ASSUME n < call.left
      PROVE  DInv'
  <2>1. call' = [call EXCEPT !.left = @ - n, !.total = @ + n, !.data = got(n)]
    BY <1>1, <1>5
  <2>2. /\ DOMAIN call' = {"op", "left", "total", "data"}
        /\ call'.op = call.op /\ call'.left = call.left - n /\ call'.total = call.total + n
    BY <1>4, <2>1 DEF Busy
  <2>3. Busy'
    BY <1>1, <1>4, <1>5, <2>2 DEF Busy
  <2>4. call' # Idle
    BY <2>3 DEF Busy, Idle
  <2>5. res' = res /\ offset' = 0 /\ blocknum' = cur + XferBlocks /\ Pos' = Pos + n
    BY <1>1, <1>4, <1>5, <2>4 DEF Advances
  <2>6. TypeOK'
    BY <1>1, <1>2, <1>3, <1>4, <2>2, <2>3, <2>5
    DEF Advances, TypeOK, DInv, At, InBuf, Busy
  <2>7. Placed'
    BY <1>2, <1>4, <2>3, <2>4, <2>5 DEF Placed, Filled
  <2> QED
    BY <1>3, <2>6, <2>7 DEF DInv
<1>6. ASSUME n = call.left
      PROVE  DInv'
  <2>1. call' = Idle /\ Result(call.op, "NO_ERROR", call.total + n, got(n))
    BY <1>1, <1>4, <1>6 DEF Advances, Busy
  <2>2. blocknum' = blocknum
    BY <1>1, <1>4, <1>6 DEF Advances, Busy
  <2>3. TypeOK'
    BY <1>1, <1>2, <1>3, <1>4, <2>1
    DEF Advances, TypeOK, DInv, At, InBuf, Idle, Result, Retcodes
  <2>4. Placed'
    <3>1. InMemory'
        BY <1>2, <1>4, <2>2 DEF InMemory, Outside, Filled
    <3>2. Pos' <= BufAt' + BufBytes
        BY <1>1, <1>2 DEF Advances, BufAt
    <3> QED
        BY <1>2, <1>4, <2>1, <3>1, <3>2 DEF Placed, Filled
  <2> QED
    BY <1>3, <2>3, <2>4 DEF DInv
<1>7. Abstract!Move(n)
  <2>1. Content' = [i \in Abstract!At |-> IF call.op = "write" /\ Pos <= i /\ i < Pos + n
                                          THEN Fill ELSE Content[i]]
    BY <1>3 DEF Abstract!At, At
  <2>2. got(n) = IF call.op = "read" THEN call.data \o Abstract!Slice(n) ELSE <<>>
    BY <1>3 DEF got
  <2>3. Pos + n <= DevBytes /\ Pos' = Pos + n
    BY <1>1 DEF Advances
  <2>4. \/ /\ n < call.left
           /\ call' = [call EXCEPT !.left = @ - n, !.total = @ + n, !.data = got(n)]
           /\ UNCHANGED res
        \/ /\ n = call.left /\ call' = Idle
           /\ Result(call.op, "NO_ERROR", call.total + n, got(n))
    BY <1>1, <1>4 DEF Advances, Busy
  <2> QED
    BY <1>3, <2>1, <2>2, <2>3, <2>4
    DEF Abstract!Move, Abstract!Idle, Abstract!Result, Idle, Result
<1>8. n \in 0 .. call.left
    BY <1>1 DEF Advances
<1>9. n < call.left \/ n = call.left
    BY <1>1
<1> QED
    BY <1>5, <1>6, <1>7, <1>8, <1>9

-----------------------------------------------------------------------------
(* The steps.                                                                *)

\* The buffer stays, and is written or not.
Settling == /\ UNCHANGED <<self, currblock, buf>>
            /\ \/ dev' = dev /\ modified' = modified
               \/ self /\ dev' = Content /\ modified' = FALSE

LEMMA SettlingKeeps ==
    ASSUME DInv, Settling
    PROVE  /\ dev' \in [At -> Byte] /\ modified' \in BOOLEAN
           /\ modified' => modified
           /\ Content' = Content /\ Coherent' /\ Abstract!Settles
<1>1. /\ dev \in [At -> Byte] /\ Content \in [At -> Byte] /\ modified \in BOOLEAN
      /\ self' = self /\ currblock' = currblock /\ buf' = buf
    BY Types, ContentFacts DEF Settling
<1>2. CASE dev' = dev /\ modified' = modified
  <2>1. Content' = Content
    BY <1>1, <1>2 DEF Content
  <2>2. Coherent'
    BY <1>1, <1>2 DEF DInv, Coherent, BufAt
  <2>3. Abstract!Settles
    BY <1>2 DEF Abstract!Settles
  <2> QED
    BY <1>1, <1>2, <2>1, <2>2, <2>3, Zenon
<1>3. CASE self /\ dev' = Content /\ modified' = FALSE
  <2>1. Content' = [i \in At |-> dev'[i]]
    BY <1>1, <1>3 DEF Content
  <2>2. Content' = Content
    BY <1>1, <1>3, <2>1
  <2>3. Coherent'
    BY <1>1, <1>3, ContentFacts DEF Coherent, BufAt
  <2>4. Abstract!Settles
    BY <1>3 DEF Abstract!Settles
  <2> QED
    BY <1>1, <1>3, <2>2, <2>3, <2>4
<1> QED
    BY <1>2, <1>3 DEF Settling

LEMMA OpenStep ==
    ASSUME DInv, f_deblock_open, use' = use, spoilt' = FALSE
    PROVE  DInv' /\ Abstract!Open
<1>1. ~self /\ ~modified /\ call = Idle
    BY DEF f_deblock_open, DInv, Placed
<1>2. /\ self' = TRUE /\ blocknum' = 0 /\ offset' = 0 /\ currblock' = NoBlock
      /\ modified' = FALSE /\ dev' = dev /\ call' = Idle
      /\ buf' = [i \in InBuf |-> Junk]
      /\ Result("open", "NO_ERROR", 0, <<>>)
    BY <1>1, Types DEF f_deblock_open
<1>3. /\ dev \in [At -> Byte] /\ BlockSize \in Nat \ {0} /\ BufBytes \in Nat
      /\ DevBytes \in Nat /\ use \in Uses
    BY Types, Sizes
<1>4. Content' = Content
  <2>1. Content' = [i \in At |-> dev[i]]
    BY <1>2, <1>3 DEF Content
  <2> QED
    BY <1>1, <1>3, <2>1, ContentFacts
<1>5. Pos' = 0
    BY <1>2, <1>3 DEF Pos
<1>6. TypeOK'
  <2>1. Junk \in Byte
    BY <1>3 DEF Byte, Junk
  <2>2. dev' \in [At -> Byte] /\ buf' \in [InBuf -> Byte]
    BY <1>2, <1>3, <2>1
  <2>3. /\ blocknum' \in Nat /\ offset' \in 0 .. BufBytes
        /\ currblock' \in Nat \union {NoBlock}
    BY <1>2, <1>3
  <2>4. call'.op = "none" /\ res'.ret = "NO_ERROR"
    BY <1>2 DEF Idle, Result
  <2> QED
    BY <1>2, <1>3, <2>2, <2>3, <2>4 DEF TypeOK, At, InBuf, Retcodes
<1>7. Placed' /\ Coherent'
    BY <1>2, <1>3 DEF Placed, Coherent
<1>8. Abstract!Open
  <2>1. call = Abstract!Idle /\ Abstract!Result("open", "NO_ERROR", 0, <<>>)
    BY <1>1, <1>2 DEF Abstract!Idle, Abstract!Result, Idle, Result
  <2>2. UNCHANGED <<Content, dev, call>>
    BY <1>1, <1>2, <1>4
  <2> QED
    BY <1>5, <2>1, <2>2 DEF Abstract!Open
<1> QED
    BY <1>6, <1>7, <1>8 DEF DInv

LEMMA CloseStep ==
    ASSUME DInv, f_deblock_close, use' = use, spoilt' = FALSE
    PROVE  DInv' /\ Abstract!Close
<1>1. PICK fl \in flushbuf : dev' = fl.dev
    BY DEF f_deblock_close
<1>2. /\ self' = FALSE /\ modified' = FALSE /\ call = Idle /\ call' = Idle
      /\ Result("close", "NO_ERROR", 0, <<>>)
      /\ UNCHANGED <<blocknum, offset, currblock, buf>>
    BY DEF f_deblock_close
<1>3. dev' = Content \/ (use.faulty /\ dev' = dev)
    BY <1>1, FlushFacts
<1>4. dev' \in [At -> Byte] /\ dev \in [At -> Byte] /\ Content \in [At -> Byte]
    BY <1>3, Types, ContentFacts
<1>5. Content' = dev'
  <2>1. Content' = [i \in At |-> dev'[i]]
    BY <1>2, <1>4 DEF Content
  <2> QED
    BY <1>4, <2>1
<1>6. Pos' = Pos
    BY <1>2 DEF Pos
<1>7. TypeOK'
    BY <1>2, <1>4 DEF DInv, TypeOK, At, InBuf, Result, Retcodes
<1>8. Placed'
    BY <1>2, <1>6 DEF DInv, Placed, InMemory, Outside, BufAt
<1>9. Coherent'
    BY <1>2 DEF DInv, Coherent
<1>10. Abstract!Close
  <2>1. call = Abstract!Idle /\ Abstract!Result("close", "NO_ERROR", 0, <<>>)
        /\ UNCHANGED <<Pos, call>>
    BY <1>2, <1>6 DEF Abstract!Idle, Abstract!Result, Idle, Result
  <2> QED
    BY <1>3, <1>5, <2>1 DEF Abstract!Close
<1> QED
    BY <1>7, <1>8, <1>9, <1>10 DEF DInv

LEMMA SeekStep ==
    ASSUME DInv, NEW p \in use.seeks, f_deblock_seek(p), use' = use,
           spoilt' = FALSE
    PROVE  DInv' /\ Abstract!Seek(p)
<1>1. /\ self = TRUE /\ call = Idle /\ call' = Idle
      /\ blocknum' = p \div BlockSize /\ offset' = p % BlockSize
      /\ UNCHANGED <<self, currblock, buf>>
    BY Types DEF f_deblock_seek
<1>2. use \in Uses /\ p \in Nat
    BY Types, DeblockAssumption
<1>3. /\ blocknum' \in Nat /\ offset' \in Nat /\ offset' < BlockSize /\ Pos' = p
    BY <1>1, <1>2, Positions DEF Pos
<1>4. PICK ret \in Retcodes, status \in {NotPushed, 0} :
          /\ Result("seek", ret, status, <<>>)
          /\ ret # "NO_ERROR" => use.faulty
          /\ \/ dev' = dev /\ modified' = modified
             \/ dev' = Content /\ modified' = FALSE
  <2>1. CASE modified /\ Outside(blocknum')
    <3>1. PICK fl \in flushbuf : /\ dev' = fl.dev /\ modified' = fl.modified
                                 /\ Result("seek", fl.ret, NotPushed, <<>>)
        BY <2>1 DEF f_deblock_seek
    <3>2. \/ fl = [dev |-> Content, modified |-> FALSE, ret |-> "NO_ERROR"]
          \/ use.faulty /\ modified
             /\ fl = [dev |-> dev, modified |-> TRUE, ret |-> "E_DEVICE"]
        BY FlushFacts
    <3>3. CASE fl = [dev |-> Content, modified |-> FALSE, ret |-> "NO_ERROR"]
        BY <3>1, <3>3 DEF Retcodes
    <3>4. CASE use.faulty /\ modified
               /\ fl = [dev |-> dev, modified |-> TRUE, ret |-> "E_DEVICE"]
      <4>1. modified = TRUE
        BY <3>4, Types
      <4> QED
        BY <3>1, <3>4, <4>1 DEF Retcodes
    <3> QED
        BY <3>2, <3>3, <3>4
  <2>2. CASE ~(modified /\ Outside(blocknum'))
    <3>1. Result("seek", "NO_ERROR", 0, <<>>) /\ dev' = dev /\ modified' = modified
        BY <2>2 DEF f_deblock_seek
    <3> QED
        BY <3>1, Zenon DEF Retcodes
  <2> QED
    BY <2>1, <2>2
<1>5. Settling
    BY <1>1, <1>4 DEF Settling
<1>6. TypeOK'
  <2>1. dev' \in [At -> Byte] /\ modified' \in BOOLEAN
    BY <1>5, SettlingKeeps
  <2>2. buf' \in [InBuf -> Byte] /\ currblock' \in Nat \union {NoBlock} /\ self' \in BOOLEAN
    BY <1>1, Types
  <2>3. offset' \in 0 .. BufBytes
    BY <1>3, Sizes
  <2>4. call'.op = "none" /\ res'.ret \in Retcodes
    BY <1>1, <1>4 DEF Idle, Result
  <2>5. spoilt' \in BOOLEAN
    OBVIOUS
  <2> QED
    BY <1>2, <1>3, <2>1, <2>2, <2>3, <2>4, <2>5 DEF TypeOK, At, InBuf
<1>7. Placed'
    BY <1>1, <1>3, <1>5, SettlingKeeps DEF DInv, Placed
<1>9. Abstract!Seek(p)
  <2>1. call = Abstract!Idle /\ UNCHANGED <<Content, call>> /\ Abstract!Settles /\ Pos' = p
    BY <1>1, <1>3, <1>5, SettlingKeeps DEF Abstract!Idle, Idle
  <2>2. \E r \in {"NO_ERROR", "E_WRITE_ERROR", "E_DEVICE"}, status_ \in {Abstract!NotPushed, 0} :
            /\ r # "NO_ERROR" => use.faulty
            /\ Abstract!Result("seek", r, status_, <<>>)
    BY <1>4 DEF Abstract!NotPushed, Abstract!Result, NotPushed, Result, Retcodes
  <2> QED
    BY <2>1, <2>2 DEF Abstract!Seek
<1> QED
    BY <1>5, <1>6, <1>7, <1>9, SettlingKeeps DEF DInv

LEMMA StartStep ==
    ASSUME DInv, NEW op \in {"read", "write"}, NEW len \in use.lens, Start(op, len),
           use' = use, spoilt' = FALSE
    PROVE  DInv' /\ Abstract!Start(op, len)
<1>1. /\ self = TRUE /\ call = Idle
      /\ call' = [op |-> op, left |-> len, total |-> 0, data |-> <<>>]
      /\ UNCHANGED <<dev, self, blocknum, offset, currblock, buf, modified, res>>
    BY Types DEF Start
<1>2. use \in Uses /\ len \in Nat \ {0}
  <2>1. len # 0
    BY DEF Start
  <2> QED
    BY <2>1, Types, DeblockAssumption
<1>3. Pos' = Pos /\ Content' = Content /\ Pos \in Nat
    BY <1>1, Types DEF Pos, Content
<1>4. TypeOK'
    BY <1>1 DEF DInv, TypeOK
<1>5. Placed'
    BY <1>1, <1>2, <1>3 DEF DInv, Placed, InMemory, Outside, BufAt, Busy
<1>7. Coherent'
    BY <1>1 DEF DInv, Coherent, BufAt
<1>8. Abstract!Start(op, len)
    BY <1>1, <1>3 DEF Abstract!Start, Abstract!Idle, Idle
<1> QED
    BY <1>4, <1>5, <1>7, <1>8 DEF DInv

\* A call that ends early, after a flush that was or was not taken.
LEMMA GiveUpStep ==
    ASSUME DInv, call # Idle, Settling, use' = use, spoilt' = FALSE,
           NEW ret \in Retcodes, NEW actual, GiveUp(ret, actual),
           \/ ret = "NO_ERROR" /\ actual = call.total /\ (Pos >= DevBytes \/ use.faulty)
           \/ ret # "NO_ERROR" /\ actual \in {NotPushed, call.total} /\ use.faulty
    PROVE  DInv' /\ Abstract!Stop
<1>1. /\ call' = Idle /\ Result(call.op, ret, actual, call.data)
      /\ UNCHANGED <<blocknum, offset, self, currblock, buf>>
    BY DEF GiveUp, Settling
<1>2. Pos' = Pos
    BY <1>1 DEF Pos
<1>3. TypeOK'
    BY <1>1, SettlingKeeps DEF DInv, TypeOK, At, InBuf, Idle, Result
<1>4. Placed'
    BY <1>1, <1>2, SettlingKeeps DEF DInv, Placed, InMemory, Outside, BufAt
<1>6. Abstract!Stop
  <2>1. /\ call # Abstract!Idle /\ call' = Abstract!Idle
        /\ UNCHANGED <<Content, Pos>> /\ Abstract!Settles
    BY <1>1, <1>2, SettlingKeeps DEF Abstract!Idle, Idle
  <2>2. Abstract!Result(call.op, ret, actual, call.data)
    BY <1>1 DEF Abstract!Result, Result
  <2>3. \/ Pos >= DevBytes /\ Abstract!Result(call.op, "NO_ERROR", call.total, call.data)
        \/ use.faulty /\ \E r \in {"E_WRITE_ERROR", "E_DEVICE"},
                            a \in {Abstract!NotPushed, call.total} :
                            Abstract!Result(call.op, r, a, call.data)
        \/ use.faulty /\ Abstract!Result(call.op, "NO_ERROR", call.total, call.data)
    BY <2>2 DEF Retcodes, Abstract!NotPushed, NotPushed
  <2> QED
    BY <2>1, <2>3 DEF Abstract!Stop
<1> QED
    BY <1>3, <1>4, <1>6, SettlingKeeps DEF DInv

\* A buffer that is read, and no fewer blocks than it has, is filled whole.
LEMMA ReadIsWhole ==
    ASSUME DInv, Available(blocknum) > 0, ~(Available(blocknum) < XferBlocks)
    PROVE  Available(blocknum) = XferBlocks /\ blocknum + XferBlocks <= DevBlocks
<1>1. /\ blocknum \in Nat /\ blocknum # NoBlock
      /\ XferBlocks \in Nat \ {0} /\ DevBlocks \in Nat \ {0}
    BY Types, Sizes DEF NoBlock
<1> QED
    BY <1>1 DEF Available

LEMMA CachedStep ==
    ASSUME DInv, call # Idle, InMemory, dev' = dev, self' = self, use' = use,
           spoilt' = FALSE,
           Transfer(XferBlocks - (blocknum - currblock), currblock, buf, modified)
    PROVE  DInv' /\ \E n \in 0 .. call.left : Abstract!Move(n)
<1>1. /\ currblock # NoBlock /\ currblock \in Nat /\ self /\ blocknum \in Nat
      /\ currblock <= blocknum /\ blocknum < currblock + XferBlocks
      /\ currblock + XferBlocks <= DevBlocks
    BY Types, Sizes DEF InMemory, Outside, DInv, Placed
<1>2. buf \in [InBuf -> Byte] /\ modified \in BOOLEAN
    BY Types
<1>3. Pos <= currblock * BlockSize + BufBytes
  <2>1. CASE offset < BlockSize
    <3>1. blocknum * BlockSize + BlockSize <= currblock * BlockSize + BufBytes
        BY <1>1, Products
    <3>2. /\ currblock * BlockSize \in Nat /\ blocknum * BlockSize \in Nat
          /\ offset \in Nat /\ BufBytes \in Nat /\ BlockSize \in Nat
          /\ Pos = blocknum * BlockSize + offset
        BY <1>1, Types, Sizes, Products
    <3> QED
        BY <2>1, <3>1, <3>2
  <2>2. CASE Pos <= BufAt + BufBytes
    BY <2>2 DEF BufAt
  <2> QED
    BY <2>1, <2>2 DEF DInv, Placed
<1>4. \A k \in InBuf : buf[k] = Content[currblock * BlockSize + k]
    BY <1>1, ContentFacts DEF BufAt
<1>5. Filled(currblock, buf, modified)
    BY <1>1, <1>2, <1>3, <1>4 DEF Filled, DInv
<1>6. Flushed(currblock, modified)
    BY ContentFacts DEF Flushed
<1> QED
    BY <1>5, <1>6, TransferStep

LEMMA ReadStep ==
    ASSUME DInv, call # Idle, ~InMemory, dev' = Content, self' = self, use' = use,
           spoilt' = FALSE,
           Available(blocknum) > 0, ~(Available(blocknum) < XferBlocks),
           Transfer(Available(blocknum), blocknum,
                    ReadBlocks(Content, blocknum, Available(blocknum)), FALSE)
    PROVE  DInv' /\ \E n \in 0 .. call.left : Abstract!Move(n)
<1>1. Available(blocknum) = XferBlocks /\ blocknum + XferBlocks <= DevBlocks
    BY ReadIsWhole
<1>2. /\ blocknum \in Nat /\ buf \in [InBuf -> Byte] /\ Content \in [At -> Byte]
      /\ XferBlocks \in Nat \ {0} /\ BlockSize \in Nat \ {0} /\ BufBytes \in Nat
      /\ DevBytes \in Nat /\ offset \in Nat
      /\ Pos = blocknum * BlockSize + offset /\ blocknum * BlockSize \in Nat
    BY Types, Sizes, ContentFacts
<1> DEFINE b == ReadBlocks(Content, blocknum, XferBlocks)
<1>3. b = [k \in InBuf |-> Content[blocknum * BlockSize + k]]
  <2>1. \A k \in InBuf : k < XferBlocks * BlockSize
    BY <1>2 DEF InBuf, BufBytes
  <2> QED
    BY <1>2, <2>1 DEF ReadBlocks
<1> HIDE DEF b
<1>4. \A k \in InBuf : blocknum * BlockSize + k \in At
  <2>1. blocknum * BlockSize + BufBytes <= DevBytes
    BY <1>1, <1>2, Products
  <2> QED
    BY <1>2, <2>1 DEF InBuf, At
<1>5. b \in [InBuf -> Byte]
    BY <1>2, <1>3, <1>4
<1>6. Pos <= blocknum * BlockSize + BufBytes
    BY <1>2, Sizes DEF DInv, Placed
<1>7. Filled(blocknum, b, FALSE)
    BY <1>1, <1>2, <1>3, <1>5, <1>6 DEF Filled, DInv
<1>8. Flushed(blocknum, FALSE)
    BY DEF Flushed
<1>9. XferBlocks - (blocknum - blocknum) = XferBlocks
    BY <1>2
<1>10. Transfer(XferBlocks - (blocknum - blocknum), blocknum, b, FALSE)
    BY <1>1, <1>9 DEF b
<1> QED
    BY <1>7, <1>8, <1>10, TransferStep

LEMMA IoStep ==
    ASSUME DInv, do_io, use' = use, spoilt' = FALSE
    PROVE  DInv' /\ (Abstract!Stop \/ \E n \in 0 .. call.left : Abstract!Move(n))
<1>1. call # Idle /\ self' = self /\ self
    BY DEF do_io, DInv, Placed
<1>2. CASE /\ InMemory /\ dev' = dev
           /\ Transfer(XferBlocks - (blocknum - currblock), currblock, buf, modified)
    BY <1>1, <1>2, CachedStep
<1>3. ASSUME ~InMemory, NEW fl \in flushbuf, dev' = fl.dev, fl.ret # "NO_ERROR",
             GiveUp(fl.ret, NotPushed), modified' = fl.modified, UNCHANGED <<currblock, buf>>
      PROVE  DInv' /\ Abstract!Stop
  <2>1. /\ use.faulty /\ modified
        /\ fl = [dev |-> dev, modified |-> TRUE, ret |-> "E_DEVICE"]
    BY <1>3, FlushFacts
  <2>2. modified = TRUE /\ fl.ret = "E_DEVICE"
    BY <2>1, Types
  <2>3. Settling
    BY <1>1, <1>3, <2>1, <2>2 DEF Settling
  <2> QED
    BY <1>1, <1>3, <2>1, <2>2, <2>3, GiveUpStep DEF Retcodes
<1>4. ASSUME ~InMemory, NEW fl \in flushbuf, dev' = fl.dev, fl.ret = "NO_ERROR",
             ReadAndCopy(fl.dev)
      PROVE  DInv' /\ (Abstract!Stop \/ \E n \in 0 .. call.left : Abstract!Move(n))
  <2>1. fl.dev = Content
    BY <1>4, FlushFacts
  <2>2. CASE /\ Available(blocknum) > 0 /\ ~(Available(blocknum) < XferBlocks)
             /\ Transfer(Available(blocknum), blocknum,
                         ReadBlocks(Content, blocknum, Available(blocknum)), FALSE)
    BY <1>1, <1>4, <2>1, <2>2, ReadStep
  <2>3. CASE /\ Available(blocknum) = 0 /\ GiveUp("NO_ERROR", call.total)
             /\ UNCHANGED <<currblock, buf>> /\ modified' = FALSE
    <3>1. Settling
        BY <1>1, <1>4, <2>1, <2>3 DEF Settling
    <3>2. Pos >= DevBytes
      <4>1. blocknum \in Nat /\ blocknum # NoBlock /\ DevBlocks \in Nat /\ XferBlocks \in Nat \ {0}
          BY Types, Sizes
      <4>2. blocknum >= DevBlocks
          BY <2>3, <4>1 DEF Available
      <4>3. blocknum * BlockSize >= DevBytes
          BY <4>1, <4>2, Products
      <4> QED
          BY <4>3, Types, Sizes
    <3> QED
        BY <1>1, <2>3, <3>1, <3>2, GiveUpStep DEF Retcodes
  <2>4. CASE /\ use.faulty
             /\ \E ret \in {"NO_ERROR", "E_DEVICE"} : GiveUp(ret, call.total)
             /\ UNCHANGED currblock /\ modified' = FALSE /\ buf' = buf
    <3>2. Settling
        BY <1>1, <1>4, <2>1, <2>4 DEF Settling
    <3> QED
        BY <1>1, <2>4, <3>2, GiveUpStep DEF Retcodes
  <2>5. \/ /\ Available(blocknum) > 0 /\ ~(Available(blocknum) < XferBlocks)
           /\ Transfer(Available(blocknum), blocknum,
                       ReadBlocks(Content, blocknum, Available(blocknum)), FALSE)
        \/ /\ Available(blocknum) = 0 /\ GiveUp("NO_ERROR", call.total)
           /\ UNCHANGED <<currblock, buf>> /\ modified' = FALSE
        \/ /\ use.faulty
           /\ \E ret \in {"NO_ERROR", "E_DEVICE"} : GiveUp(ret, call.total)
           /\ UNCHANGED currblock /\ modified' = FALSE /\ buf' = buf
    BY <1>4, <2>1 DEF ReadAndCopy
  <2> QED
    BY <2>2, <2>3, <2>4, <2>5
<1>5. \/ /\ InMemory /\ dev' = dev
         /\ Transfer(XferBlocks - (blocknum - currblock), currblock, buf, modified)
      \/ /\ ~InMemory
         /\ \E fl \in flushbuf :
               /\ dev' = fl.dev
               /\ \/ /\ fl.ret # "NO_ERROR" /\ GiveUp(fl.ret, NotPushed)
                     /\ modified' = fl.modified /\ UNCHANGED <<currblock, buf>>
                  \/ fl.ret = "NO_ERROR" /\ ReadAndCopy(fl.dev)
    BY DEF do_io
<1> QED
    BY <1>2, <1>3, <1>4, <1>5

-----------------------------------------------------------------------------
(* The theorems.                                                             *)

LEMMA InitHolds ==
    ASSUME Init
    PROVE  DInv /\ Abstract!Init
<1>1. /\ BlockSize \in Nat \ {0} /\ BufBytes \in Nat /\ DevBytes \in Nat
      /\ use \in Uses /\ use.faulty \in BOOLEAN
    BY Sizes, DeblockAssumption DEF Init
<1>2. /\ dev = [i \in At |-> i] /\ buf = [i \in InBuf |-> Junk]
      /\ blocknum = 0 /\ offset = 0 /\ currblock = NoBlock
      /\ self = FALSE /\ modified = FALSE /\ spoilt = FALSE /\ call = Idle
      /\ res = [op |-> "none", ret |-> "NO_ERROR", actual |-> 0, data |-> <<>>]
    BY DEF Init, At, InBuf
<1>3. dev \in [At -> Byte] /\ buf \in [InBuf -> Byte]
  <2>1. Junk \in Byte /\ At \subseteq Byte
    BY <1>1 DEF At, Byte, Junk
  <2> QED
    BY <1>2, <2>1
<1>4. call.op = "none" /\ res.ret = "NO_ERROR"
    BY <1>2 DEF Idle
<1>5. TypeOK
  <2>1. /\ blocknum \in Nat /\ offset \in 0 .. BufBytes
        /\ currblock \in Nat \union {NoBlock}
    BY <1>1, <1>2
  <2> QED
    BY <1>1, <1>2, <1>3, <1>4, <2>1 DEF TypeOK, At, InBuf, Retcodes
<1>6. Placed /\ Coherent
    BY <1>1, <1>2 DEF Placed, Coherent
<1>7. Content = dev
  <2>1. Content = [i \in At |-> dev[i]]
    BY <1>2, <1>3 DEF Content
  <2> QED
    BY <1>3, <2>1
<1>8. Pos = 0
    BY <1>1, <1>2 DEF Pos
<1>9. Abstract!Init
    BY <1>1, <1>2, <1>7, <1>8 DEF Abstract!Init, Abstract!At, Abstract!Idle, At, Idle
<1> QED
    BY <1>5, <1>6, <1>9 DEF DInv

\* The history: once set it stays.
LEMMA SpoiltStays ==
    ASSUME spoilt \in BOOLEAN, [Next]_vars
    PROVE  spoilt' \in BOOLEAN /\ (spoilt => spoilt')
<1>1. CASE UNCHANGED vars
    BY <1>1 DEF vars
<1>2. CASE Next
  <2>1. ASSUME spoilt' = spoilt
        PROVE  spoilt' \in BOOLEAN /\ (spoilt => spoilt')
    BY <2>1
  <2>2. ASSUME NEW b, spoilt' = (spoilt \/ b)
        PROVE  spoilt' \in BOOLEAN /\ (spoilt => spoilt')
    BY <2>2, Zenon
  <2>3. ASSUME spoilt' = TRUE
        PROVE  spoilt' \in BOOLEAN /\ (spoilt => spoilt')
    BY <2>3
  <2>4. ASSUME \/ f_deblock_open \/ f_deblock_close \/ seek_too_far
               \/ \E p \in use.seeks : f_deblock_seek(p)
        PROVE  spoilt' = spoilt
    BY <2>4 DEF f_deblock_open, f_deblock_close, f_deblock_seek, seek_too_far
  <2>5. ASSUME NEW op, NEW len, Start(op, len)
        PROVE  spoilt' = (spoilt \/ len = 0)
    BY <2>5 DEF Start
  <2>6. ASSUME NEW d, ReadAndCopy(d)
        PROVE  \/ spoilt' = (spoilt \/ Available(blocknum) < XferBlocks)
               \/ spoilt' = spoilt
               \/ spoilt' = (spoilt \/ Clobbers)
    BY <2>6, Zenon DEF ReadAndCopy
  <2>7. ASSUME do_io
        PROVE  \/ spoilt' = spoilt \/ spoilt' = TRUE
               \/ \E d : ReadAndCopy(d)
    BY <2>7, Zenon DEF do_io
  <2> QED
    BY <1>2, <2>1, <2>2, <2>3, <2>4, <2>5, <2>6, <2>7, Zenon DEF Next
<1> QED
    BY <1>1, <1>2

\* Every step that does not set it keeps the invariant, and is a step of the file
\* of bytes or none.
LEMMA StepHolds ==
    ASSUME DInv, [Next]_vars, spoilt' = FALSE
    PROVE  DInv' /\ [Abstract!Next]_(Abstract!vars)
<1>1. CASE UNCHANGED vars
  <2>1. /\ UNCHANGED <<use, dev, self, blocknum, offset, currblock, buf, modified, call, res>>
    BY <1>1 DEF vars
  <2>2. UNCHANGED <<use.faulty, Content, Pos>>
    BY <2>1 DEF Content, Pos
  <2>3. DInv'
    BY <2>1, <2>2 DEF DInv, TypeOK, Placed, InMemory, Outside, BufAt, Busy, Coherent
  <2> QED
    BY <2>1, <2>2, <2>3 DEF Abstract!vars
<1>2. CASE Next
  <2> USE DEF Next
  <2>1. use' = use /\ use \in Uses
    BY <1>2, Types
  <2>2. CASE f_deblock_open
    BY <2>1, <2>2, OpenStep DEF Abstract!Next
  <2>3. CASE f_deblock_close
    BY <2>1, <2>3, CloseStep DEF Abstract!Next
  <2>4. ASSUME NEW p \in use.seeks, f_deblock_seek(p)
        PROVE  DInv' /\ Abstract!Next
    <3>1. p \in UNION {u.seeks : u \in Uses}
        BY <2>1
    <3>2. DInv' /\ Abstract!Seek(p)
        BY <2>1, <2>4, SeekStep
    <3> QED
        BY <2>1, <3>1, <3>2 DEF Abstract!Next
  <2>5. CASE seek_too_far
    <3>1. /\ call = Idle /\ Result("seek", "NO_ERROR", -1, <<>>)
          /\ UNCHANGED <<dev, self, blocknum, offset, currblock, buf, modified, call>>
        BY <2>5 DEF seek_too_far
    <3>2. Content' = Content /\ Pos' = Pos
        BY <3>1 DEF Content, Pos
    <3>3. TypeOK' /\ Placed' /\ Coherent'
        BY <2>1, <3>1, <3>2 DEF DInv, TypeOK, Placed, InMemory, Outside, BufAt, Busy, Coherent,
                                Result, Retcodes
    <3>4. Abstract!SeekTooFar
        BY <3>1, <3>2 DEF Abstract!SeekTooFar, Abstract!Idle, Abstract!Result, Idle, Result
    <3> QED
        BY <2>1, <3>3, <3>4 DEF DInv, Abstract!Next
  <2>6. ASSUME NEW op \in {"read", "write"}, NEW len \in use.lens, Start(op, len)
        PROVE  DInv' /\ Abstract!Next
    <3>1. len \in UNION {u.lens : u \in Uses}
        BY <2>1
    <3>2. DInv' /\ Abstract!Start(op, len)
        BY <2>1, <2>6, StartStep
    <3> QED
        BY <2>1, <3>1, <3>2 DEF Abstract!Next
  <2>7. CASE do_io
    BY <2>1, <2>7, IoStep DEF Abstract!Next
  <2> QED
    BY <1>2, <2>2, <2>3, <2>4, <2>5, <2>6, <2>7
<1> QED
    BY <1>1, <1>2

\* Until the buffer is spoilt the invariant holds, and the steps are steps of the
\* file of bytes.
Sound == spoilt \in BOOLEAN /\ (spoilt \/ DInv)

LEMMA SoundSteps ==
    ASSUME Sound, [Next]_vars
    PROVE  Sound' /\ [Abstract!Next \/ spoilt']_(Abstract!vars)
<1>1. spoilt' \in BOOLEAN /\ (spoilt => spoilt')
    BY SpoiltStays DEF Sound
<1>2. CASE spoilt'
    BY <1>1, <1>2 DEF Sound
<1>3. CASE ~spoilt'
  <2>1. spoilt' = FALSE /\ DInv
    BY <1>1, <1>3 DEF Sound
  <2>2. DInv' /\ [Abstract!Next]_(Abstract!vars)
    BY <2>1, StepHolds
  <2> QED
    BY <1>1, <2>2 DEF Sound
<1> QED
    BY <1>2, <1>3

LEMMA SoundStart == Init => Sound /\ Abstract!Init
<1> SUFFICES ASSUME Init
             PROVE  Sound /\ Abstract!Init
    OBVIOUS
<1>1. spoilt = FALSE
    BY DEF Init
<1> QED
    BY <1>1, InitHolds DEF Sound

\* As long as the buffer was never taken for what it is not (a write of whole
\* blocks without a read, a short transfer, a failed read that changed the
\* buffer, a call for nothing), a buffer that is not to be written holds what
\* the device holds, so a later request may be served from it (do_io, flushbuf
\* and f_deblock_seek).  No assumption on the callers is made.
THEOREM BufferCoherent == Spec => []CacheCoherent
<1>1. Init => Sound
    BY SoundStart
<1>2. Sound /\ [Next]_vars => Sound'
    BY SoundSteps
<1>3. Sound => CacheCoherent
  <2> SUFFICES ASSUME Sound, ~spoilt
               PROVE  CacheCoherent
    BY DEF CacheCoherent
  <2>1. DInv /\ TypeOK
    BY DEF Sound, DInv
  <2>2. ASSUME self, ~modified, currblock # NoBlock, NEW k \in InBuf
        PROVE  BufAt + k \in At /\ buf[k] = dev[BufAt + k]
    BY <2>1, <2>2, ContentFacts
  <2>3. DOMAIN buf = InBuf /\ DOMAIN dev = At
    BY <2>1, Types
  <2> QED
    BY <2>1, <2>2, <2>3 DEF CacheCoherent, BufAt
<1> QED
    BY <1>1, <1>2, <1>3, PTL DEF Spec

\* Until then an instance is a file of bytes to its callers: what they read is
\* what was written there, through buffering, faults and flushes (do_io).  The
\* step that spoils the buffer, and those after it, may be anything.
THEOREM FileOfBytes == Spec => ImplementsByteFile
<1>1. Init => Sound /\ Abstract!Init
    BY SoundStart
<1>2. Sound /\ [Next]_vars => Sound' /\ [Abstract!Next \/ spoilt']_(Abstract!vars)
    BY SoundSteps
<1> QED
    BY <1>1, <1>2, PTL DEF Spec, ImplementsByteFile

-----------------------------------------------------------------------------
(* The configuration variables.                                             *)

\* nvram_offset finds the last record again: there is none, or a header still
\* fits after it.
InSight == log = <<>> \/ Found

-----------------------------------------------------------------------------
(* Sums.                                                                    *)

\* A non-empty set of naturals has a least element: intervals that start at 0
\* are finite, and the strict subset ordering of finite sets is well founded.
LEMMA Least ==
    ASSUME NEW T, T \subseteq Nat, T # {}
    PROVE  \E m \in T : \A k \in T : m <= k
<1> DEFINE R == StrictSubsetOrdering(Nat)
           F == {0 .. k : k \in T}
<1>1. IsWellFoundedOn(R, FiniteSubsetsOf(Nat))
    BY FS_StrictSubsetOrderingWellFounded
<1>2. F \subseteq FiniteSubsetsOf(Nat) /\ F # {}
    <2>1. ASSUME NEW k \in T
          PROVE  0 .. k \in FiniteSubsetsOf(Nat)
        BY FS_Interval DEF FiniteSubsetsOf
    <2> QED
        BY <2>1
<1>3. PICK X \in F : \A Y \in F : ~(<<Y, X>> \in R)
    <2> HIDE DEF R, F
    <2> QED
        BY <1>1, <1>2, WFMin
<1>4. PICK m \in T : X = 0 .. m
    OBVIOUS
<1>5. ASSUME NEW k \in T, k < m
      PROVE  FALSE
    <2>1. 0 .. k \subseteq 0 .. m /\ 0 .. k \subseteq Nat /\ 0 .. m \subseteq Nat
        BY <1>5
    <2>2. m \in 0 .. m /\ ~(m \in 0 .. k)
        BY <1>5
    <2>3. <<0 .. k, 0 .. m>> \in R
        BY <2>1, <2>2 DEF StrictSubsetOrdering
    <2> QED
        BY <1>3, <1>4, <2>3
<1> QED
    BY <1>5

LEMMA Induction ==
    ASSUME NEW n \in Nat, NEW T, 0 \in T, \A k \in 0 .. n - 1 : k \in T => k + 1 \in T
    PROVE  \A k \in 0 .. n : k \in T
<1> DEFINE B == {k \in 0 .. n : k \notin T}
<1>1. ASSUME B # {}
      PROVE  FALSE
    <2>1. B \subseteq Nat
        OBVIOUS
    <2>2. PICK m \in B : \A k \in B : m <= k
        <3> HIDE DEF B
        <3> QED
            BY <1>1, <2>1, Least
    <2>3. m \in 0 .. n /\ m \notin T /\ m # 0
        OBVIOUS
    <2>4. m - 1 \in 0 .. n - 1 /\ m - 1 \in 0 .. n /\ ~(m <= m - 1) /\ (m - 1) + 1 = m
        BY <2>3
    <2>5. m - 1 \in T
        BY <2>2, <2>4
    <2> QED
        BY <2>3, <2>4, <2>5
<1> QED
    BY <1>1

\* The recursion of Total has a solution.
LEMMA TotalEquation ==
    ASSUME NEW s, Len(s) \in Nat
    PROVE  \E sum : /\ Total(s) = sum[Len(s)]
                    /\ sum[0] = 0
                    /\ \A k \in 1 .. Len(s) : sum[k] = sum[k - 1] + s[k]
<1> DEFINE n == Len(s)
           Grow(g, k) == IF k = 0 THEN 0 ELSE g[k - 1] + s[k]
           T == {k \in 0 .. n : \E g : g = [i \in 0 .. k |-> Grow(g, i)]}
           sum == CHOOSE g : g = [k \in 0 .. n |-> Grow(g, k)]
<1>1. 0 \in T
    <2> DEFINE g == [i \in 0 .. 0 |-> 0]
    <2>1. \A i \in 0 .. 0 : Grow(g, i) = 0
        OBVIOUS
    <2> HIDE DEF Grow
    <2>2. g = [i \in 0 .. 0 |-> Grow(g, i)]
        BY <2>1
    <2> HIDE DEF g
    <2>3. 0 \in 0 .. n
        OBVIOUS
    <2> QED
        BY <2>2, <2>3
<1>2. ASSUME NEW k \in 0 .. n - 1, k \in T
      PROVE  k + 1 \in T
    <2>1. PICK g : g = [i \in 0 .. k |-> Grow(g, i)]
        BY <1>2
    <2> DEFINE h == [i \in 0 .. k + 1 |-> IF i = k + 1 THEN Grow(g, k + 1) ELSE g[i]]
    <2>2. ASSUME NEW i \in 0 .. k + 1
          PROVE  h[i] = Grow(h, i)
        <3>1. CASE i = 0
            <4>1. h[i] = g[0] /\ g[0] = Grow(g, 0) /\ Grow(g, 0) = 0 /\ Grow(h, i) = 0
                BY <2>1, <3>1
            <4> QED
                BY <4>1
        <3>2. CASE i # 0
            <4>1. i - 1 \in 0 .. k /\ i - 1 \in 0 .. k + 1 /\ i - 1 # k + 1
                BY <3>2
            <4>2. h[i - 1] = g[i - 1]
                BY <4>1
            <4> HIDE DEF h
            <4>3. Grow(h, i) = Grow(g, i)
                BY <3>2, <4>2
            <4>4. h[i] = Grow(g, i)
                <5>1. CASE i = k + 1
                    BY <5>1 DEF h
                <5>2. CASE i # k + 1
                    <6>1. i \in 0 .. k
                        BY <5>2
                    <6> HIDE DEF Grow
                    <6> QED
                        BY <2>1, <5>2, <6>1 DEF h
                <5> QED
                    BY <5>1, <5>2
            <4> QED
                BY <4>3, <4>4
        <3> QED
            BY <3>1, <3>2
    <2> HIDE DEF Grow
    <2>3. h = [i \in 0 .. k + 1 |-> h[i]]
        OBVIOUS
    <2>4. h = [i \in 0 .. k + 1 |-> Grow(h, i)]
        <3> HIDE DEF h
        <3> QED
            BY <2>2, <2>3
    <2> HIDE DEF h
    <2> QED
        BY <2>4
<1>3. n \in T
    <2>1. \A k \in 0 .. n : k \in T
        <3> HIDE DEF T
        <3> QED
            BY <1>1, <1>2, Induction
    <2> HIDE DEF T
    <2>2. n \in 0 .. n
        OBVIOUS
    <2> QED
        BY <2>1, <2>2
<1>4. sum = [k \in 0 .. n |-> Grow(sum, k)]
    <2> DEFINE All(g) == [k \in 0 .. n |-> Grow(g, k)]
    <2>1. \E g : g = All(g)
        BY <1>3
    <2>2. sum = CHOOSE g : g = All(g)
        OBVIOUS
    <2>3. sum = All(sum)
        <3> HIDE DEF All, sum
        <3> QED
            BY <2>1, <2>2
    <2> HIDE DEF Grow, sum
    <2> QED
        BY <2>3
<1>5. Total(s) = sum[n]
    BY DEF Total
<1> HIDE DEF sum
<1>6. ASSUME NEW k \in 0 .. n
      PROVE  sum[k] = Grow(sum, k)
    <2> HIDE DEF Grow
    <2> QED
        BY <1>4
<1>7. sum[0] = 0
    BY <1>6
<1>8. ASSUME NEW k \in 1 .. n
      PROVE  sum[k] = sum[k - 1] + s[k]
    <2>1. k \in 0 .. n /\ k # 0
        OBVIOUS
    <2> QED
        BY <1>6, <2>1
<1> QED
    BY <1>5, <1>7, <1>8

\* A function that obeys the recursion gives the sum.
LEMMA TotalUnique ==
    ASSUME NEW s, Len(s) \in Nat, NEW g, g[0] = 0,
           \A k \in 1 .. Len(s) : g[k] = g[k - 1] + s[k]
    PROVE  Total(s) = g[Len(s)]
<1> DEFINE n == Len(s)
<1>1. PICK sum : /\ Total(s) = sum[n]
                 /\ sum[0] = 0
                 /\ \A k \in 1 .. n : sum[k] = sum[k - 1] + s[k]
    BY TotalEquation
<1> DEFINE T == {k \in 0 .. n : sum[k] = g[k]}
<1>2. 0 \in T
    BY <1>1
<1>3. ASSUME NEW k \in 0 .. n - 1, k \in T
      PROVE  k + 1 \in T
    <2>1. k + 1 \in 1 .. n /\ k + 1 \in 0 .. n /\ k + 1 - 1 = k
        OBVIOUS
    <2>2. sum[k + 1] = sum[k] + s[k + 1] /\ g[k + 1] = g[k] + s[k + 1]
        BY <1>1, <2>1
    <2> QED
        BY <1>3, <2>1, <2>2
<1>4. \A k \in 0 .. n : k \in T
    <2>1. n \in Nat
        OBVIOUS
    <2> HIDE DEF T, n
    <2> QED
        BY <1>2, <1>3, <2>1, Induction
<1>5. n \in 0 .. n
    OBVIOUS
<1> QED
    BY <1>1, <1>4, <1>5

LEMMA TotalType ==
    ASSUME NEW s \in Seq(Nat)
    PROVE  Total(s) \in Nat
<1> DEFINE n == Len(s)
<1>1. PICK sum : /\ Total(s) = sum[n]
                 /\ sum[0] = 0
                 /\ \A k \in 1 .. n : sum[k] = sum[k - 1] + s[k]
    BY TotalEquation
<1> DEFINE T == {k \in 0 .. n : sum[k] \in Nat}
<1>2. 0 \in T
    BY <1>1
<1>3. ASSUME NEW k \in 0 .. n - 1, k \in T
      PROVE  k + 1 \in T
    <2>1. k + 1 \in 1 .. n /\ k + 1 \in 0 .. n /\ k + 1 - 1 = k
        OBVIOUS
    <2>2. sum[k + 1] = sum[k] + s[k + 1]
        BY <1>1, <2>1
    <2>3. s[k + 1] \in Nat
        BY <2>1
    <2> QED
        BY <1>3, <2>1, <2>2, <2>3
<1>4. \A k \in 0 .. n : k \in T
    <2>1. n \in Nat
        OBVIOUS
    <2> HIDE DEF T, n
    <2> QED
        BY <1>2, <1>3, <2>1, Induction
<1>5. n \in 0 .. n
    OBVIOUS
<1> QED
    BY <1>1, <1>4, <1>5

LEMMA TotalEmpty ==
    ASSUME NEW s, Len(s) = 0
    PROVE  Total(s) = 0
<1>1. PICK sum : Total(s) = sum[Len(s)] /\ sum[0] = 0
    BY TotalEquation
<1> QED
    BY <1>1

LEMMA TotalAppend ==
    ASSUME NEW s \in Seq(Nat), NEW x \in Nat
    PROVE  Total(Append(s, x)) = Total(s) + x
<1> DEFINE n == Len(s)
           t == Append(s, x)
<1>0. n \in Nat /\ Len(t) \in Nat /\ Len(t) = n + 1 /\ t[n + 1] = x /\ \A k \in 1 .. n : t[k] = s[k]
    OBVIOUS
<1> HIDE DEF t
<1>1. PICK sum : /\ Total(t) = sum[n + 1]
                 /\ sum[0] = 0
                 /\ \A k \in 1 .. n + 1 : sum[k] = sum[k - 1] + t[k]
    <2>1. Len(t) = n + 1 /\ Len(t) \in Nat
        BY <1>0
    <2>2. PICK sum : /\ Total(t) = sum[Len(t)]
                     /\ sum[0] = 0
                     /\ \A k \in 1 .. Len(t) : sum[k] = sum[k - 1] + t[k]
        BY <2>1, TotalEquation
    <2> QED
        BY <2>1, <2>2
<1>2. \A k \in 1 .. n : sum[k] = sum[k - 1] + s[k]
    <2>1. ASSUME NEW k \in 1 .. n
          PROVE  sum[k] = sum[k - 1] + s[k]
        <3>1. k \in 1 .. n + 1
            BY <1>0
        <3> QED
            BY <1>0, <1>1, <3>1
    <2> QED
        BY <2>1
<1>3. Total(s) = sum[n]
    BY <1>0, <1>1, <1>2, TotalUnique
<1>4. sum[n + 1] = sum[n] + t[n + 1]
    <2>1. n + 1 \in 1 .. n + 1 /\ n + 1 - 1 = n
        BY <1>0
    <2> QED
        BY <1>1, <2>1
<1> QED
    BY <1>0, <1>1, <1>3, <1>4 DEF t


-----------------------------------------------------------------------------
(* The invariants.                                                          *)

\* /options says what the image says, but for what is refused.
OptionsAgree == \A v \in Vars : v \notin Secure /\ v \notin refused =>
                    options[v] = Effective(image)[v]

\* The last record says what the image says, unless its write has failed.
LastIsImage == nvpc = "idle" /\ ~apart /\ InSight => Stored = Effective(image)

KeptInv ==
    /\ options = [v \in Vars |-> options[v]]
    /\ \E S : log \in Seq(S)
    /\ OptionsAgree
    /\ LastIsImage

\* A record that is to be written fits.
Fits == /\ nvpc \in {"store", "erase", "write"} => ImageLen(image) + 7 <= Size
        /\ nvpc = "write" => End + ImageLen(image) + 7 <= Size

\* Without torn headers, each record is what store_nvram made of an image.
LogWhole == \A i \in 1 .. Len(log) : \E f \in Images : log[i] = Record(f)

LogInv == NvramTypeOK /\ image \in Images /\ LogWhole /\ Fits

\* A restart gives what it gave before the change, or what it gives after it.
BeforeOrAfter == InSight => Stored \in {before, Effective(image)} \/ log = <<>>
-----------------------------------------------------------------------------
(* Images and the log.                                                      *)

LEMMA Sequence ==
    ASSUME NEW S, IsFiniteSet(S)
    PROVE  Len(SetToSeq(S)) \in Nat /\ SetToSeq(S) \in [1 .. Len(SetToSeq(S)) -> S]
<1> DEFINE n == Cardinality(S)
<1>1. n \in Nat /\ ExistsBijection(1 .. n, S)
    BY FS_CardinalityType
<1>2. PICK g \in [1 .. n -> S] : IsInjective(g)
    BY <1>1 DEF ExistsBijection, Bijection, Injection
<1>3. SetToSeq(S) \in [1 .. n -> S]
    BY <1>2 DEF SetToSeq
<1>4. Len(SetToSeq(S)) = n
    <2> DEFINE s == SetToSeq(S)
    <2>1. s \in Seq(S) /\ DOMAIN s = 1 .. n
        BY <1>1, <1>3
    <2> HIDE DEF s, n
    <2>2. DOMAIN s = 1 .. Len(s) /\ Len(s) \in Nat
        BY <2>1
    <2>3. 1 .. Len(s) = 1 .. n
        BY <2>1, <2>2
    <2>4. \A i, k \in Nat : i < k => k \in 1 .. k /\ k \notin 1 .. i
        OBVIOUS
    <2>5. ~(Len(s) < n) /\ ~(n < Len(s))
        BY <1>1, <2>2, <2>3, <2>4
    <2>6. \A i, k \in Nat : ~(i < k) /\ ~(k < i) => i = k
        OBVIOUS
    <2>7. Len(s) = n
        BY <1>1, <2>2, <2>5, <2>6
    <2> QED
        BY <2>7 DEF s
<1> QED
    BY <1>1, <1>3, <1>4

LEMMA ImageFacts ==
    ASSUME NEW f \in Images
    PROVE  /\ IsFiniteSet(DOMAIN f) /\ DOMAIN f \subseteq Vars
           /\ f \in [DOMAIN f -> Values]
           /\ Effective(f) \in [Vars -> Values]
<1>1. DOMAIN f \subseteq Vars /\ f \in [DOMAIN f -> Values]
    BY DEF Images
<1>2. IsFiniteSet(DOMAIN f)
    BY <1>1, NvramAssumption, FS_Subset
<1>3. Effective(f) \in [Vars -> Values]
    BY <1>1, NvramAssumption DEF Effective, Some
<1> QED
    BY <1>1, <1>2, <1>3

LEMMA ImageLenType ==
    ASSUME NEW f \in Images
    PROVE  ImageLen(f) \in Nat
<1> DEFINE vs == SetToSeq(DOMAIN f)
           s == [i \in 1 .. Len(vs) |-> EntryLen[f[vs[i]]]]
<1>1. Len(vs) \in Nat /\ vs \in [1 .. Len(vs) -> DOMAIN f]
    BY ImageFacts, Sequence
<1> HIDE DEF vs
<1>2. \A i \in 1 .. Len(vs) : EntryLen[f[vs[i]]] \in Nat
    BY <1>1, ImageFacts, NvramAssumption
<1>3. s \in Seq(Nat)
    BY <1>1, <1>2
<1> HIDE DEF s
<1>4. Total(s) \in Nat
    BY <1>3, TotalType
<1> QED
    BY <1>4 DEF ImageLen, s, vs

LEMMA EmptyImage == Empty \in Images /\ ImageLen(Empty) = 0 /\ Effective(Empty) = Default
<1>1. Empty \in [{} -> Values]
    BY DEF Empty
<1>2. DOMAIN Empty = {}
    BY DEF Empty
<1>3. Empty \in Images
    BY <1>1 DEF Images
<1>4. ImageLen(Empty) = 0
    <2> DEFINE vs == SetToSeq({})
               s == [i \in 1 .. Len(vs) |-> EntryLen[Empty[vs[i]]]]
    <2>1. Len(vs) \in Nat /\ vs \in [1 .. Len(vs) -> {}]
        BY FS_EmptySet, Sequence
    <2> HIDE DEF vs
    <2>2. Len(vs) = 0
        <3>1. CASE Len(vs) # 0
            <4>1. 1 \in 1 .. Len(vs)
                BY <2>1, <3>1
            <4> QED
                BY <2>1, <4>1
        <3> QED
            BY <3>1
    <2>3. Len(s) = 0
        BY <2>2
    <2> HIDE DEF s
    <2>4. Total(s) = 0
        BY <2>3, TotalEmpty
    <2> QED
        BY <1>2, <2>4 DEF ImageLen, s, vs
<1>5. Effective(Empty) = Default
    BY <1>2, NvramAssumption DEF Effective, Some
<1> QED
    BY <1>3, <1>4, <1>5

\* setenv changes one variable and no other.
LEMMA ChangedSelf ==
    ASSUME NEW f, NEW v \in Vars, NEW x
    PROVE  Effective(Changed(f, v, x))[v] = x
<1>1. Some(Changed(f, v, x), v) <=> x # Default[v]
    BY DEF Changed, Some
<1>2. Some(Changed(f, v, x), v) => Changed(f, v, x)[v] = x
    BY DEF Changed, Some
<1> QED
    BY <1>1, <1>2 DEF Effective

LEMMA ChangedFacts ==
    ASSUME NEW f, NEW v \in Vars, NEW x
    PROVE  /\ \A w \in Vars \ {v} : Effective(Changed(f, v, x))[w] = Effective(f)[w]
           /\ f \in Images /\ x \in Values => Changed(f, v, x) \in Images
<1>1. \A w \in Vars : Some(Changed(f, v, x), w) <=>
          IF w = v THEN x # Default[v] ELSE Some(f, w)
    BY DEF Changed, Some
<1>2. \A w \in Vars : Some(Changed(f, v, x), w) =>
          Changed(f, v, x)[w] = IF w = v THEN x ELSE f[w]
    BY DEF Changed, Some
<1>3. \A w \in Vars \ {v} : Effective(Changed(f, v, x))[w] = Effective(f)[w]
    BY <1>1, <1>2 DEF Effective
<1>4. ASSUME f \in Images, x \in Values
      PROVE  Changed(f, v, x) \in Images
    <2> DEFINE D == IF x = Default[v] THEN DOMAIN f \ {v} ELSE (DOMAIN f \ {v}) \union {v}
    <2>1. DOMAIN f \subseteq Vars /\ f \in [DOMAIN f -> Values]
        BY <1>4, ImageFacts
    <2>2. D \subseteq Vars
        BY <2>1
    <2>3. Changed(f, v, x) = [w \in D |-> IF w = v THEN x ELSE f[w]]
        BY DEF Changed
    <2>4. \A w \in D : (IF w = v THEN x ELSE f[w]) \in Values
        BY <1>4, <2>1
    <2>5. Changed(f, v, x) \in [D -> Values]
        <3> HIDE DEF D
        <3> QED
            BY <2>3, <2>4
    <2> HIDE DEF D
    <2> QED
        BY <2>2, <2>5 DEF Images
<1> QED
    BY <1>3, <1>4

Lens(l) == [i \in 1 .. Len(l) |-> l[i].len + 7]

LEMMA EndFacts ==
    ASSUME NEW l \in Seq(Records)
    PROVE  Lens(l) \in Seq(Nat) /\ Total(Lens(l)) \in Nat
<1>1. \A i \in 1 .. Len(l) : l[i].len + 7 \in Nat
    <2>1. \A i \in 1 .. Len(l) : l[i] \in Records
        OBVIOUS
    <2> QED
        BY <2>1, NvramAssumption DEF Records
<1>2. Lens(l) \in Seq(Nat)
    BY <1>1 DEF Lens
<1> QED
    BY <1>2, TotalType

LEMMA EndAppend ==
    ASSUME NEW l \in Seq(Records), NEW r \in Records
    PROVE  Total(Lens(Append(l, r))) = Total(Lens(l)) + r.len + 7
<1> DEFINE m == Append(l, r)
           x == r.len + 7
<1>1. x \in Nat
    BY NvramAssumption DEF Records
<1>2. Len(m) = Len(l) + 1 /\ Len(l) \in Nat /\ m[Len(l) + 1] = r
      /\ \A i \in 1 .. Len(l) : m[i] = l[i]
    OBVIOUS
<1>3. Lens(l) \in Seq(Nat) /\ Total(Lens(l)) \in Nat
    BY EndFacts
<1>4. Lens(m) = Append(Lens(l), x)
    <2>1. Len(Lens(l)) = Len(l)
        BY <1>3 DEF Lens
    <2> HIDE DEF m
    <2>2. DOMAIN Lens(m) = 1 .. Len(l) + 1 /\ DOMAIN Append(Lens(l), x) = 1 .. Len(l) + 1
        BY <1>2, <1>3, <2>1 DEF Lens
    <2>3. ASSUME NEW i \in 1 .. Len(l) + 1
          PROVE  Lens(m)[i] = Append(Lens(l), x)[i]
        <3>1. Lens(m)[i] = m[i].len + 7
            BY <1>2 DEF Lens
        <3>2. CASE i = Len(l) + 1
            <4>1. Append(Lens(l), x)[i] = x
                BY <1>3, <2>1, <3>2
            <4> QED
                BY <1>2, <3>1, <3>2, <4>1
        <3>3. CASE i # Len(l) + 1
            <4>1. i \in 1 .. Len(l)
                BY <1>2, <3>3
            <4>2. Append(Lens(l), x)[i] = Lens(l)[i]
                BY <1>3, <2>1, <4>1
            <4>3. Lens(l)[i] = l[i].len + 7
                BY <4>1 DEF Lens
            <4> QED
                BY <1>2, <3>1, <4>1, <4>2, <4>3
        <3> QED
            BY <3>2, <3>3
    <2>4. Lens(m) = [i \in 1 .. Len(l) + 1 |-> Lens(m)[i]]
          /\ Append(Lens(l), x) = [i \in 1 .. Len(l) + 1 |-> Append(Lens(l), x)[i]]
        <3>1. Append(Lens(l), x) \in Seq(Nat)
            BY <1>1, <1>3
        <3> DEFINE y == Append(Lens(l), x)
        <3> HIDE DEF y
        <3>2. y = [i \in 1 .. Len(y) |-> y[i]] /\ DOMAIN y = 1 .. Len(y)
            BY <3>1 DEF y
        <3>3. Lens(m) = [i \in 1 .. Len(l) + 1 |-> Lens(m)[i]]
            BY <1>2 DEF Lens
        <3> QED
            BY <2>2, <3>2, <3>3 DEF y
    <2> QED
        BY <2>3, <2>4
<1>5. Total(Append(Lens(l), x)) = Total(Lens(l)) + x
    BY <1>1, <1>3, TotalAppend
<1>6. r.len \in Nat
    BY NvramAssumption DEF Records
<1> HIDE DEF m
<1> QED
    BY <1>3, <1>4, <1>5, <1>6 DEF m

-----------------------------------------------------------------------------
(* What is kept.                                                            *)

LEMMA SameLog ==
    ASSUME UNCHANGED log
    PROVE  Stored' = Stored /\ InSight' = InSight /\ End' = End
<1>1. End' = End
    BY DEF End, Place
<1>2. Found' = Found
    BY <1>1 DEF Found
<1>3. machine_nvram_read' = machine_nvram_read
    BY <1>2 DEF machine_nvram_read
<1> QED
    BY <1>1, <1>2, <1>3 DEF Stored, InSight

\* A record that has just been written is the one that a restart reads.
LEMMA WrittenIsStored ==
    ASSUME NEW S, log \in Seq(S), NEW f, log' = Append(log, Record(f)), InSight'
    PROVE  Stored' = Effective(f)
<1> DEFINE r == Record(f)
           m == Append(log, r)
<1>1. Len(m) = Len(log) + 1 /\ m[Len(m)] = r /\ m # <<>>
    <2>1. log \in Seq(S \union {r}) /\ r \in S \union {r}
        OBVIOUS
    <2> HIDE DEF r
    <2> QED
        BY <2>1
<1>2. r.whole = TRUE /\ r.vars = f
    BY DEF Record
<1> HIDE DEF m, r
<1>3. log' = m
    BY DEF m, r
<1>4. Found'
    BY <1>1, <1>3 DEF InSight
<1>5. Contents(r) = f
    BY <1>2 DEF Contents
<1>6. machine_nvram_read' = f
    BY <1>1, <1>3, <1>4, <1>5 DEF machine_nvram_read
<1> QED
    BY <1>6 DEF Stored

LEMMA KeptInit ==
    ASSUME NvramInit
    PROVE  KeptInv
<1>1. Effective(Empty) = Default /\ Default = [v \in Vars |-> Default[v]]
    BY EmptyImage, NvramAssumption
<1>2. <<>> \in Seq({})
    OBVIOUS
<1> QED
    BY <1>1, <1>2 DEF NvramInit, KeptInv, OptionsAgree, LastIsImage

\* The value that is set gets into the image, or the variable is refused.
LEMMA KeptSet ==
    ASSUME KeptInv, NEW v \in Vars, NEW x \in Values, nvpc = "idle", set_nvram(v, x),
           \/ v \in Secure /\ UNCHANGED options
           \/ v \notin Secure /\ options' = [options EXCEPT ![v] = x],
           UNCHANGED <<log, apart>>
    PROVE  KeptInv'
<1>1. options' = [w \in Vars |-> options'[w]]
    BY DEF KeptInv
<1>2. \A w \in Vars : w \notin Secure => options'[w] = IF w = v THEN x ELSE options[w]
    BY DEF KeptInv
<1>3. \/ image' = image /\ refused' = refused \union {v} /\ nvpc' = nvpc
      \/ image' = Changed(image, v, x) /\ refused' = refused \ {v} /\ nvpc' = "store"
    BY DEF set_nvram
<1>4. OptionsAgree'
    <2>1. CASE image' = image /\ refused' = refused \union {v}
        <3>1. ASSUME NEW w \in Vars, w \notin Secure, w \notin refused'
              PROVE  options'[w] = Effective(image')[w]
            <4>1. w # v /\ w \notin refused
                BY <2>1, <3>1
            <4>2. options[w] = Effective(image)[w]
                BY <3>1, <4>1 DEF KeptInv, OptionsAgree
            <4> QED
                BY <1>2, <2>1, <3>1, <4>1, <4>2
        <3> QED
            BY <3>1 DEF OptionsAgree
    <2>2. CASE image' = Changed(image, v, x) /\ refused' = refused \ {v}
        <3>1. ASSUME NEW w \in Vars, w \notin Secure, w \notin refused'
              PROVE  options'[w] = Effective(image')[w]
            <4>1. CASE w = v
                <5>1. Effective(Changed(image, v, x))[v] = x
                    BY ChangedSelf
                <5>2. options'[w] = x
                    BY <1>2, <3>1, <4>1
                <5> QED
                    BY <2>2, <4>1, <5>1, <5>2
            <4>2. CASE w # v
                <5>1. options[w] = Effective(image)[w]
                    BY <2>2, <3>1, <4>2 DEF KeptInv, OptionsAgree
                <5>2. Effective(Changed(image, v, x))[w] = Effective(image)[w]
                    BY <4>2, ChangedFacts
                <5> QED
                    BY <1>2, <2>2, <3>1, <4>2, <5>1, <5>2
            <4> QED
                BY <4>1, <4>2
        <3> QED
            BY <3>1 DEF OptionsAgree
    <2> QED
        BY <1>3, <2>1, <2>2
<1>5. LastIsImage'
    BY <1>3, SameLog DEF KeptInv, LastIsImage
<1> QED
    BY <1>1, <1>4, <1>5 DEF KeptInv

\* Or nothing is saved.
LEMMA KeptSave ==
    ASSUME KeptInv, NEW v \in Vars, NEW x \in Values, nvpc = "idle", Save(v, x),
           UNCHANGED <<log, apart>>
    PROVE  KeptInv'
<1>1. CASE v \in Secure /\ set_nvram(v, x) /\ UNCHANGED options
    BY <1>1, KeptSet
<1>2. CASE v \notin Secure /\ set_nvram(v, x) /\ options' = [options EXCEPT ![v] = x]
    BY <1>2, KeptSet
<1>3. CASE UNCHANGED <<nvpc, options, image, refused>>
    <2>1. Stored' = Stored /\ InSight' = InSight
        BY SameLog
    <2> QED
        BY <1>3, <2>1 DEF KeptInv, OptionsAgree, LastIsImage
<1> QED
    BY <1>1, <1>2, <1>3 DEF Save, save_config

LEMMA KeptStep ==
    ASSUME KeptInv, [NvramNext]_nvVars
    PROVE  KeptInv'
<1>1. CASE \E skip \in BOOLEAN : Boot(skip)
    <2>1. PICK skip \in BOOLEAN : Boot(skip)
        BY <1>1
    <2>2. Stored' = Stored
        BY <2>1, SameLog DEF Boot
    <2>3. options' = [v \in Vars |-> options'[v]]
        BY <2>1 DEF Boot
    <2>4. OptionsAgree'
        <3>1. \A v \in Vars : v \notin Secure => options'[v] = Effective(image')[v]
            BY <2>1 DEF Boot
        <3> QED
            BY <3>1 DEF OptionsAgree
    <2>5. LastIsImage'
        BY <2>1, <2>2 DEF Boot, LastIsImage
    <2> QED
        BY <2>1, <2>3, <2>4, <2>5 DEF Boot, KeptInv
<1>2. CASE \E v \in Vars, x \in Values : f_dsetenv(v, x)
    <2>1. PICK v \in Vars, x \in Values : f_dsetenv(v, x)
        BY <1>2
    <2> QED
        BY <2>1, KeptSave DEF f_dsetenv
<1>11. CASE \E v \in Vars, x \in Values : f_password(v, x) \/ SaveNext(v, x)
    <2>1. PICK v \in Vars, x \in Values : f_password(v, x) \/ SaveNext(v, x)
        BY <1>11
    <2>2. BadLogins \in Vars /\ NoLogins \in Values
        BY NvramAssumption
    <2> QED
        BY <2>1, <2>2, KeptSave DEF f_password, SaveNext
<1>12. CASE f_set_defaults /\ UNCHANGED <<nvpc, image>>
    <2>1. UNCHANGED <<log, apart>> /\ Stored' = Stored /\ InSight' = InSight
        BY <1>12, SameLog DEF f_set_defaults
    <2>2. PICK V \in SUBSET Vars :
              /\ options' = [v \in Vars |-> IF v \in V THEN Default[v] ELSE options[v]]
              /\ refused' = refused \union {v \in V : Effective(image)[v] # Default[v]}
        BY <1>12 DEF f_set_defaults, reset_nvram
    <2>3. options' = [v \in Vars |-> options'[v]]
        BY <2>2
    <2>4. OptionsAgree'
        BY <1>12, <2>2 DEF KeptInv, OptionsAgree
    <2> QED
        BY <1>12, <2>1, <2>3, <2>4 DEF KeptInv, LastIsImage
<1>3. CASE f_set_defaults /\ nvpc' = "store"
    <2>1. options' = Default /\ image' = Empty /\ nvpc' = "store" /\ UNCHANGED log
        BY <1>3 DEF f_set_defaults, reset_nvram, Fails
    <2>2. Effective(Empty) = Default /\ Default = [v \in Vars |-> Default[v]]
        BY EmptyImage, NvramAssumption
    <2> QED
        BY <2>1, <2>2 DEF KeptInv, OptionsAgree, LastIsImage
<1>4. CASE FindPlace
    BY <1>4 DEF FindPlace, KeptInv, OptionsAgree, LastIsImage
<1>5. CASE EraseFlash
    <2>1. <<>> \in Seq({})
        OBVIOUS
    <2> QED
        BY <1>5, <2>1 DEF EraseFlash, KeptInv, OptionsAgree, LastIsImage
<1>6. CASE NoBuffer \/ WriteFails
    <2>1. UNCHANGED <<options, image, log, refused>> /\ apart'
        BY <1>6 DEF NoBuffer, WriteFails
    <2> QED
        BY <2>1 DEF KeptInv, OptionsAgree, LastIsImage
<1>7. CASE WriteRecord
    <2>1. PICK S : log \in Seq(S)
        BY DEF KeptInv
    <2>2. InSight' => Stored' = Effective(image')
        BY <1>7, <2>1, WrittenIsStored DEF WriteRecord
    <2> DEFINE r == Record(image)
    <2>3. log' \in Seq(S \union {r})
        <3>1. log \in Seq(S \union {r}) /\ r \in S \union {r} /\ log' = Append(log, r)
            BY <1>7, <2>1 DEF WriteRecord
        <3> HIDE DEF r
        <3> QED
            BY <3>1
    <2> HIDE DEF r
    <2> QED
        BY <1>7, <2>2, <2>3 DEF WriteRecord, KeptInv, OptionsAgree, LastIsImage
<1>8. CASE PowerOff
    BY <1>8 DEF PowerOff, KeptInv, OptionsAgree, LastIsImage
<1>9. CASE Crash
    <2>1. UNCHANGED <<options, image, refused>> /\ nvpc' = "off"
        BY <1>9 DEF Crash
    <2>2. PICK S : log \in Seq(S)
        BY DEF KeptInv
    <2> DEFINE r == [Record(image) EXCEPT !.whole = FALSE]
    <2>3. log' = log \/ log' = <<>> \/ log' = Append(log, r)
        BY <1>9 DEF Crash
    <2>4. log' \in Seq(S \union {r})
        <3>1. log \in Seq(S \union {r}) /\ r \in S \union {r}
            BY <2>2
        <3>2. <<>> \in Seq(S \union {r})
            OBVIOUS
        <3> HIDE DEF r
        <3>3. Append(log, r) \in Seq(S \union {r})
            BY <3>1
        <3> QED
            BY <2>3, <3>1, <3>2, <3>3
    <2> HIDE DEF r
    <2> QED
        BY <2>1, <2>4 DEF KeptInv, OptionsAgree, LastIsImage
<1>10. CASE UNCHANGED nvVars
    <2>1. UNCHANGED <<nvpc, options, image, log, apart, refused>>
        BY <1>10 DEF nvVars
    <2>2. Stored' = Stored /\ InSight' = InSight
        BY <2>1, SameLog
    <2> QED
        BY <2>1, <2>2 DEF KeptInv, OptionsAgree, LastIsImage
<1>13. f_set_defaults => nvpc' = "store" \/ UNCHANGED <<nvpc, image>>
    BY DEF f_set_defaults, reset_nvram
<1> QED
    BY <1>1, <1>2, <1>3, <1>4, <1>5, <1>6, <1>7, <1>8, <1>9, <1>10, <1>11, <1>12, <1>13
    DEF NvramNext

LEMMA KeptInvImplies ==
    ASSUME KeptInv, InSight
    PROVE  Kept
<1>1. ASSUME nvpc = "idle", ~apart, NEW v \in Vars \ refused
      PROVE  Stored[v] = Current[v]
    <2>1. Stored = Effective(image)
        BY <1>1 DEF KeptInv, LastIsImage
    <2>2. v \notin Secure => options[v] = Effective(image)[v]
        BY <1>1 DEF KeptInv, OptionsAgree
    <2>3. Current[v] = IF v \in Secure THEN Effective(image)[v] ELSE options[v]
        BY <1>1 DEF Current
    <2> QED
        BY <2>1, <2>2, <2>3
<1> QED
    BY <1>1 DEF Kept

\* What the variables are now is what a restart gives, unless the last write
\* has failed or the value has not got into the image: for any variables, any
\* records and however often power is lost, even in the middle of a header, as
\* long as nvram_offset finds the last record.  NvramFull shows a log in which
\* it does not.
THEOREM KeptInSight == NvramSpec => [](InSight => Kept)
<1>1. NvramInit => KeptInv
    BY KeptInit
<1>2. KeptInv /\ [NvramNext]_nvVars => KeptInv'
    BY KeptStep
<1>3. KeptInv => (InSight => Kept)
    BY KeptInvImplies
<1> QED
    BY <1>1, <1>2, <1>3, PTL DEF NvramSpec

-----------------------------------------------------------------------------
(* Old or new: the types and lengths that hold when no header is torn.      *)

LEMMA EndIsTotal == End = Total(Lens(log))
    BY DEF End, Place, Lens

LEMMA ReadFacts ==
    ASSUME LogInv
    PROVE  machine_nvram_read \in Images /\ Stored \in [Vars -> Values]
<1>1. machine_nvram_read \in Images
    <2>1. CASE Found
        <3>1. Len(log) \in 1 .. Len(log)
            BY <2>1 DEF LogInv, NvramTypeOK, Found
        <3>2. PICK f \in Images : log[Len(log)] = Record(f)
            BY <3>1 DEF LogInv, LogWhole
        <3>3. Contents(Record(f)) = f
            BY DEF Contents, Record
        <3> QED
            BY <2>1, <3>2, <3>3 DEF machine_nvram_read
    <2>2. CASE ~Found
        BY <2>2, EmptyImage DEF machine_nvram_read
    <2> QED
        BY <2>1, <2>2
<1> QED
    BY <1>1, ImageFacts DEF Stored

LEMMA Typing ==
    /\ \A f \in [Vars -> Values] : f \in [Vars -> Values \union {Garbage}]
    /\ \A f \in Images : f \in UNION {[V -> Values \union {Garbage}] : V \in SUBSET Vars}
<1>1. ASSUME NEW f \in Images
      PROVE  f \in UNION {[V -> Values \union {Garbage}] : V \in SUBSET Vars}
    <2>1. DOMAIN f \in SUBSET Vars /\ f \in [DOMAIN f -> Values \union {Garbage}]
        BY ImageFacts
    <2> QED
        BY <2>1
<1>2. ASSUME NEW f \in [Vars -> Values]
      PROVE  f \in [Vars -> Values \union {Garbage}]
    OBVIOUS
<1> QED
    BY <1>1, <1>2

LEMMA LogInit ==
    ASSUME NvramInit
    PROVE  LogInv
<1>1. log = <<>> /\ image = Empty /\ options = Default /\ before = Default
    BY DEF NvramInit
<1>2. End = 0
    <2>1. Len(Lens(log)) = 0
        BY <1>1 DEF Lens
    <2> QED
        BY <2>1, EndIsTotal, TotalEmpty
<1>3. NvramTypeOK
    <2>1. Default \in [Vars -> Values \union {Garbage}] /\ Size \in Nat
          /\ MaxCrashes \in Nat /\ MaxFailures \in Nat
        BY Typing, NvramAssumption
    <2>2. image \in UNION {[V -> Values \union {Garbage}] : V \in SUBSET Vars}
        BY <1>1, EmptyImage, Typing
    <2>3. log \in Seq(Records)
        BY <1>1
    <2>4. nvleft \in [crashes : 0 .. MaxCrashes, failures : 0 .. MaxFailures]
        BY <2>1 DEF NvramInit
    <2>5. off \in 0 .. Size /\ lastoff \in 0 .. Size /\ End <= Size
        BY <1>2, <2>1 DEF NvramInit
    <2>6. /\ nvpc = "off" /\ dirty = FALSE /\ apart = FALSE /\ refused = {} /\ pending = {}
        BY DEF NvramInit
    <2> QED
        BY <1>1, <2>1, <2>2, <2>3, <2>4, <2>5, <2>6 DEF NvramTypeOK
<1>4. LogWhole
    BY <1>1 DEF LogWhole
<1>5. Fits
    BY DEF NvramInit, Fits
<1> QED
    BY <1>1, <1>3, <1>4, <1>5, EmptyImage DEF LogInv

\* What does not touch the log or the image may do as it likes with the rest.
LEMMA LogSame ==
    ASSUME LogInv, UNCHANGED log, image' \in Images,
           nvpc' \in {"off", "idle", "store", "erase", "write"},
           options' \in [Vars -> Values \union {Garbage}],
           before' \in [Vars -> Values \union {Garbage}],
           pending' \subseteq Vars \X Values,
           dirty' \in BOOLEAN, apart' \in BOOLEAN,
           off' \in 0 .. Size, lastoff' \in 0 .. Size, refused' \subseteq Vars,
           nvleft' \in [crashes : 0 .. MaxCrashes, failures : 0 .. MaxFailures],
           Fits'
    PROVE  LogInv'
<1>1. End' = End
    BY SameLog
<1>2. image' \in UNION {[V -> Values \union {Garbage}] : V \in SUBSET Vars}
    BY Typing
<1>3. NvramTypeOK'
    BY <1>1, <1>2 DEF LogInv, NvramTypeOK
<1>4. LogWhole'
    BY DEF LogInv, LogWhole
<1> QED
    BY <1>3, <1>4 DEF LogInv

\* setenv and set-defaults: what is to be written fits.
LEMMA LogChange ==
    ASSUME LogInv, image' \in Images, ImageLen(image') + 7 <= Size, nvpc' = "store",
           before' = Stored, refused' \subseteq Vars,
           options' \in [Vars -> Values \union {Garbage}],
           pending' \subseteq Vars \X Values,
           UNCHANGED <<log, dirty, off, lastoff, apart, nvleft>>
    PROVE  LogInv'
<1>1. before' \in [Vars -> Values \union {Garbage}]
    BY ReadFacts, Typing
<1>2. Fits'
    BY DEF Fits
<1> QED
    BY <1>1, <1>2, LogSame DEF LogInv, NvramTypeOK

LEMMA LogSet ==
    ASSUME LogInv, NEW v \in Vars, NEW x \in Values, nvpc = "idle", set_nvram(v, x),
           options' \in [Vars -> Values \union {Garbage}],
           pending' \subseteq Vars \X Values,
           UNCHANGED <<log, dirty, off, lastoff, apart, nvleft>>
    PROVE  LogInv'
<1> DEFINE new == Changed(image, v, x)
<1>3. new \in Images /\ ImageLen(new) \in Nat
    BY ChangedFacts, ImageLenType DEF LogInv
<1> HIDE DEF new
<1>4. CASE refused' = refused \union {v} /\ UNCHANGED <<nvpc, image, before>>
    <2>1. refused' \subseteq Vars
        BY <1>4 DEF LogInv, NvramTypeOK
    <2>2. Fits'
        BY <1>4 DEF Fits
    <2> QED
        BY <1>4, <2>1, <2>2, LogSame DEF LogInv, NvramTypeOK
<1>5. CASE ~TooLong(new) /\ image' = new /\ refused' = refused \ {v} /\ before' = Stored
           /\ nvpc' = "store"
    <2>1. ImageLen(new) + 7 <= Size
        BY <1>3, <1>5, NvramAssumption DEF TooLong
    <2>2. refused' \subseteq Vars
        BY <1>5 DEF LogInv, NvramTypeOK
    <2> QED
        BY <1>3, <1>5, <2>1, <2>2, LogChange
<1> QED
    BY <1>4, <1>5 DEF set_nvram, new

LEMMA FailsTyped ==
    ASSUME LogInv, Fails
    PROVE  nvleft' \in [crashes : 0 .. MaxCrashes, failures : 0 .. MaxFailures]
<1>1. nvleft.failures > 0 /\ nvleft' = [nvleft EXCEPT !.failures = @ - 1]
    BY DEF Fails
<1>2. nvleft \in [crashes : 0 .. MaxCrashes, failures : 0 .. MaxFailures]
    BY DEF LogInv, NvramTypeOK
<1>3. MaxFailures \in Nat
    BY NvramAssumption
<1> QED
    BY <1>1, <1>2, <1>3

LEMMA LogSave ==
    ASSUME LogInv, NEW v \in Vars, NEW x \in Values, nvpc = "idle", Save(v, x),
           pending' \subseteq Vars \X Values,
           UNCHANGED <<log, dirty, off, lastoff, apart>>
    PROVE  LogInv'
<1>1. CASE v \in Secure /\ set_nvram(v, x) /\ UNCHANGED <<options, nvleft>>
    <2>1. options' \in [Vars -> Values \union {Garbage}]
        BY <1>1 DEF LogInv, NvramTypeOK
    <2> QED
        BY <1>1, <2>1, LogSet
<1>2. CASE /\ set_nvram(v, x) /\ options' = [options EXCEPT ![v] = x]
           /\ UNCHANGED nvleft
    <2>1. options' \in [Vars -> Values \union {Garbage}]
        BY <1>2 DEF LogInv, NvramTypeOK
    <2> QED
        BY <1>2, <2>1, LogSet
<1>3. CASE Fails /\ UNCHANGED <<nvpc, options, image, refused, before>>
    <2>1. Fits'
        BY <1>3 DEF Fits
    <2> QED
        BY <1>3, <2>1, FailsTyped, LogSame DEF LogInv, NvramTypeOK
<1> QED
    BY <1>1, <1>2, <1>3 DEF Save, save_config

LEMMA LogWritten ==
    ASSUME LogInv, WriteRecord
    PROVE  LogInv'
<1> DEFINE r == Record(image)
<1>1. log' = Append(log, r) /\ nvpc = "write" /\ nvpc' = "idle" /\ lastoff' = off
      /\ apart' = FALSE /\ dirty' = FALSE
      /\ UNCHANGED <<options, image, off, pending, refused, before, nvleft>>
    BY DEF WriteRecord
<1>2. image \in Images /\ ImageLen(image) \in Nat /\ log \in Seq(Records)
    BY ImageLenType DEF LogInv, NvramTypeOK
<1>3. r.len = ImageLen(image) /\ r.vars = image /\ r.whole = TRUE
    BY DEF Record
<1>4. End \in Nat /\ End + ImageLen(image) + 7 <= Size /\ Size \in Nat
    BY <1>1, <1>2, EndIsTotal, EndFacts, NvramAssumption DEF LogInv, Fits
<1>5. r \in Records
    <2>1. ImageLen(image) \in 0 .. Size
        BY <1>2, <1>4
    <2> QED
        BY <1>2, <2>1 DEF Records, Record
<1> HIDE DEF r
<1>6. End' = End + ImageLen(image) + 7
    <2>1. End' = Total(Lens(log'))
        BY DEF End, Place, Lens
    <2> QED
        BY <1>1, <1>2, <1>3, <1>5, <2>1, EndIsTotal, EndAppend
<1>7. log' \in Seq(Records) /\ Len(log') = Len(log) + 1 /\ log'[Len(log) + 1] = r
      /\ \A i \in 1 .. Len(log) : log'[i] = log[i]
    BY <1>1, <1>2, <1>5
<1>8. LogWhole'
    <2>1. ASSUME NEW i \in 1 .. Len(log')
          PROVE  \E f \in Images : log'[i] = Record(f)
        <3>1. CASE i = Len(log) + 1
            BY <1>2, <1>7, <3>1 DEF r
        <3>2. CASE i # Len(log) + 1
            <4>1. i \in 1 .. Len(log)
                BY <1>2, <1>7, <3>2
            <4> QED
                BY <1>7, <4>1 DEF LogInv, LogWhole
        <3> QED
            BY <3>1, <3>2
    <2> QED
        BY <2>1 DEF LogWhole
<1>9. NvramTypeOK'
    BY <1>1, <1>4, <1>6, <1>7 DEF LogInv, NvramTypeOK
<1>10. Fits'
    BY <1>1 DEF Fits
<1> QED
    BY <1>1, <1>2, <1>8, <1>9, <1>10 DEF LogInv

\* The log is empty.
LEMMA LogErased ==
    ASSUME LogInv, log' = <<>>, dirty' = FALSE, nvpc' \in {"off", "write"},
           nvpc \in {"erase", "write"},
           nvleft' \in [crashes : 0 .. MaxCrashes, failures : 0 .. MaxFailures],
           pending' \subseteq Vars \X Values,
           UNCHANGED <<options, image, off, lastoff, apart, refused, before>>
    PROVE  LogInv'
<1>1. End' = 0
    <2>1. Len(Lens(log')) = 0
        BY DEF Lens
    <2>2. End' = Total(Lens(log'))
        BY DEF End, Place, Lens
    <2> QED
        BY <2>1, <2>2, TotalEmpty
<1>2. ImageLen(image) \in Nat /\ ImageLen(image) + 7 <= Size /\ Size \in Nat
    BY ImageLenType, NvramAssumption DEF LogInv, Fits
<1>3. Fits'
    BY <1>1, <1>2 DEF Fits
<1>4. log' \in Seq(Records)
    OBVIOUS
<1>5. NvramTypeOK'
    <2>1. End' <= Size
        BY <1>1, <1>2
    <2> QED
        BY <1>4, <2>1 DEF LogInv, NvramTypeOK
<1>6. LogWhole'
    BY DEF LogWhole
<1> QED
    BY <1>3, <1>5, <1>6 DEF LogInv

LEMMA LogStep ==
    ASSUME ~Torn, LogInv, [NvramNext]_nvVars
    PROVE  LogInv'
<1>1. CASE \E skip \in BOOLEAN : Boot(skip)
    <2>1. PICK skip \in BOOLEAN : Boot(skip)
        BY <1>1
    <2>2. image' \in Images
        BY <2>1, ReadFacts, EmptyImage DEF Boot, load_nvram
    <2>3. options' \in [Vars -> Values \union {Garbage}]
        <3>1. Effective(image') \in [Vars -> Values]
            BY <2>2, ImageFacts
        <3> QED
            BY <2>1, <3>1, NvramAssumption DEF Boot
    <2>4. before' \in [Vars -> Values \union {Garbage}]
        BY <2>1, ReadFacts, Typing DEF Boot
    <2>5. Fits'
        BY <2>1 DEF Boot, Fits
    <2>6. Size \in 0 .. Size
        BY NvramAssumption
    <2> QED
        BY <2>1, <2>2, <2>3, <2>4, <2>5, <2>6, LogSame DEF Boot, LogInv, NvramTypeOK
<1>2. CASE \E v \in Vars, x \in Values : f_dsetenv(v, x)
    <2>1. PICK v \in Vars, x \in Values : f_dsetenv(v, x)
        BY <1>2
    <2>2. pending' \subseteq Vars \X Values
        BY <2>1, NvramAssumption DEF f_dsetenv
    <2> QED
        BY <2>1, <2>2, LogSave DEF f_dsetenv
<1>11. CASE \E v \in Vars, x \in Values : f_password(v, x) \/ SaveNext(v, x)
    <2>1. PICK v \in Vars, x \in Values : f_password(v, x) \/ SaveNext(v, x)
        BY <1>11
    <2>2. pending' \subseteq Vars \X Values
        BY <2>1 DEF f_password, SaveNext
    <2>3. BadLogins \in Vars /\ NoLogins \in Values
        BY NvramAssumption
    <2> QED
        BY <2>1, <2>2, <2>3, LogSave DEF f_password, SaveNext
<1> DEFINE Halfway ==
        /\ Fails
        /\ \E V \in SUBSET Vars :
              /\ options' = [v \in Vars |-> IF v \in V THEN Default[v] ELSE options[v]]
              /\ refused' = refused \union {v \in V : Effective(image)[v] # Default[v]}
        /\ UNCHANGED <<nvpc, image, before>>
<1>12. CASE f_set_defaults /\ Halfway
    <2>1. PICK V \in SUBSET Vars :
              /\ options' = [v \in Vars |-> IF v \in V THEN Default[v] ELSE options[v]]
              /\ refused' = refused \union {v \in V : Effective(image)[v] # Default[v]}
        BY <1>12
    <2>2. UNCHANGED <<nvpc, image, before, log, dirty, off, lastoff, apart, pending>>
        BY <1>12 DEF f_set_defaults
    <2>3. options' \in [Vars -> Values \union {Garbage}] /\ refused' \subseteq Vars
        BY <2>1, NvramAssumption DEF LogInv, NvramTypeOK
    <2>4. Fits'
        BY <2>2, SameLog DEF LogInv, Fits
    <2> QED
        BY <1>12, <2>2, <2>3, <2>4, FailsTyped, LogSame DEF LogInv, NvramTypeOK
<1>3. CASE f_set_defaults /\ ~Halfway
    <2>4. /\ options' = Default /\ image' = Empty /\ refused' = {} /\ before' = Stored
          /\ nvpc' = "store" /\ UNCHANGED nvleft
        BY <1>3 DEF f_set_defaults, reset_nvram
    <2>1. image' \in Images /\ ImageLen(image') + 7 <= Size
        BY <2>4, EmptyImage, NvramAssumption
    <2>2. options' \in [Vars -> Values \union {Garbage}]
        BY <2>4, Typing, NvramAssumption
    <2>3. pending' \subseteq Vars \X Values
        BY <1>3 DEF f_set_defaults, LogInv, NvramTypeOK
    <2> QED
        BY <1>3, <2>1, <2>2, <2>3, <2>4, LogChange DEF f_set_defaults
<1>4. CASE FindPlace
    <2>1. Size \in Nat /\ End \in Nat /\ ImageLen(image) \in Nat
        BY EndIsTotal, EndFacts, ImageLenType, NvramAssumption DEF LogInv, NvramTypeOK
    <2>2. nvpc = "store" /\ ImageLen(image) + 7 <= Size
        BY <1>4 DEF FindPlace, LogInv, Fits
    <2>3. \/ off' = 0 /\ nvpc' = "erase"
          \/ off' = End /\ nvpc' = "write" /\ ~(End + ImageLen(image) + 7 > Size)
        BY <1>4 DEF FindPlace
    <2>4. UNCHANGED <<options, image, log, dirty, lastoff, apart, pending, refused, before, nvleft>>
        BY <1>4 DEF FindPlace
    <2>5. End' = End
        BY <2>4, SameLog
    <2>6. Fits' /\ off' \in 0 .. Size
        BY <2>1, <2>2, <2>3, <2>4, <2>5 DEF Fits
    <2> QED
        BY <2>3, <2>4, <2>6, LogSame DEF LogInv, NvramTypeOK
<1>5. CASE EraseFlash
    BY <1>5, LogErased DEF EraseFlash, LogInv, NvramTypeOK
<1>6. CASE NoBuffer \/ WriteFails
    <2>1. nvpc' = "idle" /\ apart' = TRUE /\ dirty' \in BOOLEAN /\ lastoff' \in 0 .. Size
          /\ UNCHANGED <<options, image, log, off, pending, refused, before>>
        BY <1>6 DEF NoBuffer, WriteFails, LogInv, NvramTypeOK
    <2>2. nvleft' \in [crashes : 0 .. MaxCrashes, failures : 0 .. MaxFailures]
        <3>1. nvleft.failures > 0 /\ nvleft' = [nvleft EXCEPT !.failures = @ - 1]
            BY <1>6 DEF NoBuffer, WriteFails
        <3>2. nvleft \in [crashes : 0 .. MaxCrashes, failures : 0 .. MaxFailures]
            BY DEF LogInv, NvramTypeOK
        <3>3. MaxFailures \in Nat
            BY NvramAssumption
        <3> QED
            BY <3>1, <3>2, <3>3
    <2>3. Fits'
        BY <2>1 DEF Fits
    <2> QED
        BY <2>1, <2>2, <2>3, LogSame DEF LogInv, NvramTypeOK
<1>7. CASE WriteRecord
    BY <1>7, LogWritten
<1>8. CASE PowerOff
    <2>1. Fits'
        BY <1>8 DEF PowerOff, Fits
    <2> QED
        BY <1>8, <2>1, LogSame DEF PowerOff, LogInv, NvramTypeOK
<1>9. CASE Crash
    <2>1. /\ nvpc' = "off" /\ pending' \subseteq Vars \X Values
          /\ UNCHANGED <<options, image, off, lastoff, apart, refused, before>>
        BY <1>9 DEF Crash
    <2>2. nvleft' \in [crashes : 0 .. MaxCrashes, failures : 0 .. MaxFailures]
        <3>1. nvleft.crashes > 0 /\ nvleft' = [nvleft EXCEPT !.crashes = @ - 1]
            BY <1>9 DEF Crash
        <3>2. nvleft \in [crashes : 0 .. MaxCrashes, failures : 0 .. MaxFailures]
            BY DEF LogInv, NvramTypeOK
        <3>3. MaxCrashes \in Nat
            BY NvramAssumption
        <3> QED
            BY <3>1, <3>2, <3>3
    <2>3. Fits'
        BY <2>1 DEF Fits
    <2>4. CASE UNCHANGED log
        <3>1. dirty' \in BOOLEAN
            BY <1>9, <2>4 DEF Crash, LogInv, NvramTypeOK
        <3> QED
            BY <2>1, <2>2, <2>3, <2>4, <3>1, LogSame DEF LogInv, NvramTypeOK
    <2>5. CASE nvpc = "write" /\ dirty' = FALSE /\ log' = <<>>
        BY <2>1, <2>2, <2>5, LogErased
    <2> QED
        BY <1>9, <2>4, <2>5 DEF Crash
<1>10. CASE UNCHANGED nvVars
    <2>1. UNCHANGED <<nvpc, options, image, log, dirty, off, lastoff, apart, pending, refused,
                      before, nvleft>>
        BY <1>10 DEF nvVars
    <2>2. Fits'
        BY <2>1, SameLog DEF LogInv, Fits
    <2> QED
        BY <2>1, <2>2, LogSame DEF LogInv, NvramTypeOK
<1> QED
    BY <1>1, <1>2, <1>3, <1>4, <1>5, <1>6, <1>7, <1>8, <1>9, <1>10, <1>11, <1>12 DEF NvramNext

LEMMA BeforeOrAfterStep ==
    ASSUME ~Torn, LogInv, BeforeOrAfter, [NvramNext]_nvVars
    PROVE  BeforeOrAfter'
<1>1. CASE UNCHANGED log /\ before' = Stored
    BY <1>1, SameLog DEF BeforeOrAfter
<1>2. CASE UNCHANGED <<log, before, image>>
    BY <1>2, SameLog DEF BeforeOrAfter
<1>3. CASE log' = <<>>
    BY <1>3 DEF BeforeOrAfter
<1>4. CASE WriteRecord
    <2>1. log \in Seq(Records) /\ log' = Append(log, Record(image)) /\ UNCHANGED image
        BY <1>4 DEF WriteRecord, LogInv, NvramTypeOK
    <2>2. InSight' => Stored' = Effective(image')
        BY <2>1, WrittenIsStored
    <2> QED
        BY <2>2 DEF BeforeOrAfter
<1>5. CASE \E skip \in BOOLEAN : Boot(skip)
    BY <1>1, <1>5 DEF Boot
<1>6. ASSUME NEW v \in Vars, NEW x \in Values, Save(v, x), UNCHANGED log
      PROVE  BeforeOrAfter'
    <2>1. before' = Stored \/ UNCHANGED <<before, image>>
        BY <1>6 DEF Save, save_config, set_nvram
    <2> QED
        BY <1>1, <1>2, <1>6, <2>1
<1>7. CASE f_set_defaults
    BY <1>1, <1>2, <1>7 DEF f_set_defaults, reset_nvram
<1>12. CASE \E v \in Vars, x \in Values : f_dsetenv(v, x) \/ f_password(v, x) \/ SaveNext(v, x)
    <2>1. BadLogins \in Vars /\ NoLogins \in Values
        BY NvramAssumption
    <2> QED
        BY <1>6, <1>12, <2>1 DEF f_dsetenv, f_password, SaveNext
<1>8. CASE FindPlace \/ NoBuffer \/ WriteFails \/ PowerOff
    BY <1>2, <1>8 DEF FindPlace, NoBuffer, WriteFails, PowerOff
<1>9. CASE EraseFlash
    BY <1>3, <1>9 DEF EraseFlash
<1>10. CASE Crash
    BY <1>2, <1>3, <1>10 DEF Crash
<1>11. CASE UNCHANGED nvVars
    BY <1>2, <1>11 DEF nvVars
<1> QED
    BY <1>4, <1>5, <1>7, <1>8, <1>9, <1>10, <1>11, <1>12 DEF NvramNext

\* A restart at any time gives all variables as they were before the change
\* that was interrupted or all as they are after it, or the defaults once the
\* log has been erased: for any variables, any records and however often power
\* is lost, as long as no header is written without what follows it and
\* nvram_offset finds the last record.  The log never gets past the end of
\* NVRAM, found or not.
THEOREM OldOrNewInSight ==
    ASSUME ~Torn
    PROVE  NvramSpec => [](NvramTypeOK /\ (InSight => OldOrNew))
<1> DEFINE Inv == LogInv /\ BeforeOrAfter
<1>1. NvramInit => Inv
    <2>1. NvramInit => BeforeOrAfter
        BY DEF NvramInit, BeforeOrAfter
    <2> QED
        BY <2>1, LogInit
<1>2. Inv /\ [NvramNext]_nvVars => Inv'
    BY LogStep, BeforeOrAfterStep
<1>3. Inv => NvramTypeOK /\ (InSight => OldOrNew)
    BY DEF LogInv, BeforeOrAfter, OldOrNew
<1> QED
    BY <1>1, <1>2, <1>3, PTL DEF NvramSpec

=============================================================================
