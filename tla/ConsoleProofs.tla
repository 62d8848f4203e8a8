---------------------------- MODULE ConsoleProofs ----------------------------
(***************************************************************************)
(* Proofs about what the kernel's console takes in and puts out:           *)
(* Input.tla, for rings of any size and devices that send any number of    *)
(* codes, and Printk.tla, for any CPUs.                                    *)
(***************************************************************************)
EXTENDS Input, Printk, Integers, SequenceTheorems, TLAPS

(* The codes a ring's reader is done with: the one it is reading is not.   *)
Done(d) == IF Reading(d) THEN read[d] - 1 ELSE read[d]

(* n codes on, a pointer that wraps at Size stands at p.                   *)
Wraps(p, n) == p \in 0..Size /\ \E k \in Int : n = p + k * Size

Pointers ==
  /\ pending \in Seq(Byte) /\ overrun \in [Rings -> BOOLEAN]
  /\ written \in [Rings -> Nat] /\ read \in [Rings -> Nat] /\ lost \in [Rings -> Nat]
  /\ \A d \in Rings : /\ Wraps(head[d], written[d]) /\ Wraps(tail[d], Done(d))
                      /\ Reading(d) => tail[d] < Size
                      /\ ~overrun[d] => written[d] - read[d] <= Size

(* A slot holds the last code that was sent to it.                         *)
Holds(d, i, n) ==
  \/ n = 0 /\ i >= written[d]
  \/ n \in 1..written[d] /\ n > written[d] - Size /\ \E k \in Int : n = i + 1 + k * Size

Slots == \A d \in Rings : \A i \in 0..(Size - 1) : Holds(d, i, buf[d][i][1])

(* The count that the reader saw stays, or is in its hands.                *)
Counted ==
  /\ cpu.at = "load" => count[cpu.ring] >= 1
  /\ cpu.at = "store" => cpu.reg >= 1
  /\ cpu.at \in {"kb", "mouse", "wait"} => cpu.ring = "kb"

(* Bytes of the mouse go to their places in turn, after the first.         *)
Turn(m) ==
  \E q \in Nat :
    /\ m = 3 * q + mouse_count /\ mouse_count \in 1..3
    /\ \A i \in 1..3 : packet[i] = IF i < mouse_count THEN 3 * q + 1 + i
                                   ELSE IF q = 0 THEN 0 ELSE 3 * q + i - 2

Phase ==
  /\ packet \in [1..3 -> Nat]
  /\ ~overrun["mouse"] =>
       \/ Done("mouse") = 0 /\ mouse_count = 0 /\ packet = <<0, 0, 0>>
       \/ Turn(Done("mouse"))

InputInv == Pointers /\ Slots /\ Counted /\ ReadInPlace /\ Phase
-----------------------------------------------------------------------------
(* Multiples of Size that are less than Size apart are the same.           *)
LEMMA Multiples ==
  ASSUME NEW k \in Int
  PROVE  /\ k * Size \in Int
         /\ k >= 1 => k * Size >= Size
         /\ k <= -1 => k * Size <= -Size
         /\ k * Size < Size => k <= 0
         /\ k * Size > -Size => k >= 0
         /\ k >= 0 => k * Size >= 0
         /\ k <= 0 => k * Size <= 0
         /\ k = 0 => k * Size = 0
         /\ (k * Size) % Size = 0
         /\ \A j \in Int : (j - k) * Size = j * Size - k * Size /\ (k + 1) * Size = k * Size + Size
BY InputAssumption

LEMMA Bytes ==
  /\ Size \in Nat \ {0} /\ 0 \in Byte /\ Byte \subseteq Nat
  /\ \A k \in Keys : DownCode(k) \in Seq(Byte) /\ UpCode(k) \in Seq(Byte)
<1>0. /\ <<\hE0, \h37>> \in Seq(Byte) /\ <<\hE0, \h2A, \hE0, \h37>> \in Seq(Byte)
      /\ <<\hE0, \h47>> \in Seq(Byte) /\ <<\hE0, \h2A, \hE0, \h47>> \in Seq(Byte)
      /\ <<\hE0, \hB7>> \in Seq(Byte) /\ <<\hE0, \hB7, \hE0, \hAA>> \in Seq(Byte)
  BY DEF Byte
<1>1. ASSUME NEW k \in Keys
      PROVE  DownCode(k) \in Seq(Byte)
  <2>1. CASE k = "shift_l"
    BY <2>1 DEF DownCode, Byte
  <2>2. CASE k = "ctrl_r"
    BY <2>2 DEF DownCode, Byte
  <2>3. CASE k = "pause"
    BY <2>3 DEF DownCode, Pause, Byte
  <2>4. CASE k = "print"
    BY <1>0, <2>4 DEF DownCode
  <2>5. CASE k = "home"
    BY <1>0, <2>5 DEF DownCode
  <2>6. QED
    BY <2>1, <2>2, <2>3, <2>4, <2>5, InputAssumption
<1>2. ASSUME NEW k \in Keys
      PROVE  UpCode(k) \in Seq(Byte)
  <2>1. CASE k = "shift_l"
    BY <2>1 DEF UpCode, Byte
  <2>2. CASE k = "ctrl_r"
    BY <2>2 DEF UpCode, Byte
  <2>3. CASE k = "pause"
    BY <2>3, EmptySeq DEF UpCode
  <2>4. CASE k = "print"
    BY <1>0, <2>4 DEF UpCode
  <2>5. CASE k = "home"
    BY <2>5 DEF UpCode, Byte
  <2>6. QED
    BY <2>1, <2>2, <2>3, <2>4, <2>5, InputAssumption
<1>3. QED
  BY <1>1, <1>2, InputAssumption DEF Byte

(* A pointer wrapped before it is used and moved on.                       *)
LEMMA WrapsOn ==
  ASSUME NEW p, NEW n \in Int, Wraps(p, n)
  PROVE  LET h == IF p = Size THEN 0 ELSE p
         IN  /\ h \in 0..(Size - 1) /\ Wraps(h, n) /\ Wraps(h + 1, n + 1)
             /\ \E k \in Int : n = h + k * Size
<1>0. PICK h : h = IF p = Size THEN 0 ELSE p
  OBVIOUS
<1>1. p \in 0..Size /\ Size \in Nat \ {0}
  BY InputAssumption DEF Wraps
<1>2. h \in 0..(Size - 1)
  BY <1>0, <1>1
<1>3. PICK k \in Int : n = p + k * Size
  BY DEF Wraps
<1>4. \E m \in Int : n = h + m * Size
  <2>1. CASE p = Size
    <3>1. n = 0 + (k + 1) * Size /\ k + 1 \in Int
      BY <1>1, <1>3, <2>1, Multiples
    <3>2. QED
      BY <1>0, <2>1, <3>1
  <2>2. CASE p # Size
    BY <1>0, <1>3, <2>2
  <2>3. QED
    BY <2>1, <2>2
<1>5. PICK m \in Int : n = h + m * Size
  BY <1>4
<1>6. h \in 0..Size /\ h + 1 \in 0..Size /\ n + 1 = (h + 1) + m * Size
  BY <1>1, <1>2, <1>5, Multiples
<1>7. /\ h \in 0..(Size - 1) /\ Wraps(h, n) /\ Wraps(h + 1, n + 1)
      /\ \E j \in Int : n = h + j * Size
  BY <1>2, <1>5, <1>6 DEF Wraps
<1>8. QED
  BY <1>0, <1>7, Zenon

(* What a slot holds after another code is sent, to it or to another.      *)
LEMMA HoldsOn ==
  ASSUME NEW w \in Nat, NEW h \in 0..(Size - 1), NEW i \in 0..(Size - 1), i # h,
         NEW k \in Int, w = h + k * Size, NEW n \in Nat,
         \/ n = 0 /\ i >= w
         \/ n \in 1..w /\ n > w - Size /\ \E j \in Int : n = i + 1 + j * Size
  PROVE  \/ n = 0 /\ i >= w + 1
         \/ n \in 1..(w + 1) /\ n > (w + 1) - Size /\ \E j \in Int : n = i + 1 + j * Size
<1>0. Size \in Nat \ {0}
  BY InputAssumption
<1>1. CASE n = 0 /\ i >= w
  <2>1. ASSUME i = w
        PROVE  FALSE
    <3>1. k * Size = i - h /\ i - h \in Int /\ i - h < Size /\ i - h > -Size
      BY <1>0, <2>1, Multiples
    <3>2. k = 0
      BY <1>0, <3>1, Multiples
    <3>3. QED
      BY <3>1, <3>2, Multiples
  <2>2. QED
    BY <1>1, <2>1
<1>2. CASE n \in 1..w /\ n > w - Size /\ \E j \in Int : n = i + 1 + j * Size
  <2>1. PICK j \in Int : n = i + 1 + j * Size
    BY <1>2
  <2>2. ASSUME n = w + 1 - Size
        PROVE  FALSE
    <3>1. (k - j) * Size = k * Size - j * Size /\ k * Size \in Int /\ j * Size \in Int
      BY Multiples
    <3>2. (k - j) * Size = (i - h) + Size
      BY <1>0, <2>1, <2>2, <3>1
    <3>3. k - j - 1 \in Int /\ (k - j - 1) * Size = i - h
      BY <1>0, <3>2
    <3>4. k - j - 1 = 0
      BY <1>0, <3>3, Multiples
    <3>5. QED
      BY <1>0, <3>3, <3>4
  <2>3. QED
    BY <1>0, <1>2, <2>2
<1>3. QED
  BY <1>1, <1>2

(* The slot that the reader takes holds the code it is at, or a later one. *)
LEMMA SlotRead ==
  ASSUME NEW w \in Nat, NEW r \in Nat, r < w, NEW t \in 0..(Size - 1),
         NEW k \in Int, r = t + k * Size, NEW n \in Nat,
         \/ n = 0 /\ t >= w
         \/ n \in 1..w /\ n > w - Size /\ \E j \in Int : n = t + 1 + j * Size
  PROVE  n >= r + 1 /\ (n - (r + 1)) % Size = 0 /\ (w - r <= Size => n = r + 1)
<1>0. Size \in Nat \ {0}
  BY InputAssumption
<1>1. k >= 0 /\ t <= r
  <2>1. k * Size > -Size
    BY <1>0, Multiples
  <2>2. QED
    BY <1>0, <2>1, Multiples
<1>2. PICK j \in Int : n = t + 1 + j * Size
  BY <1>0, <1>1
<1>3. n \in 1..w /\ n > w - Size
  BY <1>0, <1>1
<1>4. /\ (j - k) * Size = n - (r + 1) /\ j - k \in Int
  <2>1. (j - k) * Size = j * Size - k * Size /\ k * Size \in Int /\ j * Size \in Int
    BY Multiples
  <2>2. QED
    BY <1>0, <1>2, <2>1
<1>5. (j - k) * Size > -Size
  BY <1>0, <1>3, <1>4
<1>6. j - k >= 0 /\ (j - k) * Size >= 0 /\ ((j - k) * Size) % Size = 0
  BY <1>4, <1>5, Multiples
<1>7. w - r <= Size => n = r + 1
  <2>1. ASSUME w - r <= Size
        PROVE  n = r + 1
    <3>1. (j - k) * Size < Size
      BY <1>0, <1>3, <1>4, <2>1
    <3>2. j - k = 0
      BY <1>4, <1>6, <3>1, Multiples
    <3>3. QED
      BY <1>0, <1>3, <1>4, <3>2
  <2>2. QED
    BY <2>1
<1>8. QED
  BY <1>0, <1>3, <1>4, <1>6, <1>7
-----------------------------------------------------------------------------
LEMMA InputInit == Init => InputInv
<1> SUFFICES ASSUME Init
             PROVE  InputInv
  OBVIOUS
<1> USE Bytes
<1>1. 0..(Size - 1) \subseteq 0..Size /\ 0 \in 0..Size
  OBVIOUS
<1>2. pending \in Seq(Byte) /\ code \in Seq(Byte) /\ Len(code) = 0
  BY EmptySeq DEF Init
<1>3. ~\E d \in Rings : Reading(d)
  BY DEF Init, At, Reading
<1>4. Wraps(0, 0)
  <2>1. 0 = 0 + 0 * Size
    BY Multiples
  <2>2. QED
    BY <1>1, <2>1 DEF Wraps
<1>5. Pointers
  BY <1>2, <1>3, <1>4 DEF Init, Pointers, Done
<1>6. Slots
  BY DEF Init, Slots, Holds
<1>7. Counted /\ Phase
  BY <1>3 DEF Init, Counted, Phase, Done, At, Rings
<1>8. TypeOK
  <2>1. buf \in [Rings -> [0..Size - 1 -> Nat \X Byte]]
    BY DEF Init
  <2>2. head \in [Rings -> 0..Size] /\ tail \in [Rings -> 0..Size] /\ count \in [Rings -> Nat]
    BY <1>1 DEF Init
  <2>3. cpu \in [at : Rings \union {"wait", "load", "store"}, ring : Rings, ret : Nat \X Byte, reg : Nat]
    BY DEF Init, At, Rings
  <2>4. QED
    BY <1>2, <2>1, <2>2, <2>3 DEF Init, TypeOK
<1>9. LagIsLost
  BY <1>3 DEF Init, LagIsLost
<1>10. QED
  BY <1>3, <1>5, <1>6, <1>7, <1>8, <1>9 DEF InputInv, ReadInPlace

(* What the rest of a step needs of the invariant, in numbers.             *)
LEMMA InputTypes ==
  ASSUME InputInv, NEW d \in Rings
  PROVE  /\ written[d] \in Nat /\ read[d] \in Nat /\ lost[d] \in Nat /\ count[d] \in Nat
         /\ Size \in Nat \ {0} /\ cpu.reg \in Nat /\ cpu.ring \in Rings
         /\ cpu.ret[1] \in Nat /\ cpu.ret[2] \in Byte
         /\ \A i \in 0..(Size - 1) : buf[d][i] \in Nat \X Byte /\ buf[d][i][1] \in Nat
<1>1. written[d] \in Nat /\ read[d] \in Nat /\ lost[d] \in Nat
  BY Zenon DEF InputInv, Pointers
<1>2. count[d] \in Nat /\ cpu.reg \in Nat /\ cpu.ring \in Rings /\ cpu.ret[1] \in Nat /\ cpu.ret[2] \in Byte
  <2>1. /\ count \in [Rings -> Nat]
        /\ cpu \in [at : Rings \union {"wait", "load", "store"}, ring : Rings, ret : Nat \X Byte, reg : Nat]
    BY Zenon DEF InputInv, ReadInPlace, TypeOK
  <2>2. QED
    BY <2>1
<1>3. \A i \in 0..(Size - 1) : buf[d][i] \in Nat \X Byte /\ buf[d][i][1] \in Nat
  <2>1. buf \in [Rings -> [0..(Size - 1) -> Nat \X Byte]]
    BY Zenon DEF InputInv, ReadInPlace, TypeOK
  <2>2. QED
    BY <2>1
<1>4. QED
  BY <1>1, <1>2, <1>3, Bytes, Zenon

(* A handler writes one code, at the head, whatever the reader is doing.   *)
LEMMA SendKeeps ==
  ASSUME InputInv, NEW d \in Rings, NEW byte \in Byte, Send(d, written[d] + 1, byte),
         pending' \in Seq(Byte)
  PROVE  InputInv'
<1> DEFINE h == IF head[d] = Size THEN 0 ELSE head[d]
<1>1. /\ buf' = [buf EXCEPT ![d][h] = <<written[d] + 1, byte>>]
      /\ head' = [head EXCEPT ![d] = h + 1]
      /\ count' = [count EXCEPT ![d] = @ + 1]
      /\ written' = [written EXCEPT ![d] = written[d] + 1]
      /\ UNCHANGED <<tail, cpu, code, mods, mouse_count, packet, read>>
  BY DEF Send
<1>h. h = IF head[d] = Size THEN 0 ELSE head[d]
  OBVIOUS
<1> HIDE DEF h
<1>2. /\ h \in 0..(Size - 1) /\ Wraps(h + 1, written[d] + 1) /\ h + 1 \in 0..Size
      /\ \E k \in Int : written[d] = h + k * Size
  <2>1. written[d] \in Int /\ Wraps(head[d], written[d])
    BY InputTypes DEF InputInv, Pointers
  <2>2. /\ h \in 0..(Size - 1) /\ Wraps(h + 1, written[d] + 1)
        /\ \E k \in Int : written[d] = h + k * Size
    <3>1. PICK p : p = head[d]
      OBVIOUS
    <3>2. PICK n \in Int : n = written[d]
      BY <2>1
    <3>3. Wraps(p, n) /\ h = IF p = Size THEN 0 ELSE p
      BY <1>h, <2>1, <3>1, <3>2, Zenon
    <3>4. h \in 0..(Size - 1) /\ Wraps(h + 1, n + 1) /\ \E k \in Int : n = h + k * Size
      BY <3>3, WrapsOn
    <3>5. QED
      BY <3>2, <3>4, Zenon
  <2>3. h + 1 \in 0..Size
    BY <2>2, Bytes
  <2>4. QED
    BY <2>2, <2>3, Zenon
<1>3. \A e \in Rings : (Reading(e)' <=> Reading(e)) /\ Done(e)' = Done(e)
  BY <1>1 DEF Reading, Done
<1>4. TypeOK
  BY DEF InputInv, ReadInPlace
<1>a. /\ overrun' \in [Rings -> BOOLEAN]
      /\ \A e \in Rings \ {d} : overrun'[e] = overrun[e]
      /\ overrun[d] => overrun'[d]
      /\ ~overrun'[d] => ~((written[d] + 1) - read[d] > Size)
  <2>1. overrun \in [Rings -> BOOLEAN]
    BY DEF InputInv, Pointers
  <2>2. CASE (written[d] + 1) - read[d] > Size
    <3>1. overrun' = [overrun EXCEPT ![d] = TRUE]
      BY <2>2 DEF Send
    <3>2. QED
      BY <2>1, <3>1
  <2>3. CASE ~((written[d] + 1) - read[d] > Size)
    <3>1. overrun' = overrun
      BY <2>3 DEF Send
    <3>2. QED
      BY <2>1, <2>3, <3>1
  <2>4. QED
    BY <2>2, <2>3
<1>b. /\ written' \in [Rings -> Nat] /\ read' \in [Rings -> Nat]
      /\ \A e \in Rings \ {d} : written'[e] = written[e]
      /\ written'[d] = written[d] + 1 /\ read' = read
  BY <1>1 DEF InputInv, Pointers
<1>c. /\ lost' \in [Rings -> Nat]
      /\ \A e \in Rings \ {d} : lost'[e] = lost[e]
      /\ lost'[d] = IF cpu.at = "store" /\ cpu.ring = d THEN lost[d] + 1 ELSE lost[d]
  <2>1. CASE cpu.at = "store" /\ cpu.ring = d
    <3>1. lost' = [lost EXCEPT ![d] = @ + 1]
      BY <2>1 DEF Send
    <3>2. QED
      BY <2>1, <3>1 DEF InputInv, Pointers
  <2>2. CASE ~(cpu.at = "store" /\ cpu.ring = d)
    <3>1. lost' = lost
      BY <2>2 DEF Send
    <3>2. QED
      BY <2>2, <3>1 DEF InputInv, Pointers
  <2>3. QED
    BY <2>1, <2>2
<1>5. Pointers'
  <2>2. \A e \in Rings : Wraps(head[e], written[e])'
    <3> SUFFICES ASSUME NEW e \in Rings
                 PROVE  Wraps(head[e], written[e])'
      OBVIOUS
    <3>1. CASE e = d
      <4>1. head'[e] = h + 1 /\ written'[e] = written[d] + 1
        BY <1>1, <1>4, <3>1 DEF TypeOK, InputInv, Pointers
      <4>2. QED
        BY <1>2, <4>1 DEF Wraps
    <3>2. CASE e # d
      <4>1. head'[e] = head[e] /\ written'[e] = written[e]
        BY <1>1, <1>4, <3>2 DEF TypeOK, InputInv, Pointers
      <4>2. QED
        BY <4>1 DEF Wraps, InputInv, Pointers
    <3>3. QED
      BY <3>1, <3>2
  <2>3. ASSUME NEW e \in Rings
        PROVE  Wraps(tail[e], Done(e))' /\ (Reading(e)' => tail'[e] < Size)
    BY <1>1, <1>3 DEF Wraps, InputInv, Pointers
  <2>4. ASSUME NEW e \in Rings, ~overrun'[e]
        PROVE  written'[e] - read'[e] <= Size
    <3>1. CASE e = d
      <4>1. ~((written[d] + 1) - read[d] > Size)
        BY <1>a, <2>4, <3>1
      <4>2. QED
        BY <1>b, <3>1, <4>1, InputTypes
    <3>2. CASE e # d
      BY <1>a, <1>b, <2>4, <3>2 DEF InputInv, Pointers
    <3>3. QED
      BY <3>1, <3>2
  <2>5. QED
    BY <1>a, <1>b, <1>c, <2>2, <2>3, <2>4 DEF Pointers
<1>6. /\ \A e \in Rings \ {d} : buf'[e] = buf[e]
      /\ \A i \in 0..(Size - 1) : buf'[d][i] = IF i = h THEN <<written[d] + 1, byte>> ELSE buf[d][i]
      /\ buf' \in [Rings -> [0..Size - 1 -> Nat \X Byte]]
  <2>1. <<written[d] + 1, byte>> \in Nat \X Byte
    BY InputTypes
  <2>2. buf \in [Rings -> [0..Size - 1 -> Nat \X Byte]]
    BY <1>4 DEF TypeOK
  <2>3. buf' = [buf EXCEPT ![d] = [buf[d] EXCEPT ![h] = <<written[d] + 1, byte>>]]
    BY <1>1
  <2>4. [buf[d] EXCEPT ![h] = <<written[d] + 1, byte>>] \in [0..Size - 1 -> Nat \X Byte]
    BY <2>1, <2>2
  <2>5. QED
    BY <1>2, <2>2, <2>3, <2>4
<1>7. Slots'
  <2> SUFFICES ASSUME NEW e \in Rings, NEW i \in 0..(Size - 1)
               PROVE  Holds(e, i, buf[e][i][1])'
    BY DEF Slots
  <2>1. Holds(e, i, buf[e][i][1]) /\ buf[e][i][1] \in Nat
    BY InputTypes DEF InputInv, Slots
  <2>2. CASE e # d
    BY <1>1, <1>6, <2>1, <2>2 DEF Holds, InputInv, Pointers
  <2>3. CASE e = d /\ i = h
    <3>1. buf'[e][i][1] = written[d] + 1 /\ written'[e] = written[d] + 1
      BY <1>1, <1>6, <2>3 DEF InputInv, Pointers
    <3>2. PICK k \in Int : written[d] = h + k * Size
      BY <1>2
    <3>3. written[d] + 1 = i + 1 + k * Size
      <4>1. k * Size \in Int
        BY Multiples
      <4>2. QED
        BY <1>2, <2>3, <3>2, <4>1
    <3>4. QED
      BY <3>1, <3>3, InputTypes DEF Holds
  <2>4. CASE e = d /\ i # h
    <3>1. buf'[e][i] = buf[e][i] /\ written'[e] = written[d] + 1
      BY <1>1, <1>6, <2>4 DEF InputInv, Pointers
    <3>2. PICK k \in Int : written[d] = h + k * Size
      BY <1>2
    <3> DEFINE n == buf[e][i][1]
    <3>3. \/ n = 0 /\ i >= written[d]
          \/ n \in 1..written[d] /\ n > written[d] - Size /\ \E j \in Int : n = i + 1 + j * Size
      BY <2>1, <2>4 DEF Holds
    <3>4. n \in Nat /\ written[d] \in Nat
      BY <2>1, InputTypes
    <3> HIDE DEF n
    <3>5. \/ n = 0 /\ i >= written[d] + 1
          \/ n \in 1..(written[d] + 1) /\ n > (written[d] + 1) - Size /\ \E j \in Int : n = i + 1 + j * Size
      BY <1>2, <2>4, <3>2, <3>3, <3>4, HoldsOn
    <3>6. QED
      BY <3>1, <3>5 DEF n, Holds
  <2>5. QED
    BY <2>2, <2>3, <2>4
<1>8. Counted'
  BY <1>1, <1>4, InputTypes DEF InputInv, Counted, TypeOK
<1>9. TypeOK'
  <2>1. head \in [Rings -> 0..Size] /\ count \in [Rings -> Nat] /\ count[d] + 1 \in Nat
    BY <1>4 DEF TypeOK
  <2>2. head' \in [Rings -> 0..Size]
    BY <1>1, <1>2, <2>1
  <2>3. count' \in [Rings -> Nat]
    BY <1>1, <2>1
  <2>4. QED
    BY <1>1, <1>4, <1>6, <2>2, <2>3 DEF TypeOK
<1>10. LagIsLost'
  <2> SUFFICES ASSUME NEW e \in Rings
               PROVE  (LET c == IF Reading(e) /\ cpu.at = "store" THEN cpu.reg ELSE count[e]
                       IN  c + read[e] + lost[e] = written[e] + (IF Reading(e) THEN 1 ELSE 0))'
    BY DEF LagIsLost
  <2>1. LET c == IF Reading(e) /\ cpu.at = "store" THEN cpu.reg ELSE count[e]
        IN  c + read[e] + lost[e] = written[e] + (IF Reading(e) THEN 1 ELSE 0)
    BY DEF InputInv, ReadInPlace, LagIsLost
  <2>2. CASE e # d
    BY <1>1, <1>3, <1>b, <1>c, <2>1, <2>2 DEF InputInv, ReadInPlace, TypeOK
  <2>3. CASE e = d
    <3>1. /\ written'[e] = written[e] + 1 /\ count'[e] = count[e] + 1 /\ read'[e] = read[e]
          /\ cpu' = cpu /\ cpu'.reg = cpu.reg
      BY <1>1, <1>4, <2>3 DEF InputInv, Pointers, TypeOK
    <3>2. lost'[e] = IF Reading(e) /\ cpu.at = "store" THEN lost[e] + 1 ELSE lost[e]
      BY <1>c, <2>3 DEF Reading
    <3>t. written[e] \in Nat /\ read[e] \in Nat /\ lost[e] \in Nat /\ count[e] \in Nat /\ cpu.reg \in Nat
      BY InputTypes
    <3>3. CASE Reading(e) /\ cpu.at = "store"
      <4>1. /\ cpu.reg + read[e] + lost[e] = written[e] + 1
            /\ Reading(e)' /\ cpu'.at = "store" /\ lost'[e] = lost[e] + 1
        BY <1>3, <2>1, <3>1, <3>2, <3>3
      <4>2. (cpu'.reg + read'[e]) + lost'[e] = written'[e] + 1
        <5>1. PICK c \in Nat, r \in Nat, l \in Nat, w \in Nat :
                c = cpu.reg /\ r = read[e] /\ l = lost[e] /\ w = written[e]
          BY <3>t
        <5>2. (c + r) + l = w + 1
          BY <4>1, <5>1
        <5>3. (c + r) + (l + 1) = (w + 1) + 1
          BY <5>2
        <5>4. QED
          BY <3>1, <4>1, <5>1, <5>3, Zenon
      <4>3. QED
        BY <4>1, <4>2
    <3>4. CASE ~(Reading(e) /\ cpu.at = "store")
      <4>1. PICK one \in Nat : one = IF Reading(e) THEN 1 ELSE 0
        OBVIOUS
      <4>2. /\ count[e] + read[e] + lost[e] = written[e] + one
            /\ ~(Reading(e)' /\ cpu'.at = "store") /\ lost'[e] = lost[e]
            /\ one = IF Reading(e)' THEN 1 ELSE 0
        BY <1>3, <2>1, <3>1, <3>2, <3>4, <4>1
      <4>3. (count'[e] + read'[e]) + lost'[e] = written'[e] + one
        <5>1. PICK c \in Nat, r \in Nat, l \in Nat, w \in Nat :
                c = count[e] /\ r = read[e] /\ l = lost[e] /\ w = written[e]
          BY <3>t
        <5>2. (c + r) + l = w + one
          BY <4>2, <5>1
        <5>3. ((c + 1) + r) + l = (w + 1) + one
          BY <5>2
        <5>4. QED
          BY <3>1, <4>2, <5>1, <5>3, Zenon
      <4>4. QED
        BY <4>2, <4>3
    <3>5. QED
      BY <3>3, <3>4
  <2>4. QED
    BY <2>2, <2>3
<1>11. ReadInPlace'
  <2>1. \A e \in Rings : overrun[e] => overrun'[e]
    BY <1>a
  <2>2. QED
    BY <1>1, <1>3, <1>9, <1>10, <2>1 DEF InputInv, ReadInPlace
<1>12. Phase'
  <2>1. overrun["mouse"] => overrun'["mouse"]
    BY <1>a DEF Rings
  <2>2. QED
    BY <1>1, <1>3, <2>1 DEF InputInv, Phase, Turn, Rings
<1>13. QED
  BY <1>5, <1>7, <1>8, <1>11, <1>12 DEF InputInv
-----------------------------------------------------------------------------
(* A key goes down or up: the codes it makes are the device's until sent.  *)
LEMMA KeysKeep ==
  ASSUME InputInv, pending' \in Seq(Byte),
         UNCHANGED <<ring, cpu, code, mods, mouse_count, packet, written, read, ghost>>
  PROVE  InputInv'
<1>1. /\ UNCHANGED <<buf, head, tail, count, cpu, code, mods, mouse_count, packet>>
      /\ UNCHANGED <<written, read, lost, overrun>>
  BY DEF ring, ghost
<1>2. Pointers'
  BY <1>1 DEF InputInv, Pointers, Wraps, Done, Reading
<1>3. Slots' /\ Counted' /\ Phase'
  BY <1>1 DEF InputInv, Slots, Holds, Counted, Phase, Turn, Done, Reading
<1>4. ReadInPlace'
  BY <1>1 DEF InputInv, ReadInPlace, TypeOK, LagIsLost, Reading
<1>5. QED
  BY <1>2, <1>3, <1>4 DEF InputInv

(* The main loop goes on to the other ring.                                *)
LEMMA EmptyKeeps ==
  ASSUME InputInv, NEW d \in Rings, Empty(d)
  PROVE  InputInv'
<1>1. /\ UNCHANGED <<buf, head, tail, count, code, mods, mouse_count, packet>>
      /\ UNCHANGED <<written, read, lost, overrun, pending>>
      /\ cpu.at \in Rings
  BY DEF Empty, Reads, device, ghost
<1>2. PICK x \in Rings : cpu' = At(x)
  BY DEF Empty, Rings
<1>3. /\ cpu'.at \in Rings /\ cpu'.ring = "kb"
      /\ cpu' \in [at : Rings \union {"wait", "load", "store"}, ring : Rings,
                   ret : Nat \X Byte, reg : Nat]
  BY <1>2, Bytes DEF At, Rings
<1>4. \A e \in Rings : ~Reading(e) /\ ~Reading(e)' /\ Done(e)' = Done(e)
  BY <1>1, <1>3 DEF Reading, Rings, Done
<1>5. Pointers'
  BY <1>1, <1>4 DEF InputInv, Pointers, Wraps
<1>6. Slots' /\ Counted' /\ Phase'
  BY <1>1, <1>3, <1>4 DEF InputInv, Slots, Holds, Counted, Phase, Turn, Rings
<1>7. TypeOK' /\ LagIsLost'
  BY <1>1, <1>3, <1>4 DEF InputInv, ReadInPlace, TypeOK, LagIsLost
<1>8. QED
  BY <1>4, <1>5, <1>6, <1>7 DEF InputInv, ReadInPlace

(* The reader takes a slot: the one that the n-th code was sent to.        *)
LEMMA FetchKeeps ==
  ASSUME InputInv, NEW d \in Rings, Fetch(d)
  PROVE  InputInv'
<1>1. PICK t : t = IF tail[d] = Size THEN 0 ELSE tail[d]
  OBVIOUS
<1>2. /\ tail' = [tail EXCEPT ![d] = t]
      /\ cpu' = [at |-> "load", ring |-> d, ret |-> buf[d][t], reg |-> 0]
      /\ read' = [read EXCEPT ![d] = @ + 1]
      /\ count[d] # 0
  BY <1>1 DEF Fetch
<1>3. /\ UNCHANGED <<buf, head, count, code, mods, mouse_count, packet>>
      /\ UNCHANGED <<written, lost, overrun, pending>>
      /\ \A e \in Rings : ~Reading(e)
  BY DEF Fetch, Reads, device, ghost, Reading, Rings
<1>4. /\ \A e \in Rings : Reading(e)' <=> e = d
      /\ cpu'.at = "load" /\ cpu'.ring = d /\ cpu'.ret = buf[d][t] /\ cpu'.reg = 0
  BY <1>2 DEF Reading
<1>5. TypeOK
  BY DEF InputInv, ReadInPlace
<1>6. /\ read'[d] = read[d] + 1 /\ tail'[d] = t
      /\ \A e \in Rings \ {d} : read'[e] = read[e] /\ tail'[e] = tail[e]
      /\ read' \in [Rings -> Nat]
  <2>1. read \in [Rings -> Nat]
    BY DEF InputInv, Pointers
  <2>2. tail \in [Rings -> 0..Size]
    BY <1>5 DEF TypeOK
  <2>3. read' = [read EXCEPT ![d] = read[d] + 1] /\ read[d] + 1 \in Nat
    BY <1>2, <2>1
  <2>4. QED
    BY <1>2, <2>1, <2>2, <2>3
<1>7. \A e \in Rings : Done(e) = read[e] /\ Done(e)' = read[e]
  <2> SUFFICES ASSUME NEW e \in Rings
               PROVE  Done(e) = read[e] /\ Done(e)' = read[e]
    OBVIOUS
  <2>1. read[e] \in Nat
    BY InputTypes
  <2>2. QED
    BY <1>3, <1>4, <1>6, <2>1 DEF Done
<1>8. /\ t \in 0..(Size - 1) /\ Wraps(t, read[d])
      /\ \E k \in Int : read[d] = t + k * Size
  <2>1. read[d] \in Int /\ Wraps(tail[d], read[d])
    BY <1>7, InputTypes DEF InputInv, Pointers
  <2>2. QED
    BY <1>1, <2>1, WrapsOn
<1>9. read[d] < written[d]
  <2>1. count[d] + read[d] + lost[d] = written[d] + 0
    BY <1>3 DEF InputInv, ReadInPlace, LagIsLost
  <2>2. QED
    BY <1>2, <2>1, InputTypes, SMTT(30)
<1>10. PICK n \in Nat : n = buf[d][t][1]
  BY <1>8, InputTypes
<1>11. n >= read[d] + 1 /\ (n - (read[d] + 1)) % Size = 0 /\ (written[d] - read[d] <= Size => n = read[d] + 1)
  <2>1. \/ n = 0 /\ t >= written[d]
        \/ n \in 1..written[d] /\ n > written[d] - Size /\ \E j \in Int : n = t + 1 + j * Size
    BY <1>8, <1>10 DEF InputInv, Slots, Holds
  <2>2. written[d] \in Nat /\ read[d] \in Nat
    BY InputTypes
  <2>3. PICK k \in Int : read[d] = t + k * Size
    BY <1>8
  <2>4. QED
    BY <1>8, <1>9, <2>1, <2>2, <2>3, SlotRead
<1>12. Pointers'
  <2>1. ASSUME NEW e \in Rings
        PROVE  /\ Wraps(head[e], written[e])' /\ Wraps(tail[e], Done(e))'
               /\ Reading(e)' => tail'[e] < Size
               /\ ~overrun'[e] => written'[e] - read'[e] <= Size
    <3>1. Wraps(head[e], written[e])'
      BY <1>3 DEF InputInv, Pointers, Wraps
    <3>2. Wraps(tail[e], Done(e))' /\ (Reading(e)' => tail'[e] < Size)
      <4>1. CASE e = d
        <5>1. tail'[e] = t /\ Done(e)' = read[d] /\ t < Size
          BY <1>6, <1>7, <1>8, <4>1, Bytes
        <5>2. QED
          BY <1>8, <5>1 DEF Wraps
      <4>2. CASE e # d
        <5>1. tail'[e] = tail[e] /\ Done(e)' = Done(e) /\ ~Reading(e)'
          BY <1>4, <1>6, <1>7, <4>2
        <5>2. QED
          BY <5>1 DEF InputInv, Pointers, Wraps
      <4>3. QED
        BY <4>1, <4>2
    <3>3. ASSUME ~overrun'[e]
          PROVE  written'[e] - read'[e] <= Size
      <4>1. written[e] - read[e] <= Size /\ written'[e] = written[e]
        BY <1>3, <3>3 DEF InputInv, Pointers
      <4>2. read'[e] = read[e] \/ read'[e] = read[e] + 1
        BY <1>6
      <4>3. QED
        BY <4>1, <4>2, InputTypes
    <3>4. QED
      BY <3>1, <3>2, <3>3
  <2>2. QED
    BY <1>3, <1>6, <2>1 DEF InputInv, Pointers
<1>13. Slots' /\ Phase'
  BY <1>3, <1>7 DEF InputInv, Slots, Holds, Phase, Turn, Rings
<1>14. Counted'
  <2>1. count'[d] = count[d] /\ count[d] \in Nat
    BY <1>3, InputTypes
  <2>2. QED
    BY <1>2, <1>4, <2>1 DEF Counted, Rings
<1>15. TypeOK'
  <2>1. buf[d][t] \in Nat \X Byte
    BY <1>8, InputTypes
  <2>2. cpu' \in [at : Rings \union {"wait", "load", "store"}, ring : Rings,
                  ret : Nat \X Byte, reg : Nat]
    BY <1>2, <2>1
  <2>3. tail' \in [Rings -> 0..Size]
    BY <1>2, <1>5, <1>8, Bytes DEF TypeOK
  <2>4. QED
    BY <1>3, <1>5, <2>2, <2>3 DEF TypeOK
<1>16. LagIsLost'
  <2> SUFFICES ASSUME NEW e \in Rings
               PROVE  count'[e] + read'[e] + lost'[e] = written'[e] + (IF Reading(e)' THEN 1 ELSE 0)
    BY <1>4 DEF LagIsLost
  <2>1. count[e] + read[e] + lost[e] = written[e] + 0
    BY <1>3 DEF InputInv, ReadInPlace, LagIsLost
  <2>2. written[e] \in Nat /\ read[e] \in Nat /\ lost[e] \in Nat /\ count[e] \in Nat
    BY InputTypes
  <2>3. CASE e = d
    BY <1>3, <1>4, <1>6, <2>1, <2>2, <2>3
  <2>4. CASE e # d
    BY <1>3, <1>4, <1>6, <2>1, <2>2, <2>4
  <2>5. QED
    BY <2>3, <2>4
<1>17. ReadInPlace'
  <2>1. overrun'[d] \/ n = read'[d]
    BY <1>3, <1>6, <1>11 DEF InputInv, Pointers
  <2>2. QED
    BY <1>4, <1>6, <1>10, <1>11, <1>15, <1>16, <2>1 DEF ReadInPlace
<1>18. QED
  BY <1>12, <1>13, <1>14, <1>17 DEF InputInv

(* The reader loads the count that it has seen to be positive.             *)
LEMMA LoadKeeps ==
  ASSUME InputInv, Load
  PROVE  InputInv'
<1>1. /\ UNCHANGED <<buf, head, tail, count, code, mods, mouse_count, packet>>
      /\ UNCHANGED <<written, read, lost, overrun, pending>>
      /\ cpu.at = "load" /\ cpu' = [cpu EXCEPT !.at = "store", !.reg = count[cpu.ring]]
  BY DEF Load, Reads, device, ghost
<1>2. TypeOK
  BY DEF InputInv, ReadInPlace
<1>3. /\ cpu'.at = "store" /\ cpu'.ring = cpu.ring /\ cpu'.ret = cpu.ret /\ cpu'.reg = count[cpu.ring]
      /\ cpu' \in [at : Rings \union {"wait", "load", "store"}, ring : Rings,
                   ret : Nat \X Byte, reg : Nat]
  BY <1>1, <1>2 DEF TypeOK
<1>4. \A e \in Rings : (Reading(e)' <=> Reading(e)) /\ Done(e)' = Done(e)
  BY <1>1, <1>3 DEF Reading, Done
<1>5. Pointers'
  BY <1>1, <1>4 DEF InputInv, Pointers, Wraps
<1>6. Slots' /\ Counted' /\ Phase'
  BY <1>1, <1>3, <1>4 DEF InputInv, Slots, Holds, Counted, Phase, Turn, Rings
<1>7. TypeOK'
  BY <1>1, <1>2, <1>3 DEF TypeOK
<1>8. LagIsLost'
  BY <1>1, <1>3, <1>4 DEF InputInv, ReadInPlace, LagIsLost, Reading
<1>9. QED
  BY <1>1, <1>3, <1>4, <1>5, <1>6, <1>7, <1>8 DEF InputInv, ReadInPlace
-----------------------------------------------------------------------------
(* The next byte that the mouse's reader hands on is the next of the turn. *)
LEMMA PhaseOn ==
  ASSUME NEW m \in Nat, NEW n \in Nat, n = m + 1, packet \in [1..3 -> Nat], analysis_mousecode(n),
         \/ m = 0 /\ mouse_count = 0 /\ packet = <<0, 0, 0>>
         \/ Turn(m)
  PROVE  Turn(n)'
<1>1. CASE m = 0 /\ mouse_count = 0 /\ packet = <<0, 0, 0>>
  <2>1. mouse_count' = 1 /\ packet' = <<0, 0, 0>> /\ n = 3 * 0 + 1
    BY <1>1 DEF analysis_mousecode
  <2>2. n = 3 * 0 + mouse_count'
    BY <2>1
  <2>3. \A i \in 1..3 : packet'[i] = 0 /\ ~(i < mouse_count')
    BY <2>1
  <2>4. QED
    BY <2>1, <2>2, <2>3 DEF Turn
<1>2. CASE Turn(m)
  <2>1. PICK q \in Nat :
          /\ m = 3 * q + mouse_count /\ mouse_count \in 1..3
          /\ \A i \in 1..3 : packet[i] = IF i < mouse_count THEN 3 * q + 1 + i
                                         ELSE IF q = 0 THEN 0 ELSE 3 * q + i - 2
    BY <1>2 DEF Turn
  <2>2. /\ packet' = [packet EXCEPT ![mouse_count] = n]
        /\ mouse_count' = IF mouse_count = 3 THEN 1 ELSE mouse_count + 1
    BY <2>1 DEF analysis_mousecode
  <2>3. \A i \in 1..3 : packet'[i] = IF i = mouse_count THEN n ELSE packet[i]
    BY <2>2
  <2>4. CASE mouse_count = 3
    <3>1. PICK p \in Nat : p = q + 1
      OBVIOUS
    <3>2. mouse_count' = 1 /\ n = 3 * p + mouse_count' /\ p # 0
      BY <2>1, <2>2, <2>4, <3>1
    <3>3. \A i \in 1..3 : packet'[i] = 3 * p + i - 2 /\ ~(i < mouse_count')
      BY <2>1, <2>3, <2>4, <3>1, <3>2
    <3>4. QED
      BY <3>2, <3>3 DEF Turn
  <2>5. CASE mouse_count # 3
    <3>1. mouse_count' = mouse_count + 1 /\ mouse_count' \in 1..3 /\ n = 3 * q + mouse_count'
      BY <2>1, <2>2, <2>5
    <3>2. \A i \in 1..3 : packet'[i] = IF i < mouse_count' THEN 3 * q + 1 + i
                                       ELSE IF q = 0 THEN 0 ELSE 3 * q + i - 2
      BY <2>1, <2>3, <3>1
    <3>3. QED
      BY <3>1, <3>2 DEF Turn
  <2>6. QED
    BY <2>4, <2>5
<1>3. QED
  BY <1>1, <1>2

(* The reader stores the count, less one, and analyses what it has read.   *)
LEMMA StoreKeeps ==
  ASSUME InputInv, Store
  PROVE  InputInv'
<1>1. PICK d \in Rings : d = cpu.ring
  BY InputTypes DEF Rings
<1>2. /\ UNCHANGED <<buf, head, written, read, lost, overrun, pending>>
      /\ cpu.at = "store"
      /\ count' = [count EXCEPT ![d] = cpu.reg - 1]
      /\ tail' = [tail EXCEPT ![d] = @ + 1]
  BY <1>1 DEF Store, device, ghost
<1>3. Reading(d) /\ (\A e \in Rings \ {d} : ~Reading(e))
  BY <1>1, <1>2 DEF Reading
<1>4. TypeOK /\ cpu.reg >= 1 /\ tail[d] < Size
  BY <1>1, <1>2, <1>3 DEF InputInv, Counted, ReadInPlace, Pointers
<1>5. /\ cpu'.at \in {"kb", "mouse", "wait"} /\ cpu'.ring = "kb"
      /\ cpu' \in [at : Rings \union {"wait", "load", "store"}, ring : Rings,
                   ret : Nat \X Byte, reg : Nat]
  <2>1. PICK x \in {"kb", "mouse", "wait"} : cpu' = At(x)
    BY DEF Store, analysis_keycode, analysis_mousecode
  <2>2. QED
    BY <2>1, Bytes DEF At, Rings
<1>6. \A e \in Rings : ~Reading(e)'
  BY <1>5 DEF Reading
<1>7. Done(d)' = Done(d) + 1 /\ (\A e \in Rings \ {d} : Done(e)' = Done(e))
  BY <1>2, <1>3, <1>6, InputTypes DEF Done
<1>8. /\ tail'[d] = tail[d] + 1 /\ count'[d] = cpu.reg - 1
      /\ \A e \in Rings \ {d} : tail'[e] = tail[e] /\ count'[e] = count[e]
      /\ tail' \in [Rings -> 0..Size] /\ count' \in [Rings -> Nat]
  <2>1. tail \in [Rings -> 0..Size] /\ count \in [Rings -> Nat]
    BY <1>4 DEF TypeOK
  <2>2. tail[d] + 1 \in 0..Size /\ cpu.reg - 1 \in Nat
    BY <1>4, <2>1, InputTypes
  <2>3. QED
    BY <1>2, <2>1, <2>2
<1>9. Pointers'
  <2>1. ASSUME NEW e \in Rings
        PROVE  Wraps(tail[e], Done(e))'
    <3>1. CASE e = d
      <4>1. Done(d) \in Int /\ Wraps(tail[d], Done(d)) /\ tail[d] = IF tail[d] = Size THEN 0 ELSE tail[d]
        BY <1>4, InputTypes DEF InputInv, Pointers, Done
      <4>2. Wraps(tail[d] + 1, Done(d) + 1)
        BY <4>1, WrapsOn
      <4>3. QED
        BY <1>7, <1>8, <3>1, <4>2 DEF Wraps
    <3>2. CASE e # d
      BY <1>7, <1>8, <3>2 DEF InputInv, Pointers, Wraps
    <3>3. QED
      BY <3>1, <3>2
  <2>2. QED
    BY <1>2, <1>6, <2>1 DEF InputInv, Pointers, Wraps
<1>10. Slots' /\ Counted'
  BY <1>2, <1>5 DEF InputInv, Slots, Holds, Counted
<1>11. LagIsLost'
  <2> SUFFICES ASSUME NEW e \in Rings
               PROVE  count'[e] + read'[e] + lost'[e] = written'[e] + 0
    BY <1>6 DEF LagIsLost
  <2>1. /\ written[e] \in Nat /\ read[e] \in Nat /\ lost[e] \in Nat /\ count[e] \in Nat
        /\ cpu.reg \in Nat
    BY InputTypes
  <2>2. CASE e = d
    <3>1. cpu.reg + read[d] + lost[d] = written[d] + 1
      BY <1>2, <1>3 DEF InputInv, ReadInPlace, LagIsLost
    <3>2. QED
      BY <1>2, <1>8, <2>1, <2>2, <3>1
  <2>3. CASE e # d
    <3>1. count[e] + read[e] + lost[e] = written[e] + 0
      BY <1>3, <2>3 DEF InputInv, ReadInPlace, LagIsLost
    <3>2. QED
      BY <1>2, <1>8, <2>1, <2>3, <3>1
  <2>4. QED
    BY <2>2, <2>3
<1>12. CASE d = "kb"
  <2>1. PICK s : s = Append(code, cpu.ret[2])
    OBVIOUS
  <2>2. /\ UNCHANGED <<mouse_count, packet>>
        /\ (MoreCodes(s) /\ code' = s /\ UNCHANGED mods) \/ analysis_keycode(s)
    BY <1>1, <1>12, <2>1 DEF Store, Rings
  <2>3. s \in Seq(Byte)
    BY <1>4, <2>1, InputTypes DEF TypeOK
  <2>4. code' \in Seq(Byte) /\ Len(code') < 6
    <3>1. CASE code' = s /\ MoreCodes(s)
      <4>1. \/ Len(s) < 6 \/ Len(s) = 2 \/ Len(s) = 3
            \/ s = <<\hE0>>
        BY <3>1, Zenon DEF MoreCodes
      <4>2. Len(<<\hE0>>) = 1
        OBVIOUS
      <4>3. Len(s) < 6 \/ Len(s) = 2 \/ Len(s) = 3 \/ Len(s) = 1
        BY <4>1, <4>2, Zenon
      <4>4. Len(s) < 6
        BY <4>3, SMTT(30)
      <4>5. QED
        BY <2>3, <3>1, <4>4, Zenon
    <3>2. CASE code' = <<>>
      BY <3>2, EmptySeq
    <3>3. QED
      BY <2>2, <3>1, <3>2 DEF analysis_keycode
  <2>5. mods' \subseteq Modifiers
    <3>1. mods \subseteq Modifiers
      BY <1>4 DEF TypeOK
    <3>2. RightKey(mods, s) \subseteq Modifiers
      BY <3>1 DEF RightKey, Modifiers
    <3>3. \A x : NormalKey(mods, x) \subseteq Modifiers
      BY <3>1 DEF NormalKey, Modifiers
    <3>4. QED
      BY <2>2, <3>1, <3>2, <3>3 DEF analysis_keycode, Analysed
  <2>6. TypeOK'
    BY <1>2, <1>4, <1>5, <1>8, <2>2, <2>4, <2>5 DEF TypeOK
  <2>7. Phase'
    BY <1>2, <1>7, <1>12, <2>2 DEF InputInv, Phase, Turn, Rings
  <2>8. QED
    BY <1>6, <1>9, <1>10, <1>11, <2>6, <2>7 DEF InputInv, ReadInPlace
<1>13. CASE d = "mouse"
  <2>1. PICK n \in Nat : n = cpu.ret[1]
    BY InputTypes
  <2>2. analysis_mousecode(n) /\ UNCHANGED <<code, mods>>
    BY <1>1, <1>13, <2>1 DEF Store, Rings
  <2>3. packet \in [1..3 -> Nat] /\ mouse_count \in 0..3
    BY <1>4 DEF InputInv, Phase, TypeOK
  <2>4. packet' \in [1..3 -> Nat] /\ mouse_count' \in 0..3
    BY <2>2, <2>3 DEF analysis_mousecode
  <2>5. ASSUME ~overrun["mouse"]'
        PROVE  Turn(Done("mouse"))'
    <3>1. PICK m \in Int : m = Done("mouse")
      BY InputTypes DEF Done, Rings
    <3>2. n = read["mouse"] /\ m = read["mouse"] - 1
      BY <1>2, <1>3, <1>13, <2>1, <2>5, <3>1 DEF InputInv, ReadInPlace, Done
    <3>3. n = m + 1
      BY <2>1, <3>1, <3>2
    <3>4. \/ m = 0 /\ mouse_count = 0 /\ packet = <<0, 0, 0>>
          \/ Turn(m)
      BY <1>2, <2>5, <3>1 DEF InputInv, Phase
    <3>5. m \in Nat
      BY <2>1, <3>1, <3>4 DEF Turn
    <3>6. Turn(n)'
      BY <2>1, <2>2, <2>3, <3>3, <3>4, <3>5, PhaseOn
    <3>7. Done("mouse")' = n
      BY <1>7, <1>13, <3>1, <3>3
    <3>8. QED
      BY <3>6, <3>7 DEF Turn
  <2>6. TypeOK'
    BY <1>2, <1>4, <1>5, <1>8, <2>2, <2>4 DEF TypeOK
  <2>7. Phase'
    BY <2>4, <2>5 DEF Phase
  <2>8. QED
    BY <1>6, <1>9, <1>10, <1>11, <2>6, <2>7 DEF InputInv, ReadInPlace
<1>14. QED
  BY <1>12, <1>13 DEF Rings

(* Every step keeps the invariant.                                         *)
LEMMA InputStep == InputInv /\ [Next]_vars => InputInv'
<1> SUFFICES ASSUME InputInv, [Next]_vars
             PROVE  InputInv'
  OBVIOUS
<1>1. pending \in Seq(Byte)
  BY DEF InputInv, Pointers
<1>2. CASE Main
  BY <1>2, EmptyKeeps, FetchKeeps, LoadKeeps, StoreKeeps DEF Main
<1>3. CASE Spin \/ UNCHANGED vars
  <2>1. UNCHANGED vars
    BY <1>3 DEF Spin
  <2>2. UNCHANGED <<ring, cpu, code, mods, mouse_count, packet, written, read, ghost, pending>>
    BY <2>1 DEF vars, device
  <2>3. QED
    BY <1>1, <2>2, KeysKeep
<1>4. CASE keyboard_handler
  <2>1. Send("kb", written["kb"] + 1, Head(pending))
    BY <1>4 DEF keyboard_handler
  <2>2. Head(pending) \in Byte /\ pending' \in Seq(Byte)
    BY <1>1, <1>4 DEF keyboard_handler
  <2>3. QED
    BY <2>1, <2>2, SendKeeps DEF Rings
<1>5. CASE mouse_handler
  <2>1. Send("mouse", written["mouse"] + 1, 0) /\ pending' = pending
    BY <1>5 DEF mouse_handler, device
  <2>2. QED
    BY <1>1, <2>1, SendKeeps, Bytes DEF Rings
<1>6. ASSUME NEW k \in Keys, Press(k)
      PROVE  InputInv'
  <2>1. /\ UNCHANGED <<ring, cpu, code, mods, mouse_count, packet, written, read, ghost>>
        /\ pending' = DownCode(k)
    BY <1>6 DEF Press
  <2>2. QED
    BY <2>1, Bytes, KeysKeep
<1>7. ASSUME NEW k \in Keys, Release(k)
      PROVE  InputInv'
  <2>1. /\ UNCHANGED <<ring, cpu, code, mods, mouse_count, packet, written, read, ghost>>
        /\ pending' = UpCode(k)
    BY <1>7 DEF Release
  <2>2. QED
    BY <2>1, Bytes, KeysKeep
<1>8. QED
  BY <1>2, <1>3, <1>4, <1>5, <1>6, <1>7 DEF Next

(* The pointers stand where the numbers of codes written and read put      *)
(* them, every slot holds the last code sent to it, and the count is what  *)
(* the reader is behind, less what its stores have overwritten.            *)
THEOREM InputInvariant == Spec => []InputInv
<1>1. Init => InputInv
  BY InputInit
<1>2. InputInv /\ [Next]_vars => InputInv'
  BY InputStep
<1>3. QED
  BY <1>1, <1>2, PTL DEF Spec

(* The n-th read of a ring returns the n-th code, or after an overrun a    *)
(* later one of the same slot: a count++ lost to the reader's store never  *)
(* shifts the ring of get_scancode or get_mousecode.                       *)
THEOREM ReadsAreInPlace == Spec => []ReadInPlace
<1>1. InputInv => ReadInPlace
  BY DEF InputInv
<1>2. QED
  BY <1>1, InputInvariant, PTL

(* Bytes of the mouse reach analysis_mousecode in their places of packets, *)
(* and printed packets are three codes in a row.                           *)
THEOREM PacketsStayInPhase == Spec => []PacketsInPhase
<1>1. ASSUME InputInv
      PROVE  PacketsInPhase
  <2> SUFFICES ASSUME ~overrun["mouse"]
               PROVE  /\ \A i \in 1..3 : packet[i] # 0 => packet[i] % 3 = (i + 1) % 3
                      /\ (mouse_count = 1 /\ packet[3] # 0) =>
                           \A i \in 2..3 : packet[i] = packet[i - 1] + 1
    BY DEF PacketsInPhase
  <2>1. CASE packet = <<0, 0, 0>>
    BY <2>1
  <2>2. CASE Turn(Done("mouse"))
    <3>1. PICK q \in Nat :
            /\ mouse_count \in 1..3
            /\ \A i \in 1..3 : packet[i] = IF i < mouse_count THEN 3 * q + 1 + i
                                           ELSE IF q = 0 THEN 0 ELSE 3 * q + i - 2
      BY <2>2 DEF Turn
    <3>2. ASSUME NEW i \in 1..3, packet[i] # 0
          PROVE  packet[i] % 3 = (i + 1) % 3
      <4>1. packet[i] = 3 * q + (i + 1) \/ packet[i] = 3 * (q - 1) + (i + 1)
        BY <3>1, <3>2
      <4>2. QED
        BY <4>1
    <3>3. ASSUME mouse_count = 1, packet[3] # 0, NEW i \in 2..3
          PROVE  packet[i] = packet[i - 1] + 1
      <4>1. q # 0 /\ \A j \in 1..3 : packet[j] = 3 * q + j - 2
        BY <3>1, <3>3
      <4>2. QED
        BY <4>1
    <3>4. QED
      BY <3>2, <3>3
  <2>3. QED
    BY <1>1, <2>1, <2>2 DEF InputInv, Phase
<1>2. QED
  BY <1>1, InputInvariant, PTL
-----------------------------------------------------------------------------
(* What keys send, and what each of these does to the modifiers m.         *)
Strokes ==
  {<<>>, <<\h2A>>, <<\hAA>>, <<\hE0, \h1D>>, <<\hE0, \h9D>>, Pause, <<\hE0, \h37>>,
   <<\hE0, \h2A, \hE0, \h37>>, <<\hE0, \h47>>, <<\hE0, \h2A, \hE0, \h47>>,
   <<\hE0, \hB7, \hE0, \hAA>>, <<\hE0, \hC7>>}

Moved(m, s) == IF s = <<>> THEN m ELSE Analysed(m, s)

(* The bytes c and the bytes p behind them are those of s.                 *)
Within(s, c, p) ==
  /\ Len(c) + Len(p) = Len(s)
  /\ \A i \in 1..Len(c) : c[i] = s[i]
  /\ \A i \in 1..Len(p) : p[i] = s[Len(c) + i]

Follows(m) ==
  /\ m \ {"shift_l"} = (held \intersect Modifiers) \ {"shift_l"}
  /\ "shift_l" \in held => "shift_l" \in m
  /\ "feigned" \notin fooled => ("shift_l" \in m => "shift_l" \in held)

(* With c read of a key and the modifiers m, what is pending ends the key, *)
(* and m will be those held.                                               *)
Fits(c, m) ==
  \E s \in Strokes : Within(s, c, pending) /\ (pending = <<>> => s = <<>>) /\ Follows(Moved(m, s))

(* analysis_keycode on one more byte.                                      *)
Step(c, m, b, d, n) ==
  LET s == Append(c, b)
  IN  \/ MoreCodes(s) /\ d = s /\ n = m
      \/ ~MoreCodes(s) /\ d = <<>> /\ n = Analysed(m, s)

(* The n-th byte is B[n]; C[n] and M[n] are what the reader will have in   *)
(* code and mods when it is done with it.                                  *)
Decoded(B, C, M) ==
  /\ B \in [Nat -> Byte] /\ C \in [Nat -> Seq(Byte)] /\ M \in [Nat -> SUBSET Modifiers]
  /\ C[Done("kb")] = code /\ M[Done("kb")] = mods
  /\ \A n \in Nat : Done("kb") <= n /\ n < written["kb"] => Step(C[n], M[n], B[n + 1], C[n + 1], M[n + 1])
  /\ \A i \in 0..(Size - 1) : buf["kb"][i][1] # 0 => buf["kb"][i][2] = B[buf["kb"][i][1]]
  /\ Reading("kb") => cpu.ret[2] = B[cpu.ret[1]]
  /\ Fits(C[written["kb"]], M[written["kb"]])

FollowInv ==
  /\ Reading("kb") => read["kb"] >= 1
  /\ (~overrun["kb"] /\ "eaten" \notin fooled) => \E B, C, M : Decoded(B, C, M)

LEMMA StrokeBytes == Strokes \subseteq Seq(Byte)
<1>1. /\ <<>> \in Seq(Byte) /\ <<\h2A>> \in Seq(Byte) /\ <<\hAA>> \in Seq(Byte)
      /\ <<\hE0, \h1D>> \in Seq(Byte) /\ <<\hE0, \h9D>> \in Seq(Byte) /\ <<\hE0, \h37>> \in Seq(Byte)
      /\ <<\hE0, \h47>> \in Seq(Byte) /\ <<\hE0, \hC7>> \in Seq(Byte)
  BY EmptySeq DEF Byte
<1>2. /\ <<\hE0, \h2A, \hE0, \h37>> \in Seq(Byte) /\ <<\hE0, \h2A, \hE0, \h47>> \in Seq(Byte)
      /\ <<\hE0, \hB7, \hE0, \hAA>> \in Seq(Byte)
  BY DEF Byte
<1>3. Pause \in Seq(Byte)
  BY DEF Byte, Pause
<1>4. QED
  BY <1>1, <1>2, <1>3 DEF Strokes

(* A stroke is asked for to its last byte, and no further.                 *)
LEMMA StrokeEnds ==
  ASSUME NEW s \in Strokes, NEW q \in Seq(Byte), Len(q) \in 1..Len(s),
         \A i \in 1..Len(q) : q[i] = s[i]
  PROVE  MoreCodes(q) <=> Len(q) < Len(s)
<1>1. CASE s = <<>>
  BY <1>1
<1>2. CASE s \in {<<\h2A>>, <<\hAA>>}
  <2>1. Len(s) = 1 /\ s[1] \in {\h2A, \hAA}
    BY <1>2
  <2>2. Len(q) = 1 /\ q[1] \in {\h2A, \hAA}
    BY <2>1
  <2>3. QED
    BY <2>1, <2>2 DEF MoreCodes
<1>3. CASE s \in {<<\hE0, \h1D>>, <<\hE0, \h9D>>, <<\hE0, \h37>>, <<\hE0, \h47>>, <<\hE0, \hC7>>}
  <2>1. Len(s) = 2 /\ s[1] = \hE0 /\ s[2] \in {\h1D, \h9D, \h37, \h47, \hC7}
    BY <1>3
  <2>2. CASE Len(q) = 1
    <3>1. q = <<\hE0>>
      BY <2>1, <2>2
    <3>2. QED
      BY <2>1, <2>2, <3>1 DEF MoreCodes
  <2>3. CASE Len(q) = 2
    <3>1. q[1] = \hE0 /\ q[2] \in {\h1D, \h9D, \h37, \h47, \hC7} /\ q # <<\hE0>>
      BY <2>1, <2>3
    <3>2. QED
      BY <2>1, <2>3, <3>1 DEF MoreCodes
  <2>4. QED
    BY <2>1, <2>2, <2>3
<1>4. CASE s \in {<<\hE0, \h2A, \hE0, \h37>>, <<\hE0, \h2A, \hE0, \h47>>, <<\hE0, \hB7, \hE0, \hAA>>}
  <2>1. Len(s) = 4 /\ s[1] = \hE0 /\ s[2] \in {\h2A, \hB7} /\ s[3] = \hE0
    BY <1>4
  <2>2. CASE Len(q) = 1
    <3>1. q = <<\hE0>>
      BY <2>1, <2>2
    <3>2. QED
      BY <2>1, <2>2, <3>1 DEF MoreCodes
  <2>3. CASE Len(q) = 2
    BY <2>1, <2>3 DEF MoreCodes
  <2>4. CASE Len(q) = 3
    BY <2>1, <2>4 DEF MoreCodes
  <2>5. CASE Len(q) = 4
    <3>1. q[1] = \hE0 /\ q # <<\hE0>>
      BY <2>1, <2>5
    <3>2. QED
      BY <2>1, <2>5, <3>1 DEF MoreCodes
  <2>6. QED
    BY <2>1, <2>2, <2>3, <2>4, <2>5
<1>5. CASE s = Pause
  <2>1. Len(s) = 6 /\ s[1] = \hE1 /\ s = Pause
    BY <1>5 DEF Pause
  <2>2. Len(q) \in 1..6 /\ 1 \in 1..Len(q) /\ Len(q) \in 1..Len(q)
    BY <2>1
  <2>3. q[1] = s[1] /\ q[Len(q)] = s[Len(q)]
    BY <2>2
  <2>4. q # <<\hE0>>
    BY <2>1, <2>3
  <2>5. QED
    BY <2>1, <2>2, <2>3, <2>4 DEF MoreCodes, Last
<1>6. QED
  BY <1>1, <1>2, <1>3, <1>4, <1>5 DEF Strokes

LEMMA StrokeMoves ==
  ASSUME NEW m
  PROVE  /\ Moved(m, <<>>) = m
         /\ Moved(m, <<\h2A>>) = m \union {"shift_l"} /\ Moved(m, <<\hAA>>) = m \ {"shift_l"}
         /\ Moved(m, <<\hE0, \h1D>>) = m \union {"ctrl_r"} /\ Moved(m, <<\hE0, \h9D>>) = m \ {"ctrl_r"}
         /\ Moved(m, Pause) = m /\ Moved(m, <<\hE0, \h37>>) = m
         /\ Moved(m, <<\hE0, \h2A, \hE0, \h37>>) = m /\ Moved(m, <<\hE0, \h47>>) = m
         /\ Moved(m, <<\hE0, \h2A, \hE0, \h47>>) = m \union {"shift_l"}
         /\ Moved(m, <<\hE0, \hB7, \hE0, \hAA>>) = m /\ Moved(m, <<\hE0, \hC7>>) = m
<1>1. Moved(m, <<>>) = m
  BY DEF Moved
<1>2. ASSUME NEW x \in {\h2A, \hAA}
      PROVE  Moved(m, <<x>>) = IF x = \h2A THEN m \union {"shift_l"} ELSE m \ {"shift_l"}
  <2>1. PICK s : s = <<x>>
    OBVIOUS
  <2>2. s # <<>> /\ s[1] = x /\ Len(s) = 1 /\ x # \hE0
    BY <2>1
  <2>3. ~SpecialKey(s)
    BY <2>1, <2>2 DEF SpecialKey, Pause
  <2>4. Moved(m, s) = NormalKey(m, x)
    BY <2>2, <2>3 DEF Moved, Analysed
  <2>5. x % 128 = \h2A /\ (x < 128 <=> x = \h2A)
    OBVIOUS
  <2>6. NormalKey(m, x) = IF x < 128 THEN m \union {"shift_l"} ELSE m \ {"shift_l"}
    BY <2>5 DEF NormalKey
  <2>7. QED
    BY <2>1, <2>4, <2>5, <2>6
<1>3. ASSUME NEW x \in {\h1D, \h9D, \h37, \h47, \hC7}
      PROVE  Moved(m, <<\hE0, x>>) = CASE x = \h1D -> m \union {"ctrl_r"} [] x = \h9D -> m \ {"ctrl_r"}
                                       [] OTHER -> m
  <2>1. PICK s : s = <<\hE0, x>>
    OBVIOUS
  <2>2. s # <<>> /\ s[1] = \hE0 /\ s[2] = x /\ x \notin {\h2A, \hB7}
    BY <2>1
  <2>3. SpecialKey(s)
    BY <2>2 DEF SpecialKey
  <2>4. Moved(m, s) = RightKey(m, s)
    BY <2>2, <2>3 DEF Moved, Analysed
  <2>5. QED
    BY <2>1, <2>2, <2>4 DEF RightKey
<1>4. Moved(m, Pause) = m
  <2>1. Pause # <<>> /\ SpecialKey(Pause) /\ Pause[1] # \hE0
    BY DEF Pause, SpecialKey
  <2>2. QED
    BY <2>1 DEF Moved, Analysed
<1>5. ASSUME NEW s \in {<<\hE0, \h2A, \hE0, \h37>>, <<\hE0, \hB7, \hE0, \hAA>>}
      PROVE  Moved(m, s) = m
  <2>1. s # <<>> /\ SpecialKey(s) /\ s[1] = \hE0 /\ s[2] \in {\h2A, \hB7}
    BY <1>5 DEF SpecialKey
  <2>2. Moved(m, s) = RightKey(m, s)
    BY <2>1 DEF Moved, Analysed
  <2>3. QED
    BY <2>1, <2>2 DEF RightKey
<1>6. Moved(m, <<\hE0, \h2A, \hE0, \h47>>) = m \union {"shift_l"}
  <2>1. PICK s : s = <<\hE0, \h2A, \hE0, \h47>>
    OBVIOUS
  <2>2. s # <<>> /\ s[1] = \hE0 /\ s[2] = \h2A /\ s[4] = \h47 /\ Len(s) = 4
    BY <2>1
  <2>3. ~SpecialKey(s)
    <3>1. s # Pause /\ s # <<\hE0, \h2A, \hE0, \h37>> /\ s # <<\hE0, \hB7, \hE0, \hAA>>
      BY <2>2 DEF Pause
    <3>2. QED
      BY <2>2, <3>1 DEF SpecialKey
  <2>4. Moved(m, s) = NormalKey(m, \h2A)
    BY <2>2, <2>3 DEF Moved, Analysed
  <2>5. \h2A % 128 = \h2A /\ \h2A < 128
    OBVIOUS
  <2>6. QED
    BY <2>1, <2>4, <2>5 DEF NormalKey
<1>7. QED
  BY <1>1, <1>2, <1>3, <1>4, <1>5, <1>6

LEMMA FollowInit == Init => FollowInv
<1> SUFFICES ASSUME Init
             PROVE  ~Reading("kb") /\ \E B, C, M : Decoded(B, C, M)
  BY DEF FollowInv
<1>1. /\ code = <<>> /\ mods = {} /\ pending = <<>> /\ held \subseteq {"print"} /\ fooled = {}
      /\ read["kb"] = 0 /\ written["kb"] = 0 /\ cpu.at = "kb"
      /\ \A i \in 0..(Size - 1) : buf["kb"][i][1] = 0
  BY DEF Init, At, Rings
<1>2. ~Reading("kb") /\ Done("kb") = 0
  BY <1>1 DEF Reading, Done
<1>3. Follows({})
  BY <1>1 DEF Follows, Modifiers
<1>4. Within(<<>>, <<>>, <<>>) /\ Moved({}, <<>>) = {} /\ <<>> \in Strokes
  BY StrokeMoves DEF Within, Strokes
<1>5. Fits(<<>>, {})
  BY <1>1, <1>3, <1>4 DEF Fits
<1>6. PICK B, C, M : B = [n \in Nat |-> 0] /\ C = [n \in Nat |-> <<>>] /\ M = [n \in Nat |-> {}]
  OBVIOUS
<1>7. B \in [Nat -> Byte] /\ C \in [Nat -> Seq(Byte)] /\ M \in [Nat -> SUBSET Modifiers]
  BY <1>6, EmptySeq, Bytes
<1>8. C[0] = <<>> /\ M[0] = {}
  BY <1>6
<1>9. Decoded(B, C, M)
  BY <1>1, <1>2, <1>5, <1>7, <1>8 DEF Decoded
<1>10. QED
  BY <1>2, <1>9

(* The reader is not ahead of the device.                                  *)
LEMMA ReaderBehind ==
  ASSUME InputInv, Reading("kb") => read["kb"] >= 1
  PROVE  /\ read["kb"] <= written["kb"] /\ Done("kb") \in Nat /\ Done("kb") <= written["kb"]
         /\ Reading("kb") => Done("kb") = read["kb"] - 1 /\ Done("kb") < written["kb"]
         /\ \A i \in 0..(Size - 1) : buf["kb"][i][1] \in 0..written["kb"]
<1>1. /\ written["kb"] \in Nat /\ read["kb"] \in Nat /\ lost["kb"] \in Nat
      /\ count["kb"] \in Nat /\ cpu.reg \in Nat
  BY InputTypes DEF Rings
<1>2. \A i \in 0..(Size - 1) : buf["kb"][i][1] \in 0..written["kb"]
  BY <1>1 DEF InputInv, Slots, Holds, Rings
<1>3. CASE Reading("kb")
  <2>1. cpu.ring = "kb" /\ cpu.at \in {"load", "store"}
    BY <1>3 DEF Reading
  <2>2. PICK c \in Nat : c = (IF cpu.at = "store" THEN cpu.reg ELSE count["kb"]) /\ c >= 1
    BY <1>1, <2>1 DEF InputInv, Counted
  <2>3. c + read["kb"] + lost["kb"] = written["kb"] + 1
    BY <1>3, <2>2 DEF InputInv, ReadInPlace, LagIsLost, Rings
  <2>4. read["kb"] <= written["kb"]
    BY <1>1, <2>2, <2>3
  <2>5. QED
    BY <1>1, <1>2, <1>3, <2>4 DEF Done
<1>4. CASE ~Reading("kb")
  <2>1. count["kb"] + read["kb"] + lost["kb"] = written["kb"] + 0
    BY <1>4 DEF InputInv, ReadInPlace, LagIsLost, Rings
  <2>2. QED
    BY <1>1, <1>2, <1>4, <2>1 DEF Done
<1>5. QED
  BY <1>3, <1>4

(* G is F up to w, and x at w + 1.                                         *)
Extends(G, S, F, w, x) == G \in [Nat -> S] /\ G[w + 1] = x /\ \A k \in 0..w : G[k] = F[k]

LEMMA Extended ==
  ASSUME NEW S, NEW F, F \in [Nat -> S], NEW w, w \in Nat, NEW x, x \in S
  PROVE  \E G : Extends(G, S, F, w, x)
<1>1. PICK G : G = [k \in Nat |-> IF k = w + 1 THEN x ELSE F[k]]
  OBVIOUS
<1>2. G \in [Nat -> S]
  BY <1>1
<1>3. G[w + 1] = x /\ \A k \in 0..w : G[k] = F[k]
  BY <1>1
<1>4. QED
  BY <1>2, <1>3 DEF Extends

(* What a byte b does to a stroke s of which p is still to come.           *)
GoesOn(s, m, c, p, b, d, n, t) ==
  /\ d \in Seq(Byte) /\ n \in SUBSET Modifiers /\ t \in Strokes
  /\ Step(c, m, b, d, n) /\ Within(t, d, Tail(p))
  /\ (Tail(p) = <<>> => t = <<>>) /\ Moved(n, t) = Moved(m, s)

LEMMA MovedIn ==
  ASSUME NEW m \in SUBSET Modifiers, NEW s \in Strokes
  PROVE  Moved(m, s) \in SUBSET Modifiers
<1>1. Moved(m, s) \in {m, m \union {"shift_l"}, m \ {"shift_l"}, m \union {"ctrl_r"}, m \ {"ctrl_r"}}
  BY StrokeMoves DEF Strokes
<1>2. QED
  BY <1>1 DEF Modifiers

(* A byte more of a stroke is asked for another, or ends the stroke.       *)
LEMMA StrokeGoesOn ==
  ASSUME NEW s, s \in Strokes, NEW c, c \in Seq(Byte), NEW p, p \in Seq(Byte), p # <<>>,
         Within(s, c, p), NEW m, m \in SUBSET Modifiers
  PROVE  \E d, n, t : GoesOn(s, m, c, p, Head(p), d, n, t)
<1>1. PICK b \in Byte, r \in Seq(Byte) :
        /\ b = Head(p) /\ b = p[1] /\ r = Tail(p) /\ Len(r) = Len(p) - 1 /\ Len(p) \in Nat \ {0}
        /\ \A i \in 1..Len(r) : r[i] = p[i + 1]
  <2>1. Head(p) \in Byte /\ Head(p) = p[1] /\ Tail(p) \in Seq(Byte)
    OBVIOUS
  <2>2. Len(Tail(p)) = Len(p) - 1 /\ Len(p) \in Nat \ {0}
    OBVIOUS
  <2>3. \A i \in 1..Len(Tail(p)) : Tail(p)[i] = p[i + 1]
    OBVIOUS
  <2>4. QED
    BY <2>1, <2>2, <2>3, Zenon
<1>2. PICK q \in Seq(Byte) :
        q = Append(c, b) /\ Len(q) = Len(c) + 1 /\ Len(c) \in Nat
        /\ (\A i \in 1..Len(c) : q[i] = c[i]) /\ q[Len(c) + 1] = b
  <2>1. Append(c, b) \in Seq(Byte)
    OBVIOUS
  <2>2. /\ Len(Append(c, b)) = Len(c) + 1 /\ Len(c) \in Nat
        /\ \A i \in 1..Len(c) : Append(c, b)[i] = c[i]
        /\ Append(c, b)[Len(c) + 1] = b
    OBVIOUS
  <2>3. QED
    BY <2>1, <2>2
<1>3. /\ s \in Seq(Byte) /\ Len(s) = Len(c) + Len(p) /\ Len(s) \in Nat
      /\ \A i \in 1..Len(c) : c[i] = s[i]
      /\ \A i \in 1..Len(p) : p[i] = s[Len(c) + i]
  BY StrokeBytes DEF Within
<1>4. Len(q) \in 1..Len(s) /\ \A i \in 1..Len(q) : q[i] = s[i]
  BY <1>1, <1>2, <1>3
<1>5. MoreCodes(q) <=> Len(q) < Len(s)
  BY <1>4, StrokeEnds
<1>6. /\ Len(c) \in Nat /\ Len(p) \in Nat /\ Len(q) \in Nat /\ Len(r) \in Nat /\ Len(s) \in Nat
      /\ Len(q) = Len(c) + 1 /\ Len(r) = Len(p) - 1 /\ Len(s) = Len(c) + Len(p)
  <2>1. Len(r) \in Nat
    OBVIOUS
  <2>2. QED
    BY <1>1, <1>2, <1>3, <2>1
<1>7. CASE Len(q) < Len(s)
  <2>1. \A i \in 1..Len(r) : r[i] = s[Len(q) + i]
    <3>1. SUFFICES ASSUME NEW i \in 1..Len(r)
                   PROVE  r[i] = s[Len(q) + i]
      OBVIOUS
    <3>2. i + 1 \in 1..Len(p) /\ Len(c) + (i + 1) = Len(q) + i
      BY <1>6
    <3>3. QED
      BY <1>1, <1>3, <3>2
  <2>2. Len(q) + Len(r) = Len(s) /\ r # <<>>
    BY <1>6, <1>7
  <2>3. Within(s, q, r)
    BY <1>4, <2>1, <2>2 DEF Within
  <2>4. Step(c, m, b, q, m)
    BY <1>2, <1>5, <1>7 DEF Step
  <2>5. QED
    BY <1>1, <2>2, <2>3, <2>4 DEF GoesOn
<1>8. CASE Len(q) = Len(s)
  <2>1. q = s /\ s # <<>>
    BY <1>2, <1>3, <1>4, <1>8
  <2>2. r = <<>>
    BY <1>6, <1>8
  <2>3. PICK n \in SUBSET Modifiers : n = Moved(m, s)
    BY MovedIn
  <2>4. Step(c, m, b, <<>>, n)
    BY <1>2, <1>5, <1>8, <2>1, <2>3 DEF Step, Moved
  <2>5. Within(<<>>, <<>>, <<>>) /\ Moved(n, <<>>) = n /\ <<>> \in Strokes /\ <<>> \in Seq(Byte)
    BY StrokeMoves, EmptySeq DEF Within, Strokes
  <2>6. QED
    BY <1>1, <2>2, <2>3, <2>4, <2>5 DEF GoesOn
<1>9. QED
  BY <1>4, <1>2, <1>3, <1>7, <1>8

(* The keyboard sends one byte more: the reader will step once more.       *)
LEMMA SendFollows ==
  ASSUME InputInv, FollowInv, keyboard_handler
  PROVE  FollowInv'
<1>1. /\ pending # <<>> /\ pending' = Tail(pending) /\ UNCHANGED <<held, fooled>>
      /\ UNCHANGED <<tail, cpu, code, mods, mouse_count, packet, read>>
      /\ buf' = [buf EXCEPT !["kb"][IF head["kb"] = Size THEN 0 ELSE head["kb"]] =
                   <<written["kb"] + 1, Head(pending)>>]
      /\ written' = [written EXCEPT !["kb"] = written["kb"] + 1]
      /\ IF (written["kb"] + 1) - read["kb"] > Size THEN overrun' = [overrun EXCEPT !["kb"] = TRUE]
         ELSE UNCHANGED overrun
  BY DEF keyboard_handler, Send
<1>2. (Reading("kb")' <=> Reading("kb")) /\ Done("kb")' = Done("kb")
  BY <1>1 DEF Reading, Done
<1>3. Reading("kb") => read["kb"] >= 1
  BY DEF FollowInv
<1>4. Reading("kb")' => read'["kb"] >= 1
  BY <1>1, <1>2, <1>3
<1>5. ~overrun'["kb"] => ~overrun["kb"]
  BY <1>1 DEF InputInv, Pointers, Rings
<1>6. ASSUME ~overrun["kb"], "eaten" \notin fooled
      PROVE  \E B, C, M : Decoded(B, C, M)'
  <2>1. PICK B, C, M : Decoded(B, C, M)
    BY <1>6 DEF FollowInv
  <2>2. PICK w \in Nat : w = written["kb"]
    BY InputTypes DEF Rings
  <2>3. PICK e \in Nat : e = Done("kb") /\ e <= w
    BY <1>3, <2>2, ReaderBehind
  <2>4. /\ B \in [Nat -> Byte] /\ C \in [Nat -> Seq(Byte)] /\ M \in [Nat -> SUBSET Modifiers]
        /\ C[e] = code /\ M[e] = mods
        /\ \A n \in Nat : e <= n /\ n < w => Step(C[n], M[n], B[n + 1], C[n + 1], M[n + 1])
    BY <2>1, <2>2, <2>3 DEF Decoded
  <2>5. PICK c \in Seq(Byte), m \in SUBSET Modifiers : c = C[w] /\ m = M[w]
    BY <2>4
  <2>6. PICK s \in Strokes : Within(s, c, pending) /\ Follows(Moved(m, s))
    BY <2>1, <2>2, <2>5 DEF Decoded, Fits
  <2>7. /\ pending \in Seq(Byte) /\ Head(pending) \in Byte
    BY <1>1 DEF InputInv, Pointers
  <2>8. PICK b \in Byte : b = Head(pending)
    BY <2>7
  <2>9. PICK d \in Seq(Byte), n \in SUBSET Modifiers, t \in Strokes :
          /\ Step(c, m, b, d, n) /\ Within(t, d, pending')
          /\ (pending' = <<>> => t = <<>>) /\ Moved(n, t) = Moved(m, s)
    <3>1. pending # <<>> /\ pending' = Tail(pending)
      BY <1>1
    <3>2. /\ Within(s, c, pending) /\ pending \in Seq(Byte)
          /\ s \in Strokes /\ c \in Seq(Byte) /\ m \in SUBSET Modifiers
      BY <2>6, <2>7
    <3>3. \E d, n, t : GoesOn(s, m, c, pending, Head(pending), d, n, t)
      BY <3>1, <3>2, StrokeGoesOn
    <3>4. QED
      BY <2>8, <3>1, <3>3 DEF GoesOn
  <2>10. Fits(d, n)'
    BY <1>1, <2>6, <2>9 DEF Fits, Follows
  <2>11. PICK B1 : Extends(B1, Byte, B, w, b)
    <3>1. B \in [Nat -> Byte] /\ b \in Byte /\ w \in Nat
      BY <2>4
    <3>2. QED
      BY <3>1, Extended
  <2>12. PICK C1 : Extends(C1, Seq(Byte), C, w, d)
    <3>1. C \in [Nat -> Seq(Byte)] /\ d \in Seq(Byte) /\ w \in Nat
      BY <2>4
    <3>2. QED
      BY <3>1, Extended
  <2>13. PICK M1 : Extends(M1, SUBSET Modifiers, M, w, n)
    <3>1. M \in [Nat -> SUBSET Modifiers] /\ n \in SUBSET Modifiers /\ w \in Nat
      BY <2>4
    <3>2. QED
      BY <3>1, Extended
  <2>14. /\ B1[w + 1] = b /\ C1[w + 1] = d /\ M1[w + 1] = n
         /\ \A k \in 0..w : B1[k] = B[k] /\ C1[k] = C[k] /\ M1[k] = M[k]
    BY <2>11, <2>12, <2>13 DEF Extends
  <2>15. \A k \in Nat : e <= k /\ k < w + 1 => Step(C1[k], M1[k], B1[k + 1], C1[k + 1], M1[k + 1])
    <3>1. SUFFICES ASSUME NEW k \in Nat, e <= k, k < w + 1
                   PROVE  Step(C1[k], M1[k], B1[k + 1], C1[k + 1], M1[k + 1])
      OBVIOUS
    <3>2. CASE k = w
      BY <2>5, <2>9, <2>14, <3>2
    <3>3. CASE k < w
      <4>1. k \in 0..w /\ k + 1 \in 0..w
        BY <3>3
      <4>2. Step(C[k], M[k], B[k + 1], C[k + 1], M[k + 1])
        BY <2>4, <3>1, <3>3
      <4>3. QED
        BY <2>14, <4>1, <4>2
    <3>4. QED
      BY <3>1, <3>2, <3>3
  <2>16. \A i \in 0..(Size - 1) : buf'["kb"][i][1] # 0 => buf'["kb"][i][2] = B1[buf'["kb"][i][1]]
    <3>1. SUFFICES ASSUME NEW i \in 0..(Size - 1)
                   PROVE  buf'["kb"][i][1] # 0 => buf'["kb"][i][2] = B1[buf'["kb"][i][1]]
      OBVIOUS
    <3>2. buf["kb"][i][1] \in 0..w /\ buf \in [Rings -> [0..(Size - 1) -> Nat \X Byte]]
      BY <1>3, <2>2, ReaderBehind DEF InputInv, ReadInPlace, TypeOK
    <3>3. buf'["kb"][i] = <<w + 1, b>> \/ buf'["kb"][i] = buf["kb"][i]
      <4>1. PICK h : h = IF head["kb"] = Size THEN 0 ELSE head["kb"]
        OBVIOUS
      <4>2. buf' = [buf EXCEPT !["kb"][h] = <<w + 1, b>>]
        BY <1>1, <2>2, <2>8, <4>1, Zenon
      <4>3. QED
        BY <3>2, <4>2 DEF Rings
    <3>4. buf["kb"][i][1] # 0 => buf["kb"][i][2] = B[buf["kb"][i][1]]
      BY <2>1 DEF Decoded
    <3>5. CASE buf'["kb"][i] = <<w + 1, b>>
      BY <2>14, <3>5
    <3>6. CASE buf'["kb"][i] = buf["kb"][i]
      BY <2>14, <3>2, <3>4, <3>6
    <3>7. QED
      BY <3>3, <3>5, <3>6
  <2>17. Reading("kb")' => cpu'.ret[2] = B1[cpu'.ret[1]]
    <3>1. SUFFICES ASSUME Reading("kb")
                   PROVE  cpu.ret[2] = B1[cpu.ret[1]]
      BY <1>1, <1>2
    <3>2. cpu.ret[2] = B[cpu.ret[1]]
      BY <2>1, <3>1 DEF Decoded
    <3>3. cpu.ret[1] = read["kb"]
      BY <1>6, <3>1 DEF InputInv, ReadInPlace, Rings
    <3>4. read["kb"] \in 0..w
      BY <1>3, <2>2, <3>1, ReaderBehind, InputTypes DEF Rings
    <3>5. QED
      BY <2>14, <3>2, <3>3, <3>4
  <2>18. written'["kb"] = w + 1 /\ Done("kb")' = e
    BY <1>1, <1>2, <2>2, <2>3 DEF InputInv, Pointers, Rings
  <2>19. C1[e] = code' /\ M1[e] = mods'
    <3>1. e \in 0..w
      BY <2>2, <2>3
    <3>2. QED
      BY <1>1, <2>4, <2>14, <3>1
  <2>20. Decoded(B1, C1, M1)'
    <3>1. B1 \in [Nat -> Byte] /\ C1 \in [Nat -> Seq(Byte)] /\ M1 \in [Nat -> SUBSET Modifiers]
      BY <2>11, <2>12, <2>13 DEF Extends
    <3>2. Fits(C1[w + 1], M1[w + 1])'
      BY <2>10, <2>14
    <3>3. QED
      BY <2>15, <2>16, <2>17, <2>18, <2>19, <3>1, <3>2 DEF Decoded
  <2>21. QED
    BY <2>20
<1>7. QED
  BY <1>1, <1>4, <1>5, <1>6 DEF FollowInv

(* A step that is no key's and decodes no byte.                            *)
LEMMA QuietFollows ==
  ASSUME FollowInv, Done("kb")' = Done("kb"), Reading("kb")' => read'["kb"] >= 1,
         UNCHANGED <<pending, held, fooled, code, mods>>,
         buf'["kb"] = buf["kb"], written'["kb"] = written["kb"], overrun'["kb"] = overrun["kb"],
         Reading("kb")' /\ ~overrun["kb"] =>
           \/ Reading("kb") /\ cpu'.ret = cpu.ret
           \/ cpu'.ret[1] # 0 /\ \E i \in 0..(Size - 1) : cpu'.ret = buf["kb"][i]
  PROVE  FollowInv'
<1>1. ASSUME ~overrun["kb"], "eaten" \notin fooled
      PROVE  \E B, C, M : Decoded(B, C, M)'
  <2>1. PICK B, C, M : Decoded(B, C, M)
    BY <1>1 DEF FollowInv
  <2>2. Reading("kb")' => cpu'.ret[2] = B[cpu'.ret[1]]
    BY <1>1, <2>1 DEF Decoded
  <2>3. Fits(C[written["kb"]], M[written["kb"]])'
    BY <2>1 DEF Decoded, Fits, Follows
  <2>4. Decoded(B, C, M)'
    BY <2>1, <2>2, <2>3 DEF Decoded
  <2>5. QED
    BY <2>4
<1>2. QED
  BY <1>1 DEF FollowInv

(* A key goes down or up: its bytes are to come, and so are its modifiers. *)
LEMMA KeyFollows ==
  ASSUME InputInv, FollowInv, NEW s, s \in Strokes, pending = <<>>, pending' = s, fooled \subseteq fooled',
         UNCHANGED <<ring, cpu, code, mods, written, read, ghost>>,
         \A m \in SUBSET Modifiers :
           Follows(m) /\ "eaten" \notin fooled' => Follows(Moved(m, s))'
  PROVE  FollowInv'
<1>1. /\ Reading("kb")' = Reading("kb") /\ Done("kb")' = Done("kb")
      /\ UNCHANGED <<buf, cpu, code, mods, written, read, overrun>>
  BY DEF Reading, Done, ring, ghost
<1>2. ASSUME ~overrun["kb"], "eaten" \notin fooled'
      PROVE  \E B, C, M : Decoded(B, C, M)'
  <2>1. PICK B, C, M : Decoded(B, C, M)
    BY <1>2 DEF FollowInv
  <2>2. PICK w \in Nat : w = written["kb"]
    BY InputTypes DEF Rings
  <2>3. PICK c \in Seq(Byte), m \in SUBSET Modifiers : c = C[w] /\ m = M[w]
    BY <2>1, <2>2 DEF Decoded
  <2>4. Within(<<>>, c, <<>>) /\ Follows(m)
    <3>1. Moved(m, <<>>) = m
      BY StrokeMoves
    <3>2. QED
      BY <2>1, <2>2, <2>3, <3>1 DEF Decoded, Fits
  <2>5. Len(c) = 0 /\ Len(s) \in Nat
    BY <2>4, StrokeBytes DEF Within
  <2>6. Follows(Moved(m, s))'
    BY <1>2, <2>4
  <2>7. Within(s, c, s)
    BY <2>5 DEF Within
  <2>8. Fits(c, m)'
    BY <2>6, <2>7 DEF Fits
  <2>9. Decoded(B, C, M)'
    BY <1>1, <2>1, <2>2, <2>3, <2>8 DEF Decoded
  <2>10. QED
    BY <2>9
<1>3. QED
  BY <1>1, <1>2 DEF FollowInv

LEMMA PressFollows ==
  ASSUME InputInv, FollowInv, NEW k \in Keys, Press(k)
  PROVE  FollowInv'
<1>1. /\ pending = <<>> /\ pending' = DownCode(k)
      /\ held' = (IF k = "pause" THEN held ELSE held \union {k})
      /\ fooled' = (IF k = "home" /\ "shift_l" \notin held THEN fooled \union {"feigned"} ELSE fooled)
      /\ UNCHANGED <<ring, cpu, code, mods, written, read, ghost>>
  BY DEF Press
<1>2. PICK s \in Strokes : s = pending' /\ s = DownCode(k)
  BY <1>1, InputAssumption DEF DownCode, Strokes
<1>3. ASSUME NEW m \in SUBSET Modifiers, Follows(m)
      PROVE  Follows(Moved(m, s))'
  <2>1. CASE k = "shift_l"
    BY <1>1, <1>2, <1>3, <2>1, StrokeMoves DEF DownCode, Follows, Modifiers
  <2>2. CASE k = "ctrl_r"
    BY <1>1, <1>2, <1>3, <2>2, StrokeMoves DEF DownCode, Follows, Modifiers
  <2>3. CASE k = "pause"
    BY <1>1, <1>2, <1>3, <2>3, StrokeMoves DEF DownCode, Follows, Modifiers
  <2>4. CASE k = "print"
    BY <1>1, <1>2, <1>3, <2>4, StrokeMoves DEF DownCode, Follows, Modifiers
  <2>5. CASE k = "home" /\ "shift_l" \in held
    BY <1>1, <1>2, <1>3, <2>5, StrokeMoves DEF DownCode, Follows, Modifiers
  <2>6. CASE k = "home" /\ "shift_l" \notin held
    BY <1>1, <1>2, <1>3, <2>6, StrokeMoves DEF DownCode, Follows, Modifiers
  <2>7. QED
    BY <2>1, <2>2, <2>3, <2>4, <2>5, <2>6, InputAssumption
<1>4. s \in Strokes /\ pending' = s /\ fooled \subseteq fooled'
  BY <1>1, <1>2
<1>5. QED
  BY <1>1, <1>3, <1>4, KeyFollows

LEMMA ReleaseFollows ==
  ASSUME InputInv, FollowInv, NEW k \in Keys, Release(k)
  PROVE  FollowInv'
<1>1. /\ pending = <<>> /\ pending' = UpCode(k) /\ held' = held \ {k}
      /\ fooled' = (IF k = "print" /\ "shift_l" \in held THEN fooled \union {"eaten"} ELSE fooled)
      /\ UNCHANGED <<ring, cpu, code, mods, written, read, ghost>>
  BY DEF Release
<1>2. CASE k = "print" /\ "shift_l" \in held
  <2>1. "eaten" \in fooled' /\ Reading("kb")' = Reading("kb") /\ read' = read
    BY <1>1, <1>2 DEF Reading
  <2>2. QED
    BY <2>1 DEF FollowInv
<1>3. CASE ~(k = "print" /\ "shift_l" \in held)
  <2>1. PICK s \in Strokes : s = pending' /\ s = UpCode(k) /\ fooled' = fooled
    BY <1>1, <1>3, InputAssumption DEF UpCode, Strokes
  <2>2. ASSUME NEW m \in SUBSET Modifiers, Follows(m)
        PROVE  Follows(Moved(m, s))'
    <3>1. CASE k = "shift_l"
      BY <1>1, <2>1, <2>2, <3>1, StrokeMoves DEF UpCode, Follows, Modifiers
    <3>2. CASE k = "ctrl_r"
      BY <1>1, <2>1, <2>2, <3>2, StrokeMoves DEF UpCode, Follows, Modifiers
    <3>3. CASE k = "pause"
      BY <1>1, <2>1, <2>2, <3>3, StrokeMoves DEF UpCode, Follows, Modifiers
    <3>4. CASE k = "print"
      BY <1>1, <1>2, <1>3, <2>1, <2>2, <3>4, StrokeMoves DEF UpCode, Follows, Modifiers
    <3>5. CASE k = "home"
      BY <1>1, <2>1, <2>2, <3>5, StrokeMoves DEF UpCode, Follows, Modifiers
    <3>6. QED
      BY <3>1, <3>2, <3>3, <3>4, <3>5, InputAssumption
  <2>3. s \in Strokes /\ pending' = s /\ fooled \subseteq fooled'
    BY <2>1
  <2>4. QED
    BY <1>1, <2>2, <2>3, KeyFollows
<1>4. QED
  BY <1>2, <1>3

(* The reader takes a byte of the keyboard's: it is what was decoded.      *)
LEMMA StoreFollows ==
  ASSUME InputInv, FollowInv, Store, Reading("kb")
  PROVE  FollowInv'
<1>1. /\ cpu.ring = "kb" /\ cpu.at = "store"
      /\ UNCHANGED <<buf, written, read, pending, held, fooled, overrun>>
      /\ \/ /\ MoreCodes(Append(code, cpu.ret[2]))
            /\ code' = Append(code, cpu.ret[2]) /\ mods' = mods /\ cpu' = At("wait")
         \/ /\ ~MoreCodes(Append(code, cpu.ret[2])) /\ cpu' = At("mouse")
            /\ code' = <<>> /\ mods' = Analysed(mods, Append(code, cpu.ret[2]))
  BY DEF Store, Reading, analysis_keycode, device, ghost
<1>2. ~Reading("kb")' /\ Done("kb")' = read["kb"]
  BY <1>1 DEF Reading, Done, At
<1>3. ASSUME ~overrun["kb"], "eaten" \notin fooled
      PROVE  \E B, C, M : Decoded(B, C, M)'
  <2>1. PICK B, C, M : Decoded(B, C, M)
    BY <1>3 DEF FollowInv
  <2>2. PICK e \in Nat : e = Done("kb") /\ e < written["kb"] /\ read["kb"] = e + 1 /\ written["kb"] \in Nat
    <3>1. Reading("kb") => read["kb"] >= 1
      BY DEF FollowInv
    <3>2. /\ Done("kb") \in Nat /\ Done("kb") = read["kb"] - 1 /\ Done("kb") < written["kb"]
          /\ read["kb"] \in Nat /\ written["kb"] \in Nat
      BY <3>1, ReaderBehind, InputTypes DEF Rings
    <3>3. QED
      BY <3>2
  <2>3. cpu.ret[1] = e + 1
    BY <1>3, <2>2 DEF InputInv, ReadInPlace, Rings
  <2>4. Step(C[e], M[e], B[e + 1], C[e + 1], M[e + 1])
    <3>1. \A n \in Nat : e <= n /\ n < written["kb"] => Step(C[n], M[n], B[n + 1], C[n + 1], M[n + 1])
      BY <2>1, <2>2 DEF Decoded
    <3>2. e <= e /\ e < written["kb"] /\ e \in Nat
      BY <2>2
    <3>3. QED
      BY <3>1, <3>2
  <2>5. C[e] = code /\ M[e] = mods /\ cpu.ret[2] = B[e + 1]
    BY <2>1, <2>2, <2>3 DEF Decoded
  <2>6. C[e + 1] = code' /\ M[e + 1] = mods'
    BY <1>1, <2>4, <2>5 DEF Step
  <2>7. Done("kb")' = e + 1
    BY <1>2, <2>2
  <2>8. \A n \in Nat : e + 1 <= n /\ n < written["kb"] => Step(C[n], M[n], B[n + 1], C[n + 1], M[n + 1])
    <3>1. SUFFICES ASSUME NEW n \in Nat, e + 1 <= n, n < written["kb"]
                   PROVE  Step(C[n], M[n], B[n + 1], C[n + 1], M[n + 1])
      OBVIOUS
    <3>2. e <= n
      BY <3>1
    <3>3. QED
      BY <2>1, <2>2, <3>1, <3>2 DEF Decoded
  <2>9. Fits(C[written["kb"]], M[written["kb"]])'
    BY <1>1, <2>1 DEF Decoded, Fits, Follows
  <2>10. Decoded(B, C, M)'
    BY <1>1, <1>2, <2>1, <2>6, <2>7, <2>8, <2>9 DEF Decoded
  <2>11. QED
    BY <2>10
<1>4. QED
  BY <1>1, <1>2, <1>3 DEF FollowInv

LEMMA FetchFollows ==
  ASSUME InputInv, InputInv', FollowInv, NEW d \in Rings, Fetch(d)
  PROVE  FollowInv'
<1>1. PICK t : t = IF tail[d] = Size THEN 0 ELSE tail[d]
  OBVIOUS
<1>2. /\ cpu.at = d \/ (cpu.at = "wait" /\ d = "kb")
      /\ cpu' = [at |-> "load", ring |-> d, ret |-> buf[d][t], reg |-> 0]
      /\ read' = [read EXCEPT ![d] = @ + 1]
      /\ UNCHANGED <<pending, held, fooled, code, mods, buf, written, overrun>>
  BY <1>1, Zenon DEF Fetch, Reads, device, ghost
<1>3. ~Reading("kb") /\ (Reading("kb")' <=> d = "kb")
  BY <1>2 DEF Reading, Rings
<1>4. CASE d = "mouse"
  <2>1. Done("kb")' = Done("kb")
    BY <1>2, <1>3, <1>4, InputTypes DEF Done, InputInv, Pointers, Rings
  <2>2. QED
    BY <1>2, <1>3, <1>4, <2>1, QuietFollows
<1>5. CASE d = "kb"
  <2>1. read["kb"] \in Nat /\ read'["kb"] = read["kb"] + 1
    BY <1>2, <1>5, InputTypes DEF InputInv, Pointers, Rings
  <2>2. Done("kb")' = Done("kb")
    BY <1>3, <1>5, <2>1 DEF Done
  <2>3. t \in 0..(Size - 1)
    <3>1. tail["kb"] \in 0..Size
      BY DEF InputInv, Pointers, Wraps, Rings
    <3>2. QED
      BY <1>1, <1>5, <3>1, InputAssumption
  <2>4. cpu'.ret = buf["kb"][t]
    BY <1>2, <1>5
  <2>5. ~overrun["kb"] => cpu'.ret[1] = read'["kb"]
    BY <1>2, <1>3, <1>5 DEF InputInv, ReadInPlace, Rings
  <2>6. ~overrun["kb"] => cpu'.ret[1] # 0
    BY <2>1, <2>5
  <2>7. QED
    BY <1>2, <2>1, <2>2, <2>3, <2>4, <2>6, QuietFollows
<1>6. QED
  BY <1>4, <1>5 DEF Rings

(* Every step keeps what the reader is to find.                            *)
LEMMA FollowStep == InputInv /\ InputInv' /\ FollowInv /\ [Next]_vars => FollowInv'
<1> SUFFICES ASSUME InputInv, InputInv', FollowInv, [Next]_vars
             PROVE  FollowInv'
  OBVIOUS
<1>1. ASSUME NEW d \in Rings, Empty(d)
      PROVE  FollowInv'
  <2>1. /\ UNCHANGED <<pending, held, fooled, code, mods, buf, written, read, overrun>>
        /\ cpu.at = d /\ cpu' = At(IF d = "kb" THEN "mouse" ELSE "kb")
    BY <1>1 DEF Empty, Reads, device, ghost
  <2>2. ~Reading("kb") /\ ~Reading("kb")'
    BY <2>1 DEF Reading, At, Rings
  <2>3. Done("kb")' = Done("kb")
    BY <2>1, <2>2 DEF Done
  <2>4. QED
    BY <2>1, <2>2, <2>3, QuietFollows
<1>2. CASE Load
  <2>1. /\ UNCHANGED <<pending, held, fooled, code, mods, buf, written, read, overrun>>
        /\ cpu.at = "load" /\ cpu' = [cpu EXCEPT !.at = "store", !.reg = count[cpu.ring]]
    BY <1>2 DEF Load, Reads, device, ghost
  <2>2. cpu'.ret = cpu.ret /\ (Reading("kb")' <=> Reading("kb"))
    BY <2>1 DEF Reading, InputInv, ReadInPlace, TypeOK
  <2>3. Done("kb")' = Done("kb")
    BY <2>1, <2>2 DEF Done
  <2>4. Reading("kb")' => read'["kb"] >= 1
    BY <2>1, <2>2 DEF FollowInv
  <2>5. QED
    BY <2>1, <2>2, <2>3, <2>4, QuietFollows
<1>3. CASE Store
  <2>1. CASE Reading("kb")
    BY <1>3, <2>1, StoreFollows
  <2>2. CASE ~Reading("kb")
    <3>1. /\ UNCHANGED <<pending, held, fooled, code, mods, buf, written, read, overrun>>
          /\ cpu' = At("kb")
      BY <1>3, <2>2 DEF Store, Reading, analysis_mousecode, device, ghost
    <3>2. ~Reading("kb")'
      BY <3>1 DEF Reading, At
    <3>3. Done("kb")' = Done("kb")
      BY <2>2, <3>1, <3>2 DEF Done
    <3>4. QED
      BY <3>1, <3>2, <3>3, QuietFollows
  <2>3. QED
    BY <2>1, <2>2
<1>4. CASE mouse_handler
  <2>1. /\ UNCHANGED <<pending, held, fooled, code, mods, cpu, read>>
        /\ buf'["kb"] = buf["kb"] /\ written'["kb"] = written["kb"] /\ overrun'["kb"] = overrun["kb"]
    BY <1>4 DEF mouse_handler, Send, device, InputInv, Pointers, ReadInPlace, TypeOK, Rings
  <2>2. (Reading("kb")' <=> Reading("kb")) /\ Done("kb")' = Done("kb") /\ cpu'.ret = cpu.ret
    BY <2>1 DEF Reading, Done
  <2>3. Reading("kb")' => read'["kb"] >= 1
    BY <2>1, <2>2 DEF FollowInv
  <2>4. QED
    BY <2>1, <2>2, <2>3, QuietFollows
<1>5. CASE Spin \/ UNCHANGED vars
  <2>1. UNCHANGED <<pending, held, fooled, code, mods, cpu, read, buf, written, overrun>>
    BY <1>5 DEF Spin, vars, ring, device, ghost
  <2>2. (Reading("kb")' <=> Reading("kb")) /\ Done("kb")' = Done("kb") /\ cpu'.ret = cpu.ret
    BY <2>1 DEF Reading, Done
  <2>3. Reading("kb")' => read'["kb"] >= 1
    BY <2>1, <2>2 DEF FollowInv
  <2>4. QED
    BY <2>1, <2>2, <2>3, QuietFollows
<1>6. QED
  BY <1>1, <1>2, <1>3, <1>4, <1>5, FetchFollows, SendFollows, PressFollows, ReleaseFollows
  DEF Next, Main

(* Whenever the reader has caught up between two keys, the modifiers that  *)
(* analysis_keycode keeps are those held down, whatever keys came between  *)
(* and however far the main loop was behind them.                          *)
THEOREM ModifiersAreKeys == Spec => []ModifiersFollow
<1>1. Init => InputInv /\ FollowInv
  BY InputInit, FollowInit
<1>2. (InputInv /\ FollowInv) /\ [Next]_vars => (InputInv /\ FollowInv)'
  BY InputStep, FollowStep
<1>3. ASSUME InputInv, FollowInv
      PROVE  ModifiersFollow
  <2> SUFFICES ASSUME pending = <<>>, cpu.at = "kb", read["kb"] = written["kb"], ~overrun["kb"],
                      "eaten" \notin fooled
               PROVE  Follows(mods)
    BY DEF ModifiersFollow, Follows
  <2>1. PICK B, C, M : Decoded(B, C, M)
    BY <1>3 DEF FollowInv
  <2>2. Done("kb") = written["kb"]
    BY DEF Done, Reading
  <2>3. Fits(code, mods)
    BY <2>1, <2>2 DEF Decoded
  <2>4. Follows(Moved(mods, <<>>))
    BY <2>3 DEF Fits
  <2>5. QED
    BY <2>4, StrokeMoves
<1>4. QED
  BY <1>1, <1>2, <1>3, PTL DEF Spec
-----------------------------------------------------------------------------
Frames == [kind : Kinds, at : Positions, on : BOOLEAN]

(* The task of a CPU runs with interrupts on, so does a softirq; a handler *)
(* does not; nobody waits for printk_lock with interrupts off.             *)
FrameInv(x, f) ==
  /\ f.kind = "task" <=> x[2] = "task"
  /\ f.kind \in {"task", "soft"} => f.on
  /\ f.kind \in {"none", "irq"} => ~f.on
  /\ f.kind = "none" => f.at = "run"
  /\ f.at \in {"check", "clear"} => f.kind = "soft"
  /\ f.at = "lock" => f.on

FramesOK == \A x \in Contexts : FrameInv(x, frame[x])

(* The owner of printk_lock is the one context that draws with interrupts  *)
(* on, whatever runs over it.                                              *)
Draws(f) == f.at = "write" /\ f.on
OwnerDraws == \A x \in Contexts : owner = x <=> Draws(frame[x])

PrintkInv == FrameTypeOK /\ FramesOK /\ OwnerDraws
-----------------------------------------------------------------------------
LEMMA ContextsOf ==
  /\ \A c \in CPUs : /\ <<c, "task">> \in Contexts /\ <<c, "block">> \in Contexts
                     /\ Running(c) \in Contexts
  /\ \A x \in Contexts : x[2] = "task" \/ x[2] = "block"
  /\ None \notin Contexts /\ Lost \notin Contexts /\ None # Lost
BY PrintkAssumption DEF Contexts, Running

LEMMA FrameTypes ==
  ASSUME FrameTypeOK
  PROVE  /\ frame \in [Contexts -> Frames]
         /\ \A c \in CPUs : Top(c) \in Frames /\ Top(c) = frame[Running(c)]
BY ContextsOf DEF FrameTypeOK, Frames, Top

(* A step that gives one context a new frame, and printk_lock to it or to  *)
(* nobody in accordance with it.                                           *)
LEMMA FrameSet ==
  ASSUME PrintkInv, NEW x \in Contexts, NEW f \in Frames,
         frame' = [frame EXCEPT ![x] = f], FrameInv(x, f),
         {torn', raised', trapped'} \subseteq [CPUs -> BOOLEAN],
         {softirq', astray'} \subseteq BOOLEAN,
         owner' \in Contexts \cup {None, Lost},
         \A y \in Contexts : owner' = y <=> IF y = x THEN Draws(f) ELSE owner = y
  PROVE  PrintkInv'
<1>1. frame \in [Contexts -> Frames]
  BY FrameTypes DEF PrintkInv
<1>2. frame' \in [Contexts -> Frames] /\ \A y \in Contexts : frame'[y] = IF y = x THEN f ELSE frame[y]
  BY <1>1
<1>3. FrameTypeOK'
  BY <1>2 DEF FrameTypeOK, Frames
<1>4. FramesOK'
  BY <1>2 DEF PrintkInv, FramesOK
<1>5. OwnerDraws'
  BY <1>2 DEF PrintkInv, OwnerDraws
<1>6. QED
  BY <1>3, <1>4, <1>5 DEF PrintkInv

(* color_printk moves the running context to another place.                *)
LEMMA GotoSets ==
  ASSUME PrintkInv, NEW c \in CPUs, NEW at \in Positions, Goto(c, at)
  PROVE  /\ frame' = [frame EXCEPT ![Running(c)] = Frame(Top(c).kind, at, Top(c).on)]
         /\ Frame(Top(c).kind, at, Top(c).on) \in Frames
<1>1. frame \in [Contexts -> Frames] /\ Top(c) \in Frames /\ Top(c) = frame[Running(c)]
  BY FrameTypes DEF PrintkInv
<1>2. [Top(c) EXCEPT !.at = at] = Frame(Top(c).kind, at, Top(c).on)
  BY <1>1 DEF Frames, Frame
<1>3. frame' = [frame EXCEPT ![Running(c)] = [@ EXCEPT !.at = at]]
  BY DEF Goto
<1>4. QED
  BY <1>1, <1>2, <1>3 DEF Frames, Frame

(* The inductive invariant holds initially.                                *)
LEMMA PrintkInit == ConsoleInit => PrintkInv
<1> SUFFICES ASSUME ConsoleInit
             PROVE  PrintkInv
  OBVIOUS
<1>1. /\ NewTask \in Frames /\ NewTask.kind = "task" /\ NewTask.at = "run" /\ NewTask.on
      /\ Unused \in Frames /\ Unused.kind = "none" /\ Unused.at = "run" /\ ~Unused.on
  BY DEF NewTask, Unused, Frame, Frames, Kinds, Positions
<1>2. /\ frame \in [Contexts -> Frames]
      /\ \A x \in Contexts : frame[x] = IF x[2] = "task" THEN NewTask ELSE Unused
  BY <1>1 DEF ConsoleInit
<1>3. /\ owner = None /\ softirq = FALSE /\ astray = FALSE
      /\ {torn, raised, trapped} \subseteq [CPUs -> BOOLEAN]
  BY DEF ConsoleInit, printk_lock!Init
<1>4. FrameTypeOK
  BY <1>2, <1>3 DEF FrameTypeOK, Frames
<1>5. FramesOK
  BY <1>1, <1>2 DEF FramesOK, FrameInv
<1>6. OwnerDraws
  BY <1>1, <1>2, <1>3, ContextsOf DEF OwnerDraws, Draws
<1>7. QED
  BY <1>4, <1>5, <1>6 DEF PrintkInv

(* What is entered at the top of a block is a handler that has not printed *)
(* yet; the lock of what it overwrites is lost.                            *)
LEMMA EnterKeeps ==
  ASSUME PrintkInv, NEW c \in CPUs, NEW f \in Frames, Enter(c, f),
         f.kind \in {"irq"} \cup Traps, f.at = "run", f.kind = "irq" => ~f.on,
         trapped' \in [CPUs -> BOOLEAN],
         softirq' \in BOOLEAN
  PROVE  PrintkInv'
<1> DEFINE x == <<c, "block">>
<1>1. x \in Contexts /\ frame' = [frame EXCEPT ![x] = f]
  BY ContextsOf DEF Enter
<1>2. FrameInv(x, f) /\ ~Draws(f)
  BY DEF FrameInv, Traps, Draws
<1>3. \A y \in Contexts : owner' = y <=> IF y = x THEN Draws(f) ELSE owner = y
  BY <1>1, <1>2, ContextsOf DEF Enter
<1>4. owner' \in Contexts \cup {None, Lost}
  BY DEF Enter, PrintkInv, FrameTypeOK
<1>5. {torn', raised', trapped'} \subseteq [CPUs -> BOOLEAN]
  <2>1. PICK u \in BOOLEAN : u = InUse(c)
    BY DEF InUse
  <2>2. PICK r \in BOOLEAN : r = (raised[c] \/ (InUse(c) /\ Spinlocked(c)))
    <3>1. (raised[c] \/ (InUse(c) /\ Spinlocked(c))) \in BOOLEAN
      OBVIOUS
    <3>2. QED
      BY <3>1
  <2>3. torn' = [torn EXCEPT ![c] = u] /\ raised' = [raised EXCEPT ![c] = r]
    BY <2>1, <2>2, Zenon DEF Enter
  <2>4. {torn, raised, trapped'} \subseteq [CPUs -> BOOLEAN]
    BY DEF PrintkInv, FrameTypeOK
  <2>5. QED
    BY <2>3, <2>4
<1>6. {softirq', astray'} \subseteq BOOLEAN
  BY DEF Enter, PrintkInv, FrameTypeOK
<1>7. QED
  BY <1>1, <1>2, <1>3, <1>4, <1>5, <1>6, FrameSet

(* A handler that leaves the block, and perhaps the task for another,      *)
(* leaves no owner behind.                                                 *)
LEMMA ReturnKeeps ==
  ASSUME PrintkInv, NEW c \in CPUs, Return(c), ~Draws(Top(c)), InUse(c), softirq' \in BOOLEAN
  PROVE  PrintkInv'
<1> DEFINE b == <<c, "block">>  t == <<c, "task">>
<1>1. /\ NewTask \in Frames /\ NewTask.kind = "task" /\ NewTask.at = "run" /\ NewTask.on
      /\ Unused \in Frames /\ Unused.kind = "none" /\ Unused.at = "run" /\ ~Unused.on
  BY DEF NewTask, Unused, Frame, Frames, Kinds, Positions
<1>2. /\ b \in Contexts /\ t \in Contexts /\ b # t /\ b[2] = "block" /\ t[2] = "task"
      /\ frame \in [Contexts -> Frames] /\ Top(c) = frame[b]
  BY ContextsOf, FrameTypes DEF PrintkInv, Running
<1>3. /\ FrameInv(b, Unused) /\ ~Draws(Unused)
      /\ FrameInv(t, NewTask) /\ ~Draws(NewTask)
  BY <1>1, <1>2 DEF FrameInv, Draws
<1>4. owner # b
  BY <1>2 DEF PrintkInv, OwnerDraws
<1>5. {torn', raised', trapped'} \subseteq [CPUs -> BOOLEAN]
  BY DEF Return, PrintkInv, FrameTypeOK
<1>6. CASE frame' = [frame EXCEPT ![b] = Unused] /\ astray' = torn[c] /\ owner' = owner
  <2>1. owner' \in Contexts \cup {None, Lost} /\ {softirq', astray'} \subseteq BOOLEAN
    BY <1>6 DEF PrintkInv, FrameTypeOK
  <2>2. \A y \in Contexts : owner' = y <=> IF y = b THEN Draws(Unused) ELSE owner = y
    BY <1>3, <1>4, <1>6
  <2>3. QED
    BY <1>1, <1>2, <1>3, <1>5, <1>6, <2>1, <2>2, FrameSet
<1>7. CASE /\ frame' = [frame EXCEPT ![b] = Unused, ![t] = NewTask] /\ astray' \in BOOLEAN
           /\ owner' = IF owner = t THEN Lost ELSE owner
  <2>1. /\ frame' \in [Contexts -> Frames]
        /\ \A y \in Contexts : frame'[y] = IF y = b THEN Unused ELSE IF y = t THEN NewTask ELSE frame[y]
    BY <1>1, <1>2, <1>7
  <2>2. owner' \in Contexts \cup {None, Lost} /\ {softirq', astray'} \subseteq BOOLEAN
    BY <1>7 DEF PrintkInv, FrameTypeOK
  <2>3. FrameTypeOK'
    BY <1>5, <2>1, <2>2 DEF FrameTypeOK, Frames
  <2>4. FramesOK'
    BY <1>3, <2>1 DEF PrintkInv, FramesOK
  <2>5. OwnerDraws'
    BY <1>3, <1>4, <1>7, <2>1, ContextsOf DEF PrintkInv, OwnerDraws
  <2>6. QED
    BY <2>3, <2>4, <2>5 DEF PrintkInv
<1>8. QED
  BY <1>6, <1>7 DEF Return

(* A step keeps the invariant: ownership changes hands only where the      *)
(* running context draws, or where it is overwritten or dropped.           *)
LEMMA PrintkStep == PrintkInv /\ [ConsoleNext]_consoleVars => PrintkInv'
<1> SUFFICES ASSUME PrintkInv, [ConsoleNext]_consoleVars
             PROVE  PrintkInv'
  OBVIOUS
<1>0. /\ FrameTypeOK /\ FramesOK /\ OwnerDraws
      /\ frame \in [Contexts -> Frames]
      /\ {torn, raised, trapped} \subseteq [CPUs -> BOOLEAN]
      /\ {softirq, astray} \subseteq BOOLEAN
      /\ owner \in Contexts \cup {None, Lost}
  BY FrameTypes DEF PrintkInv, FrameTypeOK
<1>t. ASSUME NEW c \in CPUs
      PROVE  /\ Running(c) \in Contexts /\ Top(c) \in Frames /\ Top(c) = frame[Running(c)]
             /\ FrameInv(Running(c), Top(c)) /\ (owner = Running(c) <=> Draws(Top(c)))
             /\ Top(c).kind # "none" /\ (Top(c).kind # "task" => InUse(c))
  <2>1. Running(c) \in Contexts /\ Top(c) \in Frames /\ Top(c) = frame[Running(c)]
    BY <1>0, ContextsOf, FrameTypes
  <2>2. FrameInv(Running(c), Top(c)) /\ (owner = Running(c) <=> Draws(Top(c)))
    BY <1>0, <2>1 DEF FramesOK, OwnerDraws
  <2>3. (~InUse(c) => Top(c).kind = "task") /\ (InUse(c) => Top(c).kind # "none")
    BY <2>1, <2>2 DEF Running, FrameInv, InUse
  <2>4. QED
    BY <2>1, <2>2, <2>3
<1>1. ASSUME NEW c \in CPUs, ColorPrintk(c)
      PROVE  PrintkInv'
  <2> DEFINE to == IF InterruptsOn(c) THEN "lock" ELSE "write"
             f == Frame(Top(c).kind, to, Top(c).on)
  <2>1. to \in Positions /\ Goto(c, to) /\ Top(c).at = "run"
    BY <1>1 DEF ColorPrintk, Positions
  <2>2. frame' = [frame EXCEPT ![Running(c)] = f] /\ f \in Frames
    BY <2>1, GotoSets
  <2>3. f.kind = Top(c).kind /\ f.at = to /\ f.on = Top(c).on
    BY DEF Frame
  <2>4. to \in {"lock", "write"} /\ (to = "lock" <=> Top(c).on)
    BY DEF InterruptsOn
  <2> HIDE DEF f, to
  <2>5. FrameInv(Running(c), f) /\ ~Draws(f) /\ ~Draws(Top(c))
    BY <1>t, <2>1, <2>3, <2>4 DEF FrameInv, Draws
  <2>6. QED
    BY <1>0, <1>1, <1>t, <2>2, <2>5, FrameSet DEF ColorPrintk, blocks
<1>2. ASSUME NEW c \in CPUs, Lock(c)
      PROVE  PrintkInv'
  <2> DEFINE f == Frame(Top(c).kind, "write", Top(c).on)
  <2>1. Goto(c, "write") /\ Top(c).at = "lock" /\ owner = None /\ owner' = Running(c)
    BY <1>2 DEF Lock, printk_lock!Acquire
  <2>2. frame' = [frame EXCEPT ![Running(c)] = f] /\ f \in Frames
    BY <2>1, GotoSets DEF Positions
  <2>3. FrameInv(Running(c), f) /\ Draws(f)
    BY <1>t, <2>1 DEF FrameInv, Frame, Draws
  <2>4. \A y \in Contexts : owner' = y <=> IF y = Running(c) THEN Draws(f) ELSE owner = y
    BY <2>1, <2>3, ContextsOf
  <2>5. QED
    BY <1>0, <1>2, <1>t, <2>1, <2>2, <2>3, <2>4, FrameSet DEF Lock, blocks
<1>3. ASSUME NEW c \in CPUs, Unlock(c)
      PROVE  PrintkInv'
  <2>1. PICK at \in After[Top(c).kind] : Goto(c, at)
    BY <1>3 DEF Unlock
  <2> DEFINE f == Frame(Top(c).kind, at, Top(c).on)
  <2>2. /\ Top(c).at = "write"
        /\ IF Top(c).on THEN owner = Running(c) /\ owner' = None ELSE owner' = owner
    BY <1>3 DEF Unlock, printk_lock!Release, InterruptsOn
  <2>3. /\ at \in {"run", "ret", "clear", "stopped"}
        /\ at = "clear" => Top(c).kind = "soft"
    <3>1. Top(c).kind \in Kinds /\ Top(c).kind # "none"
      BY <1>t DEF Frames
    <3>2. QED
      BY <2>1, <3>1 DEF After, Kinds, Traps
  <2>4. at \in Positions
    BY <2>3 DEF Positions
  <2>5. frame' = [frame EXCEPT ![Running(c)] = f] /\ f \in Frames
    BY <2>1, <2>4, GotoSets
  <2>6. FrameInv(Running(c), f) /\ ~Draws(f)
    BY <1>t, <2>2, <2>3 DEF FrameInv, Frame, Draws
  <2>7. \A y \in Contexts : owner' = y <=> IF y = Running(c) THEN Draws(f) ELSE owner = y
    BY <1>t, <2>2, <2>6, ContextsOf DEF Draws
  <2>8. owner' \in Contexts \cup {None, Lost}
    BY <1>0, <2>2
  <2> HIDE DEF f
  <2>9. QED
    BY <1>0, <1>3, <1>t, <2>5, <2>6, <2>7, <2>8, FrameSet DEF Unlock, blocks
<1>4. ASSUME NEW c \in CPUs, Interrupt(c)
      PROVE  PrintkInv'
  <2> DEFINE f == Frame("irq", "run", FALSE)
  <2>1. f \in Frames /\ f.kind = "irq" /\ f.at = "run" /\ ~f.on
    BY DEF Frame, Frames, Kinds, Positions
  <2>2. Enter(c, f) /\ softirq' \in BOOLEAN /\ trapped' = trapped
    BY <1>0, <1>4 DEF Interrupt
  <2> HIDE DEF f
  <2>3. QED
    BY <1>0, <2>1, <2>2, EnterKeeps
<1>5. ASSUME NEW c \in CPUs, RetFromIntr(c)
      PROVE  PrintkInv'
  <2>1. Top(c).kind = "irq" /\ ~Draws(Top(c)) /\ softirq' = softirq /\ InUse(c)
    BY <1>5, <1>t DEF RetFromIntr, Draws
  <2>2. CASE ~softirq
    BY <1>0, <1>5, <2>1, <2>2, ReturnKeeps DEF RetFromIntr
  <2>3. CASE softirq
    <3> DEFINE x == <<c, "block">>  f == Frame("soft", "check", TRUE)
    <3>1. f \in Frames /\ f.kind = "soft" /\ f.at = "check" /\ f.on
      BY DEF Frame, Frames, Kinds, Positions
    <3>2. /\ x \in Contexts /\ frame' = [frame EXCEPT ![x] = f] /\ Running(c) = x
          /\ blocks' = blocks /\ owner' = owner /\ astray' = astray
      BY <1>5, <2>1, <2>3, ContextsOf DEF RetFromIntr, Running
    <3>3. FrameInv(x, f) /\ ~Draws(f)
      BY <3>1 DEF FrameInv, Draws
    <3>4. \A y \in Contexts : owner' = y <=> IF y = x THEN Draws(f) ELSE owner = y
      BY <1>t, <2>1, <3>2, <3>3
    <3>5. QED
      BY <1>0, <2>1, <3>1, <3>2, <3>3, <3>4, FrameSet DEF blocks
  <2>4. QED
    BY <2>2, <2>3
<1>6. ASSUME NEW c \in CPUs, SoftAction(c)
      PROVE  PrintkInv'
  <2>1. /\ Top(c).at = "check" /\ Top(c).kind = "soft" /\ Top(c).on /\ softirq' = softirq
        /\ ~Draws(Top(c)) /\ InUse(c)
    BY <1>t, <1>6 DEF SoftAction, FrameInv, Draws
  <2>2. CASE ~softirq
    BY <1>0, <1>6, <2>1, <2>2, ReturnKeeps DEF SoftAction
  <2>3. CASE softirq
    <3> DEFINE f == Frame(Top(c).kind, "lock", Top(c).on)
    <3>1. Goto(c, "lock") /\ "lock" \in Positions /\ blocks' = blocks /\ owner' = owner /\ astray' = astray
      BY <1>6, <2>3 DEF SoftAction, Positions
    <3>2. frame' = [frame EXCEPT ![Running(c)] = f] /\ f \in Frames
      BY <3>1, GotoSets
    <3>3. FrameInv(Running(c), f) /\ ~Draws(f)
      BY <1>t, <2>1 DEF FrameInv, Frame, Draws
    <3> HIDE DEF f
    <3>4. QED
      BY <1>0, <1>t, <2>1, <3>1, <3>2, <3>3, FrameSet DEF blocks
  <2>4. QED
    BY <2>2, <2>3
<1>7. ASSUME NEW c \in CPUs, SoftClear(c)
      PROVE  PrintkInv'
  <2>1. Top(c).kind = "soft" /\ ~Draws(Top(c)) /\ InUse(c) /\ Return(c) /\ softirq' \in BOOLEAN
    BY <1>t, <1>7 DEF SoftClear, FrameInv, Draws
  <2>2. QED
    BY <2>1, ReturnKeeps
<1>8. ASSUME NEW c \in CPUs, Trap(c)
      PROVE  PrintkInv'
  <2>1. PICK kind \in Traps : Enter(c, Gate(kind, Top(c).on))
    BY <1>8 DEF Trap, InterruptsOn
  <2>2. /\ Gate(kind, Top(c).on) \in Frames
        /\ Gate(kind, Top(c).on).kind = kind /\ Gate(kind, Top(c).on).at = "run"
    BY <1>t DEF Gate, Frame, Frames, Kinds, Positions
  <2>3. kind # "irq"
    BY DEF Traps
  <2>4. softirq' = softirq /\ trapped' \in [CPUs -> BOOLEAN]
    BY <1>0, <1>8 DEF Trap
  <2>5. QED
    BY <1>0, <2>1, <2>2, <2>3, <2>4, EnterKeeps
<1>9. CASE UNCHANGED consoleVars
  BY <1>9 DEF consoleVars, blocks, PrintkInv, FrameTypeOK, FramesOK, OwnerDraws
<1>10. QED
  BY <1>1, <1>2, <1>3, <1>4, <1>5, <1>6, <1>7, <1>8, <1>9 DEF ConsoleNext, OwnStep
-----------------------------------------------------------------------------
(* Every behaviour of the console keeps the inductive invariant.           *)
THEOREM PrintkInvariant == ConsoleSpec => []PrintkInv
  BY PrintkInit, PrintkStep, PTL DEF ConsoleSpec

(* Whoever draws with interrupts on owns printk_lock, whatever handlers,   *)
(* softirqs and traps print over it or overwrite one another, and a trap   *)
(* that has stopped keeps no lock.                                         *)
THEOREM WriterOwnsLock == ConsoleSpec => []LockedWriterOwns
<1>1. PrintkInv => LockedWriterOwns
  BY DEF PrintkInv, LockedWriterOwns, OwnerDraws, Draws
<1>2. QED
  BY <1>1, PrintkInvariant, PTL
=============================================================================
