------------------------------- MODULE Input -------------------------------
(***************************************************************************)
(* Keyboard and mouse input: kernel/keyboard.c, mouse.c and the main loop  *)
(* of Start_Kernel.  Each device has a ring that its interrupt handler     *)
(* fills and the main loop drains on the same CPU, so a handler runs whole *)
(* between two steps of the reader.  A code in a ring is its number, in    *)
(* order of arrival, and its byte.  count-- is a load and a store, as the  *)
(* build, which does not optimise, has it: a handler between the two has   *)
(* its count++ overwritten.                                                *)
(***************************************************************************)
EXTENDS Naturals, Sequences

CONSTANTS Size,          \* KB_BUF_SIZE
          Keys,          \* the keys that are pressed
          MaxCodes,      \* bound: the codes each device sends
          MaxAhead,      \* bound: the codes a device sends ahead of the reader
          MaxLost        \* bound: the interrupts between a load and its store

Rings == {"kb", "mouse"}
ASSUME InputAssumption ==
  /\ Size \in Nat \ {0} /\ Keys \subseteq {"shift_l", "ctrl_r", "pause", "print", "home"}
  /\ MaxCodes \in [Rings -> Nat] /\ MaxAhead \in Nat /\ MaxLost \in Nat

VARIABLES buf, head, tail, count,     \* the two rings
          cpu,                        \* the reader: where it is, on which ring, what it holds
          code,                       \* bytes of the key under analysis
          mods,                       \* shift_l, ctrl_r, ...: those that are 1
          mouse_count, packet,        \* analysis_mousecode
          held, pending,              \* keys that are down; bytes the keyboard still has to send
          written, read,              \* codes raised and read, of each device
          lost, overrun, fooled       \* history: count++ lost, unread slots overwritten, see Press

ring == <<buf, head, tail, count>>
device == <<held, pending, fooled>>
ghost == <<lost, overrun>>
vars == <<ring, cpu, code, mods, mouse_count, packet, device, written, read, ghost>>

Modifiers == {"shift_l", "shift_r", "ctrl_l", "ctrl_r", "alt_l", "alt_r"}
Pause == <<\hE1, \h1D, \h45, \hE1, \h9D, \hC5>>     \* pausebreak_scode

At(place) == [at |-> place, ring |-> "kb", ret |-> <<0, 0>>, reg |-> 0]

Init ==
  /\ buf = [d \in Rings |-> [i \in 0..Size - 1 |-> <<0, 0>>]]
  /\ head = [d \in Rings |-> 0] /\ tail = [d \in Rings |-> 0] /\ count = [d \in Rings |-> 0]
  /\ cpu = At("kb")
  /\ code = <<>> /\ mods = {} /\ mouse_count = 0 /\ packet = <<0, 0, 0>>
  /\ held \in SUBSET (Keys \intersect {"print"}) /\ pending = <<>> /\ fooled = {}
  /\ written = [d \in Rings |-> 0] /\ read = [d \in Rings |-> 0]
  /\ lost = [d \in Rings |-> 0] /\ overrun = [d \in Rings |-> FALSE]
-----------------------------------------------------------------------------
(* The keyboard: what a key sends going down and up (scan code set 1, Num  *)
(* Lock on).  A grey key feigns a left shift with E0 2A, and with E0 B7    *)
(* unadorned when a shift is down: analysis_keycode knows neither.         *)
DownCode(k) ==
  CASE k = "shift_l" -> <<\h2A>>
    [] k = "ctrl_r" -> <<\hE0, \h1D>>
    [] k = "pause" -> Pause
    [] k = "print" -> IF "shift_l" \in held THEN <<\hE0, \h37>> ELSE <<\hE0, \h2A, \hE0, \h37>>
    [] k = "home" -> IF "shift_l" \in held THEN <<\hE0, \h47>> ELSE <<\hE0, \h2A, \hE0, \h47>>

UpCode(k) ==
  CASE k = "shift_l" -> <<\hAA>>
    [] k = "ctrl_r" -> <<\hE0, \h9D>>
    [] k = "pause" -> <<>>
    [] k = "print" -> IF "shift_l" \in held THEN <<\hE0, \hB7>> ELSE <<\hE0, \hB7, \hE0, \hAA>>
    [] k = "home" -> <<\hE0, \hC7>>

(* Seeded faults: the head wraps one slot early; a full ring is not        *)
(* counted further.                                                        *)
BugWrap(d, n, byte) ==
  /\ n - read[d] <= MaxAhead
  /\ LET h == IF head[d] >= Size - 1 THEN 0 ELSE head[d]
     IN  /\ buf' = [buf EXCEPT ![d][h] = <<n, byte>>]
         /\ head' = [head EXCEPT ![d] = h + 1]
  /\ count' = [count EXCEPT ![d] = @ + 1]
  /\ written' = [written EXCEPT ![d] = n]
  /\ UNCHANGED <<tail, cpu, code, mods, mouse_count, packet, read, lost, overrun>>


Send(d, n, byte) ==
  /\ n - read[d] <= MaxAhead
  /\ LET h == IF head[d] = Size THEN 0 ELSE head[d]
     IN  /\ buf' = [buf EXCEPT ![d][h] = <<n, byte>>]
         /\ head' = [head EXCEPT ![d] = h + 1]
  /\ count' = [count EXCEPT ![d] = @ + 1]
  /\ written' = [written EXCEPT ![d] = n]
  /\ IF n - read[d] > Size THEN overrun' = [overrun EXCEPT ![d] = TRUE] ELSE UNCHANGED overrun
  /\ IF cpu.at = "store" /\ cpu.ring = d
     THEN lost["kb"] + lost["mouse"] < MaxLost /\ lost' = [lost EXCEPT ![d] = @ + 1]
     ELSE UNCHANGED lost
  /\ UNCHANGED <<tail, cpu, code, mods, mouse_count, packet, read>>

Press(k) ==
  /\ pending = <<>> /\ k \notin held /\ written["kb"] < MaxCodes["kb"]
  /\ pending' = DownCode(k)
  /\ held' = IF k = "pause" THEN held ELSE held \union {k}
  /\ fooled' = IF k = "home" /\ "shift_l" \notin held THEN fooled \union {"feigned"} ELSE fooled
  /\ UNCHANGED <<ring, cpu, code, mods, mouse_count, packet, written, read, ghost>>

Release(k) ==
  /\ pending = <<>> /\ k \in held /\ written["kb"] < MaxCodes["kb"]
  /\ pending' = UpCode(k)
  /\ held' = held \ {k}
  /\ fooled' = IF k = "print" /\ "shift_l" \in held THEN fooled \union {"eaten"} ELSE fooled
  /\ UNCHANGED <<ring, cpu, code, mods, mouse_count, packet, written, read, ghost>>

keyboard_handler ==
  /\ pending # <<>> /\ written["kb"] < MaxCodes["kb"]
  /\ pending' = Tail(pending)
  /\ Send("kb", written["kb"] + 1, Head(pending))
  /\ UNCHANGED <<held, fooled>>

mouse_handler ==
  /\ written["mouse"] < MaxCodes["mouse"]
  /\ Send("mouse", written["mouse"] + 1, 0)
  /\ UNCHANGED device
-----------------------------------------------------------------------------
(* analysis_keycode on the bytes it has read: whether it asks for another, *)
(* whether it took them for a special key, and what is done to modifiers.  *)
Last(s) == s[Len(s)]

MoreCodes(s) ==
  \/ s[1] = \hE1 /\ Len(s) < 6 /\ (Len(s) > 1 => Last(s) = Pause[Len(s)])
  \/ s = <<\hE0>>
  \/ s[1] = \hE0 /\ Len(s) = 2 /\ s[2] \in {\h2A, \hB7}
  \/ s[1] = \hE0 /\ Len(s) = 3 /\ s[3] = \hE0

SpecialKey(s) ==
  \/ s = Pause
  \/ s \in {<<\hE0, \h2A, \hE0, \h37>>, <<\hE0, \hB7, \hE0, \hAA>>}
  \/ s[1] = \hE0 /\ s[2] \notin {\h2A, \hB7}

BugRightKey(m, s) == IF s[2] = \h1D THEN m \union {"ctrl_r"} ELSE m     \* no release

RightKey(m, s) ==
  CASE s[2] = \h1D -> m \union {"ctrl_r"}
    [] s[2] = \h9D -> m \ {"ctrl_r"}
    [] s[2] = \h38 -> m \union {"alt_r"}
    [] s[2] = \hB8 -> m \ {"alt_r"}
    [] OTHER -> m

(* The tail of analysis_keycode, for key = 0: x is the first byte, or the  *)
(* one after E0.                                                           *)
NormalKey(m, x) ==
  LET key == CASE x % 128 = \h2A -> {"shift_l"} [] x % 128 = \h36 -> {"shift_r"}
               [] x % 128 = \h1D -> {"ctrl_l"} [] x % 128 = \h38 -> {"alt_l"} [] OTHER -> {}
  IN  IF x < 128 THEN m \union key ELSE m \ key

(* The modifiers m after the bytes s of a key.                             *)
Analysed(m, s) ==
  CASE ~SpecialKey(s) -> NormalKey(m, IF s[1] = \hE0 THEN s[2] ELSE s[1])
    [] SpecialKey(s) /\ s[1] = \hE0 -> RightKey(m, s)
    [] OTHER -> m

analysis_keycode(s) == mods' = Analysed(mods, s) /\ code' = <<>> /\ cpu' = At("mouse")

BugMouse(n) ==     \* the acknowledgement taken for a packet's first byte
  /\ packet' = [packet EXCEPT ![IF mouse_count = 0 THEN 1 ELSE mouse_count] = n]
  /\ mouse_count' = IF mouse_count = 3 THEN 1 ELSE IF mouse_count = 0 THEN 2 ELSE mouse_count + 1
  /\ cpu' = At("kb")

analysis_mousecode(n) ==
  /\ packet' = IF mouse_count = 0 THEN packet ELSE [packet EXCEPT ![mouse_count] = n]
  /\ mouse_count' = IF mouse_count = 3 THEN 1 ELSE mouse_count + 1
  /\ cpu' = At("kb")
-----------------------------------------------------------------------------
Reads == UNCHANGED <<head, mouse_count, packet, mods, code, buf, written, device, ghost>>

(* The main loop finds a ring empty, or get_scancode spins within a key.   *)
Empty(d) ==
  /\ cpu.at = d /\ count[d] = 0
  /\ cpu' = At(IF d = "kb" THEN "mouse" ELSE "kb")
  /\ UNCHANGED <<tail, count, read>> /\ Reads

Spin == cpu.at = "wait" /\ count["kb"] = 0 /\ UNCHANGED vars

(* get_scancode, get_mousecode: the slot, then count-- and tail++.         *)
Fetch(d) ==
  /\ cpu.at = d \/ (cpu.at = "wait" /\ d = "kb")
  /\ count[d] # 0
  /\ LET t == IF tail[d] = Size THEN 0 ELSE tail[d]
     IN  /\ tail' = [tail EXCEPT ![d] = t]
         /\ cpu' = [at |-> "load", ring |-> d, ret |-> buf[d][t], reg |-> 0]
  /\ read' = [read EXCEPT ![d] = @ + 1]
  /\ UNCHANGED count /\ Reads

Load ==
  /\ cpu.at = "load"
  /\ cpu' = [cpu EXCEPT !.at = "store", !.reg = count[cpu.ring]]
  /\ UNCHANGED <<tail, count, read>> /\ Reads

Store ==
  /\ cpu.at = "store"
  /\ count' = [count EXCEPT ![cpu.ring] = cpu.reg - 1]
  /\ tail' = [tail EXCEPT ![cpu.ring] = @ + 1]
  /\ \/ /\ cpu.ring = "kb"
        /\ LET s == Append(code, cpu.ret[2])
           IN  \/ MoreCodes(s) /\ code' = s /\ cpu' = At("wait") /\ UNCHANGED mods
               \/ ~MoreCodes(s) /\ analysis_keycode(s)
        /\ UNCHANGED <<mouse_count, packet>>
     \/ cpu.ring = "mouse" /\ analysis_mousecode(cpu.ret[1]) /\ UNCHANGED <<code, mods>>
  /\ UNCHANGED <<buf, head, written, read, device, ghost>>

Main == (\E d \in Rings : Empty(d) \/ Fetch(d)) \/ Load \/ Store

Next == Main \/ Spin \/ keyboard_handler \/ mouse_handler \/ \E k \in Keys : Press(k) \/ Release(k)

(* The CPU goes on between interrupts; nobody has to type.                 *)
Spec == Init /\ [][Next]_vars /\ WF_vars(Main)
-----------------------------------------------------------------------------
Byte == 0..255
TypeOK ==
  /\ buf \in [Rings -> [0..Size - 1 -> Nat \X Byte]]
  /\ head \in [Rings -> 0..Size] /\ tail \in [Rings -> 0..Size] /\ count \in [Rings -> Nat]
  /\ cpu \in [at : Rings \union {"wait", "load", "store"}, ring : Rings,
              ret : Nat \X Byte, reg : Nat]
  /\ code \in Seq(Byte) /\ Len(code) < 6 /\ mods \subseteq Modifiers /\ mouse_count \in 0..3

Reading(d) == cpu.at \in {"load", "store"} /\ cpu.ring = d

(* count tells how far the reader is behind, less the count++ the reader's *)
(* store has overwritten: these codes stay unread until others follow.     *)
LagIsLost ==
  \A d \in Rings :
    LET c == IF Reading(d) /\ cpu.at = "store" THEN cpu.reg ELSE count[d]
    IN  c + read[d] + lost[d] = written[d] + (IF Reading(d) THEN 1 ELSE 0)

(* The n-th read of a ring returns the n-th code.  Once the writer has     *)
(* lapped the reader it may return a later one, but always one of the same *)
(* slot: neither an overrun nor a lost count ever shifts the ring.         *)
ReadInPlace ==
  /\ TypeOK /\ LagIsLost
  /\ \A d \in Rings : Reading(d) =>
       LET n == read[d]  got == cpu.ret[1]
       IN  got >= n /\ (got - n) % Size = 0 /\ (overrun[d] \/ got = n)

(* Whenever the reader has caught up between two keys, the modifiers it    *)
(* keeps are those held down, whatever special keys came between.  A       *)
(* feigned shift leaves shift_l on; the unadorned E0 B7 of a shifted Print *)
(* Screen makes it swallow the key that follows.                           *)
ModifiersFollow ==
  (pending = <<>> /\ cpu.at = "kb" /\ read["kb"] = written["kb"] /\ ~overrun["kb"]) =>
    \/ "eaten" \in fooled
    \/ mods \ {"shift_l"} = (held \intersect Modifiers) \ {"shift_l"}
       /\ ("shift_l" \in held => "shift_l" \in mods)
       /\ ("feigned" \notin fooled => ("shift_l" \in mods => "shift_l" \in held))

(* Unless the ring was overrun, each byte of a packet is one the mouse     *)
(* sent in that place, behind the acknowledgement and whole packets, and   *)
(* a packet that is printed is three codes in a row: a lost count delays   *)
(* packets but never puts them out of phase.                               *)
PacketsInPhase ==
  ~overrun["mouse"] =>
    /\ \A i \in 1..3 : packet[i] # 0 => packet[i] % 3 = (i + 1) % 3
    /\ (mouse_count = 1 /\ packet[3] # 0) => \A i \in 2..3 : packet[i] = packet[i - 1] + 1

(* When the devices fall silent, all codes but the lost ones get read; the *)
(* mouse's wait for ever if the keyboard's reader is left within a key.    *)
WithinKey == cpu.at = "wait" /\ count["kb"] = 0
=============================================================================
