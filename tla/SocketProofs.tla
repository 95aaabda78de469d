---------------------------- MODULE SocketProofs ----------------------------
(***************************************************************************)
(* What is proved of the write side of a connection, for any number of     *)
(* threads, of packets and of connections that have the descriptor one     *)
(* after the other, also when two threads close one of them at once.       *)
(***************************************************************************)
EXTENDS Socket, TLAPS

(***************************************************************************)
(* What the code relies on: a marker for "no thread" and "never closed"    *)
(* that is none, and numbers of connections and packets.                   *)
(***************************************************************************)
Sane == None \notin Thread /\ None \notin Nat /\ MaxConn \in Nat /\ MaxWrites \in Nat

Packets == Conn \X (1..MaxWrites)
Places == {"idle", "accepted", "write", "flush", "trylock", "send", "test", "mark", "force",
           "drop", "clear", "osclose"}
Calls == [at : Places, u : Nat, arg : {0, 1}]

Types ==
  /\ fd \in [counter : Nat, open : BOOLEAN, close : BOOLEAN, packet : Seq(Packets)]
  /\ sock_lock \in Thread \union {None} /\ sock \in 0..MaxConn /\ conns \in 0..MaxConn
  /\ uuid \in [Conn -> Nat] /\ ready \subseteq Nat /\ armed \in BOOLEAN
  /\ pc \in [Thread -> Calls]
  /\ written \in [Conn -> Seq(Packets)] /\ delivered \in [Conn -> Seq(Packets)]
  /\ promised \in [Conn -> Nat \union {None}] /\ mistaken \subseteq Conn

\* The connection that has the descriptor's data, if one has.
Live(c) == uuid[c] # 0 /\ uuid[c] = fd.counter

\* A handle is given once, and calls carry handles that have been given.
HandleInv ==
  /\ \A c \in Conn :
       /\ uuid[c] <= fd.counter
       /\ c > conns => uuid[c] = 0
       /\ uuid[c] = 0 => written[c] = <<>> /\ promised[c] = None
  /\ \A c, d \in Conn : uuid[c] # 0 /\ uuid[c] = uuid[d] => c = d
  /\ \A t \in Thread :
       /\ pc[t].u <= fd.counter
       /\ pc[t].at = "write" => pc[t].u \in Handles
       /\ sock_lock = t <=> pc[t].at = "send"
  /\ \A u \in ready : u <= fd.counter

\* The kernel's descriptor is the one of the live connection, unless a close that
\* meant an earlier one has taken it.
OwnerInv ==
  /\ sock \in {0, conns}
  /\ fd.open <=> \E c \in Conn : Live(c)
  /\ \A c \in Conn : Live(c) => sock = c \/ c \in mistaken
  /\ \A t \in Thread : pc[t].at = "accepted" =>
       /\ conns # 0 /\ uuid[conns] = 0 /\ (sock = conns \/ conns \in mistaken)
       /\ \A v \in Thread : pc[v].at = "accepted" => v = t

\* Packets of the live connection that have left the queue.
Out(c) == Len(written[c]) - Len(fd.packet)

\* The queue is the end of what was written to the live connection.
QueueInv ==
  /\ \A c \in Conn : \A k \in DOMAIN written[c] : written[c][k] = <<c, k>>
  /\ fd.packet # <<>> => fd.open
  /\ \A t \in Thread : pc[t].at = "send" => fd.packet # <<>>
  /\ \A c \in Conn : Live(c) =>
       Out(c) >= 0 /\ \A i \in DOMAIN fd.packet : fd.packet[i] = <<c, Out(c) + i>>

\* What has gone out is what has left the queue, up to what a close has dropped.
SentInv ==
  /\ OwnInOrder
  /\ \A c \in Conn : Live(c) => \A k \in Sent(c) : k <= Out(c)
  /\ \A c \in Conn \ mistaken : Live(c) /\ ~Dropped(c) => 1..Out(c) \subseteq Sent(c)

\* Nobody closes the live connection before it is told to, and then not before it has
\* been sent what it had been given.
Closing(t, c) == pc[t].u = uuid[c] /\ pc[t].at \in {"force", "drop", "clear"}

Kept(c) ==
  IF promised[c] = None
    THEN ~fd.close /\ \A t \in Thread : pc[t].u = uuid[c] => pc[t].at \notin {"mark", "force", "drop", "clear"}
    ELSE /\ promised[c] <= Len(written[c])
         /\ (\E t \in Thread : Closing(t, c)) => 1..promised[c] \subseteq Sent(c)

CloseInv ==
  /\ \A c \in Conn \ (gone \union mistaken) : Live(c) => Kept(c)
  /\ AllSentBeforeClose

IInv ==
  /\ Types /\ HandleInv /\ OwnerInv /\ QueueInv /\ SentInv /\ CloseInv
  /\ FlushOnItsWay

----------------------------------------------------------------------------
\* A packet more at the end of the queue, and one less at its head.
LEMMA Appended ==
  ASSUME NEW S, NEW q \in Seq(S), NEW x \in S
  PROVE  /\ Append(q, x) \in Seq(S) /\ Append(q, x) # <<>>
         /\ Len(q) \in Nat /\ Len(Append(q, x)) = Len(q) + 1
         /\ DOMAIN q = 1..Len(q) /\ DOMAIN Append(q, x) = 1..Len(q) + 1
         /\ Append(q, x)[Len(q) + 1] = x
         /\ \A i \in 1..Len(q) : Append(q, x)[i] = q[i]
OBVIOUS

LEMMA Beheaded ==
  ASSUME NEW S, NEW q \in Seq(S), q # <<>>
  PROVE  /\ Head(q) \in S /\ Tail(q) \in Seq(S) /\ Head(q) = q[1]
         /\ Len(q) \in Nat /\ Len(q) >= 1 /\ DOMAIN q = 1..Len(q)
         /\ Len(Tail(q)) = Len(q) - 1 /\ DOMAIN Tail(q) = 1..Len(q) - 1
         /\ \A i \in 1..Len(q) - 1 : Tail(q)[i] = q[i + 1]
OBVIOUS

LEMMA Lengths ==
  ASSUME Types
  PROVE  /\ Len(fd.packet) \in Nat /\ DOMAIN fd.packet = 1..Len(fd.packet)
         /\ \A c \in Conn : Len(written[c]) \in Nat /\ DOMAIN written[c] = 1..Len(written[c])
         /\ \A c \in Conn : \A i \in DOMAIN delivered[c] :
              /\ delivered[c][i] \in Packets
              /\ delivered[c][i] = <<delivered[c][i][1], delivered[c][i][2]>>
<1>1. fd.packet \in Seq(Packets)
  BY DEF Types
<1>2. ASSUME NEW c \in Conn PROVE written[c] \in Seq(Packets) /\ delivered[c] \in Seq(Packets)
  BY DEF Types
<1>3. ASSUME NEW c \in Conn, NEW i \in DOMAIN delivered[c] PROVE delivered[c][i] \in Packets
  BY <1>2
<1>4. \A p \in Packets : p = <<p[1], p[2]>>
  BY DEF Packets
<1>5. QED
  BY <1>1, <1>2, <1>3, <1>4

\* Sent, without its sets.
LEMMA SentIs ==
  ASSUME Types, NEW c \in Conn, NEW k
  PROVE  k \in Sent(c) <=> \E d \in Conn : \E i \in DOMAIN delivered[d] : delivered[d][i] = <<c, k>>
<1>1. k \in Sent(c) <=> \E d \in Conn : \E i \in DOMAIN delivered[d] :
                          delivered[d][i][1] = c /\ delivered[d][i][2] = k
  BY DEF Sent, ToSet
<1>2. QED
  BY <1>1, Lengths

LEMMA SentNumbers ==
  ASSUME Types, NEW c \in Conn, NEW k \in Sent(c)
  PROVE  k \in Nat
<1>1. \E d \in Conn : \E i \in DOMAIN delivered[d] : delivered[d][i] = <<c, k>>
  BY SentIs
<1>2. <<c, k>> \in Packets
  BY <1>1, Lengths
<1>3. QED
  BY <1>2 DEF Packets

\* A handle that has been given is that of one connection.
LEMMA OfHandle ==
  ASSUME Types, HandleInv, NEW u \in Handles
  PROVE  Of(u) \in Conn /\ uuid[Of(u)] = u /\ u # 0
<1>1. \E c \in Conn : uuid[c] = u
  BY DEF Handles
<1>2. QED
  BY <1>1 DEF Of, Handles

LEMMA OneLive ==
  ASSUME HandleInv, NEW c \in Conn, NEW d \in Conn, Live(c), Live(d)
  PROVE  c = d
BY DEF HandleInv, Live

\* What is at the head of the queue.
LEMMA HeadOfLive ==
  ASSUME Types, OwnerInv, QueueInv, fd.packet # <<>>
  PROVE  \E c \in Conn : /\ Live(c) /\ (sock = c \/ c \in mistaken)
                         /\ Head(fd.packet) = <<c, Out(c) + 1>> /\ Head(fd.packet)[1] = c
                         /\ Out(c) + 1 \in DOMAIN written[c]
<1>1. PICK c \in Conn : Live(c)
  BY DEF OwnerInv, QueueInv
<1>2. fd.packet \in Seq(Packets)
  BY DEF Types
<1>3. Head(fd.packet) = fd.packet[1] /\ 1 \in DOMAIN fd.packet
  BY <1>2, Beheaded
<1>4. Head(fd.packet) = <<c, Out(c) + 1>> /\ Out(c) >= 0
  BY <1>1, <1>3 DEF QueueInv
<1>5. Len(fd.packet) \in Nat /\ Len(fd.packet) >= 1
  BY <1>2, Beheaded
<1>6. Out(c) + 1 \in DOMAIN written[c]
  <2>1. Len(written[c]) \in Nat /\ DOMAIN written[c] = 1..Len(written[c])
    BY Lengths
  <2>2. Out(c) \in Int /\ Out(c) + 1 <= Len(written[c])
    BY <1>5, <2>1 DEF Out
  <2>3. QED
    BY <1>4, <2>1, <2>2
<1>7. QED
  BY <1>1, <1>4, <1>6 DEF OwnerInv

----------------------------------------------------------------------------
\* A step of t changes the call of t.
Now(t, at, u, arg) ==
  /\ pc' \in [Thread -> Calls]
  /\ pc'[t].at = at /\ pc'[t].u = u /\ pc'[t].arg = arg
  /\ \A v \in Thread \ {t} : pc'[v] = pc[v]

LEMMA GotoNow ==
  ASSUME Types, NEW t \in Thread, NEW at \in Places, Goto(t, at)
  PROVE  Now(t, at, pc[t].u, pc[t].arg)
BY DEF Types, Goto, Now, Calls

LEMMA DoneNow ==
  ASSUME Types, NEW t \in Thread, Done(t)
  PROVE  Now(t, "idle", 0, 0)
BY DEF Types, Done, Idle, Now, Calls, Places

LEMMA StartNow ==
  ASSUME Types, NEW t \in Thread, NEW at \in Places, NEW u \in Nat, NEW arg \in {0, 1},
         Start(t, at, u, arg)
  PROVE  Now(t, at, u, arg) /\ pc[t].at = "idle" /\ pc[t].u = 0
BY DEF Types, Start, Idle, Now, Calls

LEMMA InitIInv == ASSUME Sane, Init PROVE IInv
<1>1. Types
  <2>1. Fresh(0, FALSE) \in [counter : Nat, open : BOOLEAN, close : BOOLEAN, packet : Seq(Packets)]
    BY DEF Fresh
  <2>2. Idle \in Calls /\ 0 \in 0..MaxConn
    BY DEF Sane, Idle, Calls, Places
  <2>3. sock = 0 /\ conns = 0 /\ sock_lock = None /\ ready = {} /\ armed = FALSE /\ mistaken = {}
    BY DEF Init
  <2>4. uuid \in [Conn -> Nat] /\ promised \in [Conn -> Nat \union {None}]
    BY DEF Init
  <2>5. written \in [Conn -> Seq(Packets)] /\ delivered \in [Conn -> Seq(Packets)]
    BY DEF Init
  <2>6. fd = Fresh(0, FALSE) /\ pc \in [Thread -> Calls]
    BY <2>2 DEF Init
  <2>7. QED
    BY <2>1, <2>2, <2>3, <2>4, <2>5, <2>6 DEF Types
<1>2. HandleInv
  BY DEF Sane, Init, HandleInv, Fresh, Idle, Conn
<1>3. OwnerInv
  BY DEF Sane, Init, OwnerInv, Fresh, Idle, Live
<1>4. QueueInv
  BY DEF Sane, Init, QueueInv, Fresh, Idle, Live
<1>5. \A c \in Conn : DOMAIN delivered[c] = {} /\ ~Live(c) /\ uuid[c] = 0
  BY DEF Init, Live
<1>6. OwnInOrder
  BY <1>5 DEF OwnInOrder
<1>7. SentInv /\ CloseInv
  BY <1>5, <1>6 DEF SentInv, CloseInv, AllSentBeforeClose
<1>8. FlushOnItsWay
  BY DEF Init, Fresh, FlushOnItsWay
<1>9. QED
  BY <1>1, <1>2, <1>3, <1>4, <1>7, <1>8 DEF IInv

----------------------------------------------------------------------------
\* Steps that leave the descriptor, the kernel and the packets alone.
Quiet == UNCHANGED <<fd, Kernel, Data>>

LEMMA QuietSame ==
  ASSUME Quiet
  PROVE  /\ fd' = fd /\ sock' = sock /\ gone' = gone /\ conns' = conns /\ uuid' = uuid
         /\ written' = written /\ delivered' = delivered /\ promised' = promised
         /\ mistaken' = mistaken
         /\ \A c \in Conn : (Live(c))' = Live(c) /\ (Out(c))' = Out(c) /\ (Sent(c))' = Sent(c)
         /\ Handles' = Handles
<1>1. /\ fd' = fd /\ sock' = sock /\ gone' = gone /\ conns' = conns /\ uuid' = uuid
      /\ written' = written /\ delivered' = delivered /\ promised' = promised
      /\ mistaken' = mistaken
  BY DEF Quiet, Kernel, Data
<1>2. QED
  BY <1>1 DEF Live, Out, Sent, Handles

LEMMA QuietStep ==
  ASSUME Sane, IInv, Quiet, NEW t \in Thread, NEW at \in Places, NEW u \in Nat, NEW arg,
         Now(t, at, u, arg),
         sock_lock' \in Thread \union {None}, ready' \subseteq 0..fd.counter, armed' \in BOOLEAN,
         at \notin {"accepted", "mark", "drop", "clear"}, pc[t].at # "clear",
         at = "write" => u \in Handles, u <= fd.counter,
         \A v \in Thread : sock_lock' = v <=> pc'[v].at = "send",
         at = "send" => fd.packet # <<>>,
         at = "force" => \A c \in Conn \ (gone \union mistaken) :
                           Live(c) /\ u = uuid[c] => promised[c] # None /\ 1..promised[c] \subseteq Sent(c)
  PROVE  Types' /\ HandleInv' /\ OwnerInv' /\ QueueInv' /\ SentInv' /\ CloseInv'
<1>. USE QuietSame
<1>1. Types'
  BY DEF IInv, Types, Now
<1>2. \A v \in Thread : v # t => pc'[v] = pc[v]
  BY DEF Now
<1>3. pc'[t].at = at /\ pc'[t].u = u
  BY DEF Now
<1>4. HandleInv'
  BY <1>2, <1>3 DEF IInv, HandleInv
<1>5. OwnerInv'
  BY <1>2, <1>3 DEF IInv, OwnerInv
<1>6. QueueInv'
  BY <1>2, <1>3 DEF IInv, QueueInv
<1>7. \A c \in Conn : (Dropped(c))' <=> Dropped(c)
  BY <1>2, <1>3 DEF Dropped
<1>8. SentInv'
  BY <1>7 DEF IInv, SentInv, OwnInOrder
<1>9. ASSUME NEW c \in Conn \ (gone \union mistaken), Live(c)
      PROVE  (Kept(c))'
  <2>1. Kept(c)
    BY <1>9 DEF IInv, CloseInv
  <2>2. CASE promised[c] = None
    BY <1>2, <1>3, <1>9, <2>1, <2>2 DEF Kept
  <2>3. CASE promised[c] # None
    <3>1. ASSUME NEW v \in Thread, (Closing(v, c))' PROVE 1..promised[c] \subseteq Sent(c)
      BY <1>2, <1>3, <1>9, <2>1, <2>3, <3>1 DEF Kept, Closing
    <3>2. QED
      BY <2>1, <2>3, <3>1 DEF Kept
  <2>4. QED
    BY <2>2, <2>3
<1>10. CloseInv'
  BY <1>9 DEF IInv, CloseInv, AllSentBeforeClose
<1>11. QED
  BY <1>1, <1>4, <1>5, <1>6, <1>8, <1>10

\* What a flush leaves behind.
FlushPlaces == {"flush", "trylock", "send", "test", "force", "drop", "clear"}

LEMMA QuietFlush ==
  ASSUME IInv, NEW t \in Thread, NEW at, NEW u, NEW arg, Now(t, at, u, arg),
         fd'.packet = fd.packet, fd'.counter = fd.counter, mistaken \subseteq mistaken', gone' = gone,
         armed => armed', ready \subseteq ready',
         /\ fd.packet # <<>> /\ Head(fd.packet)[1] \notin mistaken \union gone
         /\ pc[t].u = fd.counter /\ pc[t].at \in FlushPlaces
         => armed' \/ fd.counter \in ready' \/ (u = fd.counter /\ at \in FlushPlaces)
  PROVE  FlushOnItsWay'
<1>2. SUFFICES ASSUME fd.packet # <<>>, Head(fd.packet)[1] \notin mistaken \union gone
               PROVE  \/ armed' \/ fd.counter \in ready'
                      \/ \E v \in Thread : pc'[v].u = fd.counter /\ pc'[v].at \in FlushPlaces
  BY DEF FlushOnItsWay, FlushPlaces
<1>3. CASE armed \/ fd.counter \in ready
  BY <1>3
<1>4. CASE \E v \in Thread : pc[v].u = fd.counter /\ pc[v].at \in FlushPlaces
  <2>1. PICK v \in Thread : pc[v].u = fd.counter /\ pc[v].at \in FlushPlaces
    BY <1>4
  <2>2. CASE v = t
    BY <1>2, <2>1, <2>2 DEF Now
  <2>3. CASE v # t
    BY <2>1, <2>3 DEF Now
  <2>4. QED
    BY <2>2, <2>3
<1>5. QED
  BY <1>2, <1>3, <1>4 DEF IInv, FlushOnItsWay, FlushPlaces

\* Again leaves a task or waits for the kernel; when the kernel has no descriptor
\* any more, the live connection has been struck by mistake.
LEMMA AgainFlush ==
  ASSUME IInv, Quiet, NEW t \in Thread, Again(t)
  PROVE  /\ Now(t, "idle", 0, 0) /\ ready' \subseteq 0..fd.counter /\ armed' \in BOOLEAN
         /\ FlushOnItsWay'
<1>1. Now(t, "idle", 0, 0)
  BY DoneNow DEF IInv, Again
<1>2. pc[t] \in Calls /\ pc[t].u <= fd.counter /\ ready \subseteq 0..fd.counter /\ armed \in BOOLEAN
  BY DEF IInv, Types, HandleInv
<1>3. /\ ready' = IF pc[t].arg = 1 THEN ready \union {pc[t].u} ELSE ready
      /\ armed' = (armed \/ (pc[t].arg = 0 /\ sock # 0))
  BY DEF Again
<1>4. ready \subseteq ready' /\ ready' \subseteq 0..fd.counter /\ (armed => armed') /\ armed' \in BOOLEAN
  <2>1. pc[t].u \in 0..fd.counter
    BY <1>2 DEF IInv, Types, Calls
  <2>2. ready \subseteq ready' /\ ready' \subseteq 0..fd.counter
    BY <1>2, <1>3, <2>1
  <2>3. QED
    BY <1>2, <1>3, <2>2
<1>5. ASSUME fd.packet # <<>>, Head(fd.packet)[1] \notin mistaken \union gone, pc[t].u = fd.counter
      PROVE  armed' \/ fd.counter \in ready'
  <2>1. PICK c \in Conn : Live(c) /\ (sock = c \/ c \in mistaken) /\ Head(fd.packet)[1] = c
    BY <1>5, HeadOfLive DEF IInv
  <2>2. sock # 0
    BY <1>5, <2>1 DEF Conn
  <2>3. CASE pc[t].arg = 1
    BY <1>3, <1>5, <2>3
  <2>4. CASE pc[t].arg = 0
    BY <1>3, <2>2, <2>4
  <2>5. QED
    BY <1>2, <2>3, <2>4 DEF Calls
<1>6. FlushOnItsWay'
  BY <1>1, <1>4, <1>5, QuietSame, QuietFlush
<1>7. QED
  BY <1>1, <1>4, <1>6

----------------------------------------------------------------------------
LEMMA LockSame ==
  ASSUME IInv, NEW t \in Thread, NEW at, NEW u, NEW arg, Now(t, at, u, arg), at # "send",
         sock_lock' = sock_lock, pc[t].at # "send"
  PROVE  /\ \A v \in Thread : sock_lock' = v <=> pc'[v].at = "send"
         /\ sock_lock' \in Thread \union {None}
BY DEF IInv, HandleInv, Now, Types

LEMMA LockFreed ==
  ASSUME Sane, IInv, NEW t \in Thread, NEW at, NEW u, NEW arg, Now(t, at, u, arg), at # "send",
         sock_lock' = None, pc[t].at = "send"
  PROVE  /\ \A v \in Thread : sock_lock' = v <=> pc'[v].at = "send"
         /\ sock_lock' \in Thread \union {None}
<1>1. sock_lock = t
  BY DEF IInv, HandleInv
<1>2. QED
  BY <1>1 DEF Sane, IInv, HandleInv, Now

LEMMA WriteStep ==
  ASSUME Sane, IInv, NEW t \in Thread, NEW u \in Handles, Write(t, u)
  PROVE  IInv'
<1>1. u \in Nat /\ u <= fd.counter /\ Quiet /\ "write" \in Places
  BY DEF IInv, Types, Handles, HandleInv, Write, Quiet, Places
<1>2. Now(t, "write", u, 1) /\ pc[t].at = "idle"
  BY <1>1, StartNow DEF IInv, Write
<1>3. sock_lock' = sock_lock /\ ready' = ready /\ armed' = armed
  BY DEF Write
<1>4. FlushOnItsWay'
  BY <1>1, <1>2, <1>3, QuietSame, QuietFlush DEF FlushPlaces
<1>5. Types' /\ HandleInv' /\ OwnerInv' /\ QueueInv' /\ SentInv' /\ CloseInv'
  <2>1. ready' \subseteq 0..fd.counter /\ armed' \in BOOLEAN
    BY <1>3 DEF IInv, Types, HandleInv
  <2>2. QED
    BY <1>1, <1>2, <1>3, <2>1, LockSame, QuietStep
<1>6. QED
  BY <1>4, <1>5 DEF IInv

LEMMA FlushTestStep ==
  ASSUME Sane, IInv, NEW t \in Thread, FlushTest(t)
  PROVE  IInv'
<1>1. /\ Quiet /\ pc[t].at = "flush" /\ pc[t].u \in Nat /\ pc[t].u <= fd.counter
      /\ sock_lock' = sock_lock /\ ready' = ready /\ armed' = armed
  BY DEF IInv, Types, Calls, HandleInv, FlushTest, Quiet
<1>2. ready' \subseteq 0..fd.counter /\ armed' \in BOOLEAN
  BY <1>1 DEF IInv, Types, HandleInv
<1>3. CASE Valid(pc[t].u)
  <2>1. Now(t, "trylock", pc[t].u, pc[t].arg) /\ "trylock" \in Places
    BY <1>3, GotoNow DEF IInv, FlushTest, Places
  <2>2. FlushOnItsWay'
    BY <1>1, <2>1, QuietSame, QuietFlush DEF FlushPlaces
  <2>3. QED
    BY <1>1, <1>2, <2>1, <2>2, LockSame, QuietStep DEF IInv
<1>4. CASE ~Valid(pc[t].u)
  <2>1. Now(t, "idle", 0, 0) /\ "idle" \in Places /\ 0 <= fd.counter
    BY <1>4, DoneNow DEF IInv, FlushTest, Places, Types
  <2>2. FlushOnItsWay'
    BY <1>1, <1>4, <2>1, QuietSame, QuietFlush DEF Valid
  <2>3. QED
    BY <1>1, <1>2, <2>1, <2>2, LockSame, QuietStep DEF IInv
<1>5. QED
  BY <1>3, <1>4

\* A step that ends with Again, the lock as the step leaves it.
LEMMA AgainStep ==
  ASSUME Sane, IInv, Quiet, NEW t \in Thread, Again(t), pc[t].at \in {"trylock", "send", "test"},
         sock_lock' = IF pc[t].at = "send" THEN None ELSE sock_lock
  PROVE  IInv'
<1>1. Now(t, "idle", 0, 0) /\ ready' \subseteq 0..fd.counter /\ armed' \in BOOLEAN /\ FlushOnItsWay'
  BY AgainFlush
<1>2. "idle" \in Places /\ 0 <= fd.counter
  BY DEF IInv, Types, Places
<1>3. \A v \in Thread : sock_lock' = v <=> pc'[v].at = "send"
  BY <1>1, LockSame, LockFreed
<1>4. sock_lock' \in Thread \union {None}
  BY DEF IInv, Types, HandleInv
<1>5. QED
  BY <1>1, <1>2, <1>3, <1>4, QuietStep DEF IInv

LEMMA FlushBusyStep ==
  ASSUME Sane, IInv, NEW t \in Thread, FlushBusy(t)
  PROVE  IInv'
BY AgainStep DEF FlushBusy, Quiet

LEMMA SendWouldBlockStep ==
  ASSUME Sane, IInv, NEW t \in Thread, SendWouldBlock(t)
  PROVE  IInv'
BY AgainStep DEF SendWouldBlock, Quiet

LEMMA FlushNothingStep ==
  ASSUME Sane, IInv, NEW t \in Thread, FlushNothing(t)
  PROVE  IInv'
<1>1. /\ Quiet /\ pc[t].at = "trylock" /\ fd.packet = <<>>
      /\ sock_lock' = sock_lock /\ ready' = ready /\ armed' = armed
  BY DEF FlushNothing, Quiet
<1>2. ready' \subseteq 0..fd.counter /\ armed' \in BOOLEAN
  BY <1>1 DEF IInv, Types, HandleInv
<1>3. Now(t, "idle", 0, 0) /\ "idle" \in Places /\ 0 <= fd.counter
  BY DoneNow DEF IInv, FlushNothing, Places, Types
<1>4. FlushOnItsWay'
  BY <1>1, <1>3, QuietSame, QuietFlush
<1>5. QED
  BY <1>1, <1>2, <1>3, <1>4, LockSame, QuietStep DEF IInv

LEMMA FlushLockStep ==
  ASSUME Sane, IInv, NEW t \in Thread, FlushLock(t)
  PROVE  IInv'
<1>1. /\ Quiet /\ pc[t].at = "trylock" /\ fd.packet # <<>> /\ pc[t].u \in Nat /\ pc[t].u <= fd.counter
      /\ sock_lock = None /\ sock_lock' = t /\ ready' = ready /\ armed' = armed
  BY DEF IInv, Types, Calls, HandleInv, FlushLock, Quiet
<1>2. ready' \subseteq 0..fd.counter /\ armed' \in BOOLEAN /\ sock_lock' \in Thread \union {None}
  BY <1>1 DEF IInv, Types, HandleInv
<1>3. Now(t, "send", pc[t].u, pc[t].arg) /\ "send" \in Places
  BY GotoNow DEF IInv, FlushLock, Places
<1>4. \A v \in Thread : sock_lock' = v <=> pc'[v].at = "send"
  BY <1>1, <1>3 DEF Sane, IInv, HandleInv, Now
<1>5. FlushOnItsWay'
  BY <1>1, <1>3, QuietSame, QuietFlush DEF FlushPlaces
<1>6. QED
  BY <1>1, <1>2, <1>3, <1>4, <1>5, QuietStep DEF IInv

\* When the queue is empty and the marker set, all that was promised has been sent.
LEMMA MarkedSent ==
  ASSUME Sane, IInv, fd.packet = <<>>, fd.close, NEW c \in Conn \ (gone \union mistaken), Live(c)
  PROVE  promised[c] # None /\ 1..promised[c] \subseteq Sent(c)
<1>1. Kept(c)
  BY DEF IInv, CloseInv
<1>2. promised[c] # None /\ promised[c] <= Len(written[c])
  BY <1>1 DEF Kept
<1>3. CASE Dropped(c)
  <2>1. \E t \in Thread : Closing(t, c)
    BY <1>3 DEF Dropped, Live, Closing
  <2>2. QED
    BY <1>1, <1>2, <2>1 DEF Kept
<1>4. CASE ~Dropped(c)
  <2>1. 1..Out(c) \subseteq Sent(c)
    BY <1>4 DEF IInv, SentInv
  <2>2. Out(c) = Len(written[c]) /\ Len(written[c]) \in Nat
    BY Lengths DEF IInv, Out
  <2>3. promised[c] \in Nat
    BY <1>2 DEF IInv, Types, HandleInv
  <2>4. QED
    BY <1>2, <2>1, <2>2, <2>3
<1>5. QED
  BY <1>3, <1>4

LEMMA TestCloseStep ==
  ASSUME Sane, IInv, NEW t \in Thread, TestClose(t)
  PROVE  IInv'
<1>1. /\ Quiet /\ pc[t].at = "test" /\ sock_lock' = sock_lock
      /\ pc[t].u \in Nat /\ pc[t].u <= fd.counter
  BY DEF IInv, Types, Calls, HandleInv, TestClose, Quiet
<1>2. CASE Marked
  <2>1. Now(t, "force", pc[t].u, pc[t].arg) /\ "force" \in Places /\ ready' = ready /\ armed' = armed
    BY <1>2, GotoNow DEF IInv, TestClose, Places
  <2>2. ready' \subseteq 0..fd.counter /\ armed' \in BOOLEAN
    BY <2>1 DEF IInv, Types, HandleInv
  <2>3. \A c \in Conn \ (gone \union mistaken) :
          Live(c) => promised[c] # None /\ 1..promised[c] \subseteq Sent(c)
    BY <1>2, MarkedSent DEF Marked
  <2>4. FlushOnItsWay'
    BY <1>1, <2>1, QuietSame, QuietFlush DEF FlushPlaces
  <2>5. QED
    BY <1>1, <2>1, <2>2, <2>3, <2>4, LockSame, QuietStep DEF IInv
<1>3. CASE ~Marked /\ fd.open /\ fd.packet # <<>>
  BY <1>1, <1>3, AgainStep DEF TestClose
<1>4. CASE ~Marked /\ ~(fd.open /\ fd.packet # <<>>)
  <2>1. Now(t, "idle", 0, 0) /\ ready' = ready /\ armed' = armed /\ "idle" \in Places /\ 0 <= fd.counter
    BY <1>4, DoneNow DEF IInv, TestClose, Places, Types
  <2>2. ready' \subseteq 0..fd.counter /\ armed' \in BOOLEAN
    BY <2>1 DEF IInv, Types, HandleInv
  <2>3. fd.packet = <<>>
    BY <1>4 DEF IInv, QueueInv
  <2>4. FlushOnItsWay'
    BY <1>1, <2>1, <2>3, QuietSame, QuietFlush
  <2>5. QED
    BY <1>1, <2>1, <2>2, <2>4, LockSame, QuietStep DEF IInv
<1>5. QED
  BY <1>2, <1>3, <1>4

LEMMA OnReadyStep ==
  ASSUME Sane, IInv, NEW t \in Thread, OnReady(t)
  PROVE  IInv'
<1>1. PICK u \in ready : Start(t, "flush", u, 0) /\ ready' = ready \ {u}
  BY DEF OnReady
<1>2. Quiet /\ sock_lock' = sock_lock /\ armed' = armed
  BY DEF OnReady, Quiet
<1>3. /\ u \in Nat /\ u <= fd.counter /\ ready' \subseteq 0..fd.counter /\ armed' \in BOOLEAN
      /\ "flush" \in Places
  BY <1>1, <1>2 DEF IInv, Types, HandleInv, Places
<1>4. Now(t, "flush", u, 0) /\ pc[t].at = "idle"
  BY <1>1, <1>3, StartNow DEF IInv
<1>5. Types' /\ HandleInv' /\ OwnerInv' /\ QueueInv' /\ SentInv' /\ CloseInv'
  BY <1>2, <1>3, <1>4, LockSame, QuietStep
<1>6. FlushOnItsWay'
  <2>1. fd' = fd /\ mistaken' = mistaken /\ gone' = gone
    BY <1>2, QuietSame
  <2>2. pc'[t].at = "flush" /\ pc'[t].u = u /\ \A v \in Thread \ {t} : pc'[v] = pc[v]
    BY <1>4 DEF Now
  <2>3. CASE u = fd.counter
    BY <2>1, <2>2, <2>3 DEF FlushOnItsWay
  <2>4. CASE u # fd.counter
    <3>1. fd.counter \in ready => fd.counter \in ready'
      BY <1>1, <2>4
    <3>2. \A v \in Thread : pc[v].at \in FlushPlaces => pc'[v] = pc[v]
      BY <1>4, <2>2 DEF FlushPlaces
    <3>3. QED
      BY <1>2, <2>1, <3>1, <3>2 DEF IInv, FlushOnItsWay, FlushPlaces
  <2>5. QED
    BY <2>3, <2>4
<1>7. QED
  BY <1>5, <1>6 DEF IInv

LEMMA PollWriteStep ==
  ASSUME Sane, IInv, PollWrite
  PROVE  IInv'
<1>1. /\ Quiet /\ sock_lock' = sock_lock /\ pc' = pc
      /\ armed' = FALSE /\ ready' = ready \union {fd.counter}
  BY DEF PollWrite, Quiet
<1>2. /\ fd' = fd /\ sock' = sock /\ gone' = gone /\ conns' = conns /\ uuid' = uuid
      /\ written' = written /\ delivered' = delivered /\ promised' = promised
      /\ mistaken' = mistaken /\ Handles' = Handles
      /\ \A c \in Conn : (Live(c))' = Live(c) /\ (Out(c))' = Out(c) /\ (Sent(c))' = Sent(c)
  BY <1>1, QuietSame
<1>3. Types' /\ HandleInv'
  <2>1. fd.counter \in Nat /\ ready \subseteq Nat /\ \A u \in ready : u <= fd.counter
    BY DEF IInv, Types, HandleInv
  <2>2. ready' \subseteq Nat /\ \A u \in ready' : u <= fd.counter
    <3>1. ready' = ready \union {fd.counter}
      BY <1>1
    <3>2. fd.counter <= fd.counter
      BY <2>1
    <3>3. QED
      BY <2>1, <3>1, <3>2
  <2>3. Types'
    BY <1>1, <1>2, <2>2 DEF IInv, Types
  <2>4. QED
    BY <1>1, <1>2, <2>2, <2>3 DEF IInv, HandleInv
<1>4. OwnerInv' /\ QueueInv'
  BY <1>1, <1>2 DEF IInv, OwnerInv, QueueInv
<1>5. SentInv'
  <2>1. \A c \in Conn : (Dropped(c))' <=> Dropped(c)
    BY <1>1, <1>2 DEF Dropped
  <2>2. QED
    BY <1>2, <2>1 DEF IInv, SentInv, OwnInOrder
<1>6. CloseInv'
  <2>1. \A c \in Conn : (Kept(c))' <=> Kept(c)
    BY <1>1, <1>2 DEF Kept, Closing
  <2>2. QED
    BY <1>2, <2>1 DEF IInv, CloseInv, AllSentBeforeClose
<1>7. FlushOnItsWay'
  BY <1>1, <1>2 DEF FlushOnItsWay
<1>8. QED
  BY <1>3, <1>4, <1>5, <1>6, <1>7 DEF IInv

LEMMA HangupEventStep ==
  ASSUME Sane, IInv, NEW t \in Thread, HangupEvent(t)
  PROVE  IInv'
<1>1. /\ Quiet /\ sock \in gone /\ sock_lock' = sock_lock /\ ready' = ready /\ armed' = armed
      /\ fd.counter \in Nat /\ "force" \in Places
  BY DEF IInv, Types, HangupEvent, Quiet, Places
<1>2. ready' \subseteq 0..fd.counter /\ armed' \in BOOLEAN
  BY <1>1 DEF IInv, Types, HandleInv
<1>3. Now(t, "force", fd.counter, 0) /\ pc[t].at = "idle"
  BY <1>1, StartNow DEF IInv, HangupEvent
<1>4. \A c \in Conn \ (gone \union mistaken) : ~Live(c)
  BY <1>1 DEF IInv, OwnerInv
<1>5. FlushOnItsWay'
  BY <1>1, <1>3, QuietSame, QuietFlush DEF FlushPlaces
<1>6. QED
  BY <1>1, <1>2, <1>3, <1>4, <1>5, LockSame, QuietStep DEF IInv

\* Steps that change nothing, or only who has hung up.
LEMMA AllStays ==
  ASSUME IInv, fd' = fd, sock_lock' = sock_lock, sock' = sock, conns' = conns, uuid' = uuid,
         ready' = ready, armed' = armed, pc' = pc, written' = written, delivered' = delivered,
         promised' = promised, mistaken' = mistaken, gone \subseteq gone'
  PROVE  IInv'
<1>1. \A c \in Conn : /\ (Live(c))' = Live(c) /\ (Out(c))' = Out(c) /\ (Sent(c))' = Sent(c)
                      /\ (Dropped(c))' = Dropped(c)
  BY DEF Live, Out, Sent, Dropped
<1>2. Types'
  BY DEF IInv, Types
<1>3. HandleInv'
  <2>1. Handles' = Handles
    BY DEF Handles
  <2>2. QED
    BY <2>1 DEF IInv, HandleInv
<1>4. OwnerInv'
  BY <1>1 DEF IInv, OwnerInv
<1>5. QueueInv'
  BY <1>1 DEF IInv, QueueInv
<1>6. SentInv'
  <2>1. OwnInOrder'
    BY DEF IInv, SentInv, OwnInOrder
  <2>2. QED
    BY <1>1, <2>1 DEF IInv, SentInv
<1>7. CloseInv'
  <2>1. \A c \in Conn : (Kept(c))' <=> Kept(c)
    BY <1>1 DEF Kept, Closing
  <2>2. AllSentBeforeClose'
    BY <1>1 DEF IInv, CloseInv, AllSentBeforeClose
  <2>3. QED
    BY <1>1, <2>1, <2>2 DEF IInv, CloseInv
<1>8. FlushOnItsWay'
  BY DEF IInv, FlushOnItsWay
<1>9. QED
  BY <1>2, <1>3, <1>4, <1>5, <1>6, <1>7, <1>8 DEF IInv

\* A peer that hangs up.
LEMMA HangupStep ==
  ASSUME Sane, IInv, NEW c \in Conn, Hangup(c)
  PROVE  IInv'
BY AllStays DEF Hangup, Data

----------------------------------------------------------------------------
\* What stays as it was when the packets and handles do.
LEMMA SentKept ==
  ASSUME IInv, NEW t \in Thread, NEW at, NEW u, NEW arg, Now(t, at, u, arg), pc[t].at # "clear",
         fd'.counter = fd.counter, fd'.packet = fd.packet, uuid' = uuid,
         written' = written, delivered' = delivered, mistaken \subseteq mistaken'
  PROVE  /\ SentInv'
         /\ \A c \in Conn : (Live(c))' = Live(c) /\ (Out(c))' = Out(c) /\ (Sent(c))' = Sent(c)
<1>1. \A c \in Conn : (Live(c))' = Live(c) /\ (Out(c))' = Out(c) /\ (Sent(c))' = Sent(c)
  BY DEF Live, Out, Sent
<1>2. OwnInOrder'
  BY DEF IInv, SentInv, OwnInOrder
<1>3. \A c \in Conn : Dropped(c) => (Dropped(c))'
  BY DEF Dropped, Now
<1>4. QED
  BY <1>1, <1>2, <1>3 DEF IInv, SentInv

LEMMA QueueKept ==
  ASSUME IInv, NEW t \in Thread, NEW at, NEW u, NEW arg, Now(t, at, u, arg), at # "send",
         fd'.counter = fd.counter, fd'.packet = fd.packet, fd'.open = fd.open, uuid' = uuid,
         written' = written
  PROVE  QueueInv'
<1>1. \A c \in Conn : (Live(c))' = Live(c) /\ (Out(c))' = Out(c)
  BY DEF Live, Out
<1>2. QED
  BY <1>1 DEF IInv, QueueInv, Now

LEMMA HandleKept ==
  ASSUME IInv, NEW t \in Thread, NEW at, NEW u, NEW arg, Now(t, at, u, arg),
         at # "write", u <= fd.counter,
         fd'.counter = fd.counter, uuid' = uuid, conns' \in Nat, conns <= conns',
         written' = written, \A c \in Conn : uuid[c] = 0 => promised'[c] = promised[c],
         \A v \in Thread : sock_lock' = v <=> pc'[v].at = "send",
         ready' \subseteq 0..fd.counter
  PROVE  HandleInv'
<1>1. Handles' = Handles
  BY DEF Handles
<1>2. \A c \in Conn : c > conns' => c > conns
  BY DEF IInv, Types, Conn
<1>3. \A v \in Thread : pc'[v].u <= fd'.counter /\ (pc'[v].at = "write" => pc'[v].u \in Handles')
  BY <1>1 DEF IInv, HandleInv, Now
<1>4. \A v \in ready' : v <= fd'.counter
  <2>1. fd.counter \in Nat
    BY DEF IInv, Types
  <2>2. QED
    BY <2>1
<1>5. QED
  BY <1>2, <1>3, <1>4 DEF IInv, HandleInv

LEMMA AcceptStep ==
  ASSUME Sane, IInv, NEW t \in Thread, Accept(t)
  PROVE  IInv'
<1>1. /\ sock = 0 /\ conns < MaxConn /\ sock' = conns + 1 /\ conns' = conns + 1
      /\ fd' = fd /\ sock_lock' = sock_lock /\ gone' = gone /\ uuid' = uuid
      /\ ready' = ready /\ armed' = armed /\ written' = written /\ delivered' = delivered
      /\ promised' = promised /\ mistaken' = mistaken
      /\ \A v \in Thread : pc[v].at # "accepted"
  BY DEF Accept, Data
<1>2. "accepted" \in Places /\ 0 \in Nat /\ 0 \in {0, 1}
  BY DEF Places
<1>3. Now(t, "accepted", 0, 0) /\ pc[t].at = "idle"
  BY <1>2, StartNow DEF IInv, Accept
<1>4. conns \in Nat /\ conns + 1 \in 0..MaxConn /\ conns + 1 \in Conn /\ conns + 1 > conns
      /\ fd.counter \in Nat
  BY <1>1 DEF Sane, IInv, Types, Conn
<1>5. Types'
  BY <1>1, <1>3, <1>4 DEF IInv, Types, Now
<1>6. HandleInv'
  <2>1. \A v \in Thread : sock_lock' = v <=> pc'[v].at = "send"
    BY <1>1, <1>3, LockSame
  <2>2. ready' \subseteq 0..fd.counter
    BY <1>1 DEF IInv, Types, HandleInv
  <2>3. conns' \in Nat /\ conns <= conns' /\ 0 <= fd.counter
    BY <1>1, <1>4
  <2>4. QED
    BY <1>1, <1>3, <2>1, <2>2, <2>3, HandleKept
<1>7. SentInv' /\ \A c \in Conn : (Live(c))' = Live(c) /\ (Sent(c))' = Sent(c)
  BY <1>1, <1>3, SentKept
<1>8. OwnerInv'
  <2>1. ASSUME NEW c \in Conn, Live(c) PROVE c \in mistaken
    BY <1>1, <2>1 DEF IInv, OwnerInv, Conn
  <2>2. uuid[conns + 1] = 0
    BY <1>4 DEF IInv, HandleInv
  <2>3. \A v \in Thread : pc'[v].at = "accepted" => v = t
    BY <1>1, <1>3 DEF Now
  <2>4. QED
    BY <1>1, <1>4, <1>7, <2>1, <2>2, <2>3 DEF IInv, OwnerInv
<1>9. QueueInv'
  BY <1>1, <1>3, QueueKept
<1>10. CloseInv'
  <2>1. \A c \in Conn : (Kept(c))' <=> Kept(c)
    BY <1>1, <1>3, <1>7 DEF Kept, Closing, Now
  <2>2. QED
    BY <1>1, <1>7, <2>1 DEF IInv, CloseInv, AllSentBeforeClose
<1>11. FlushOnItsWay'
  BY <1>1, <1>3, QuietFlush DEF FlushPlaces
<1>12. QED
  BY <1>5, <1>6, <1>7, <1>8, <1>9, <1>10, <1>11 DEF IInv

LEMMA OsCloseStep ==
  ASSUME Sane, IInv, NEW t \in Thread, OsClose(t)
  PROVE  IInv'
<1>1. /\ sock' = 0 /\ armed' = FALSE /\ pc[t].at = "osclose"
      /\ fd' = fd /\ sock_lock' = sock_lock /\ gone' = gone /\ uuid' = uuid /\ conns' = conns
      /\ ready' = ready /\ written' = written /\ delivered' = delivered /\ promised' = promised
  BY DEF OsClose
<1>2. mistaken' = mistaken \union {c \in Conn : c = sock /\ uuid[c] \in {0, fd.counter}}
  BY DEF OsClose
<1>3. Now(t, "idle", 0, 0)
  BY DoneNow DEF IInv, OsClose
<1>4. conns \in Nat /\ conns \in 0..MaxConn /\ fd.counter \in Nat /\ mistaken \subseteq mistaken'
  BY <1>2 DEF Sane, IInv, Types
<1>5. Types'
  <2>1. mistaken' \subseteq Conn
    BY <1>2 DEF IInv, Types
  <2>2. 0 \in 0..MaxConn
    BY DEF Sane
  <2>3. QED
    BY <1>1, <1>3, <2>1, <2>2 DEF IInv, Types, Now
<1>6. HandleInv'
  <2>1. \A v \in Thread : sock_lock' = v <=> pc'[v].at = "send"
    BY <1>1, <1>3, LockSame
  <2>2. ready' \subseteq 0..fd.counter
    BY <1>1 DEF IInv, Types, HandleInv
  <2>3. conns' \in Nat /\ conns <= conns' /\ 0 <= fd.counter
    BY <1>1, <1>4
  <2>4. QED
    BY <1>1, <1>3, <2>1, <2>2, <2>3, HandleKept
<1>7. SentInv' /\ \A c \in Conn : (Live(c))' = Live(c) /\ (Sent(c))' = Sent(c)
  BY <1>1, <1>3, <1>4, SentKept
<1>8. \A c \in Conn : Live(c) => c \in mistaken'
  BY <1>2 DEF IInv, OwnerInv, Live
<1>9. OwnerInv'
  <2>1. \A v \in Thread : pc'[v].at = "accepted" => pc[v].at = "accepted"
    BY <1>3 DEF Now
  <2>2. ASSUME NEW v \in Thread, pc'[v].at = "accepted"
        PROVE  conns # 0 /\ uuid[conns] = 0 /\ conns \in mistaken'
    <3>1. conns # 0 /\ uuid[conns] = 0 /\ (sock = conns \/ conns \in mistaken)
      BY <2>1, <2>2 DEF IInv, OwnerInv
    <3>2. conns \in Conn
      BY <1>4, <3>1 DEF Conn
    <3>3. QED
      BY <1>2, <3>1, <3>2
  <2>3. QED
    BY <1>1, <1>7, <1>8, <2>1, <2>2 DEF IInv, OwnerInv
<1>10. QueueInv'
  BY <1>1, <1>3, QueueKept
<1>11. CloseInv'
  <2>1. \A c \in Conn : Kept(c) => (Kept(c))'
    BY <1>1, <1>3, <1>7 DEF Kept, Closing, Now
  <2>2. QED
    BY <1>1, <1>4, <1>7, <2>1 DEF IInv, CloseInv, AllSentBeforeClose
<1>12. FlushOnItsWay'
  <2>1. fd.packet # <<>> => Head(fd.packet)[1] \in mistaken'
    BY <1>8, HeadOfLive DEF IInv
  <2>2. QED
    BY <1>1, <2>1 DEF FlushOnItsWay
<1>13. QED
  BY <1>5, <1>6, <1>7, <1>9, <1>10, <1>11, <1>12 DEF IInv

LEMMA RegisterStep ==
  ASSUME Sane, IInv, NEW t \in Thread, Register(t)
  PROVE  IInv'
<1>1. /\ pc[t].at = "accepted" /\ sock_lock = None /\ sock_lock' = None
      /\ fd' = Fresh(fd.counter + 1, TRUE) /\ uuid' = [uuid EXCEPT ![conns] = fd.counter + 1]
      /\ sock' = sock /\ gone' = gone /\ conns' = conns
      /\ ready' = ready /\ armed' = armed /\ written' = written /\ delivered' = delivered
      /\ promised' = promised /\ mistaken' = mistaken
  BY DEF Register, Data
<1>2. Now(t, "idle", 0, 0)
  BY DoneNow DEF IInv, Register
<1>3. PICK n \in Conn : n = conns
  BY <1>1 DEF Sane, IInv, Types, OwnerInv, Conn
<1>4. /\ uuid[n] = 0 /\ (sock = n \/ n \in mistaken)
      /\ \A v \in Thread : pc[v].at = "accepted" => v = t
  BY <1>1, <1>3 DEF IInv, OwnerInv
<1>5. /\ fd.counter \in Nat /\ fd'.counter = fd.counter + 1 /\ fd'.open = TRUE
      /\ fd'.close = FALSE /\ fd'.packet = <<>>
      /\ fd' \in [counter : Nat, open : BOOLEAN, close : BOOLEAN, packet : Seq(Packets)]
  BY <1>1 DEF IInv, Types, Fresh
<1>6. uuid' \in [Conn -> Nat] /\ uuid'[n] = fd.counter + 1 /\ \A c \in Conn \ {n} : uuid'[c] = uuid[c]
  BY <1>1, <1>3, <1>5 DEF IInv, Types
<1>7. Types'
  BY <1>1, <1>2, <1>5, <1>6 DEF IInv, Types, Now
<1>8. \A c \in Conn : uuid[c] \in Nat /\ uuid[c] <= fd.counter
  BY DEF IInv, Types, HandleInv
<1>9. \A c \in Conn : (Live(c))' <=> c = n
  BY <1>5, <1>6, <1>8 DEF Live
<1>10. \A v \in Thread : pc'[v].u \in Nat /\ pc'[v].u <= fd.counter
  <2>1. pc'[t].u = 0 /\ \A v \in Thread \ {t} : pc'[v] = pc[v]
    BY <1>2 DEF Now
  <2>2. \A v \in Thread : pc[v].u \in Nat /\ pc[v].u <= fd.counter
    BY DEF IInv, Types, Calls, HandleInv
  <2>3. QED
    BY <1>5, <2>1, <2>2
<1>11. HandleInv'
  <2>1. Handles \subseteq Handles'
    BY <1>4, <1>6 DEF Handles
  <2>2. \A v \in Thread : pc'[v].at = "write" => pc'[v].u \in Handles'
    BY <1>2, <2>1 DEF IInv, HandleInv, Now
  <2>3. \A v \in Thread : sock_lock' = v <=> pc'[v].at = "send"
    BY <1>1, <1>2, LockSame
  <2>4. ASSUME NEW c \in Conn
        PROVE  /\ uuid'[c] <= fd'.counter
               /\ c > conns' => uuid'[c] = 0
               /\ uuid'[c] = 0 => uuid[c] = 0
    <3>1. conns' = n /\ n \in Nat /\ fd.counter + 1 <= fd.counter + 1
      BY <1>1, <1>3, <1>5 DEF IInv, Types
    <3>2. CASE c = n
      BY <1>5, <1>6, <3>1, <3>2
    <3>3. CASE c # n
      <4>1. uuid'[c] = uuid[c] /\ (c > conns => uuid[c] = 0)
        BY <1>6, <3>3 DEF IInv, HandleInv
      <4>2. uuid[c] <= fd.counter + 1
        BY <1>5, <1>8
      <4>3. QED
        BY <1>3, <1>5, <3>1, <4>1, <4>2
    <3>4. QED
      BY <3>2, <3>3
  <2>5. \A c, d \in Conn : uuid'[c] # 0 /\ uuid'[c] = uuid'[d] => c = d
    BY <1>5, <1>6, <1>8 DEF IInv, HandleInv
  <2>6. \A v \in ready' : v <= fd'.counter
    <3>1. ASSUME NEW v \in ready PROVE v <= fd.counter + 1
      <4>1. v \in Nat /\ v <= fd.counter
        BY DEF IInv, Types, HandleInv
      <4>2. QED
        BY <1>5, <4>1
    <3>2. QED
      BY <1>1, <1>5, <3>1
  <2>7. \A v \in Thread : pc'[v].u <= fd'.counter
    BY <1>5, <1>10
  <2>8. QED
    BY <1>1, <2>2, <2>3, <2>4, <2>5, <2>6, <2>7 DEF IInv, HandleInv
<1>12. OwnerInv'
  <2>1. \A v \in Thread : pc'[v].at # "accepted"
    BY <1>2, <1>4 DEF Now
  <2>2. QED
    BY <1>1, <1>4, <1>5, <1>9, <2>1 DEF IInv, OwnerInv
<1>13. written[n] = <<>> /\ promised[n] = None
  BY <1>4 DEF IInv, HandleInv
<1>14. (Out(n))' = 0
  <2>1. Len(fd'.packet) = 0 /\ Len(written'[n]) = 0
    BY <1>1, <1>5, <1>13
  <2>2. QED
    BY <2>1 DEF Out
<1>15. QueueInv'
  <2>1. \A v \in Thread : pc'[v].at # "send"
    <3>1. \A v \in Thread : sock_lock' = v <=> pc'[v].at = "send"
      BY <1>1, <1>2, LockSame
    <3>2. QED
      BY <1>1, <3>1 DEF Sane
  <2>2. DOMAIN fd'.packet = {} /\ 0 >= 0
    BY <1>5
  <2>3. \A c \in Conn : \A k \in DOMAIN written'[c] : written'[c][k] = <<c, k>>
    BY <1>1 DEF IInv, QueueInv
  <2>4. QED
    BY <1>5, <1>9, <1>14, <2>1, <2>2, <2>3 DEF QueueInv
<1>16. SentInv'
  <2>1. OwnInOrder'
    BY <1>1 DEF IInv, SentInv, OwnInOrder
  <2>2. \A k : k \notin Sent(n)
    <3>1. \A d \in Conn : \A i \in DOMAIN delivered[d] : delivered[d][i][1] # n
      BY <1>13 DEF IInv, SentInv, OwnInOrder, ToSet
    <3>2. QED
      BY <3>1 DEF Sent, ToSet
  <2>3. (Sent(n))' = Sent(n)
    BY <1>1 DEF Sent
  <2>4. 1..0 = {}
    OBVIOUS
  <2>5. QED
    BY <1>1, <1>9, <1>14, <2>1, <2>2, <2>3, <2>4 DEF SentInv
<1>17. CloseInv'
  <2>1. (Kept(n))'
    <3>1. \A v \in Thread : pc'[v].u # uuid'[n]
      BY <1>5, <1>6, <1>10
    <3>2. QED
      BY <1>1, <1>5, <1>13, <3>1 DEF Kept
  <2>2. \A c \in Conn : (Sent(c))' = Sent(c)
    BY <1>1 DEF Sent
  <2>3. ASSUME NEW c \in Conn \ (gone \union mistaken), uuid'[c] # 0, fd'.counter > uuid'[c]
        PROVE  uuid[c] = uuid'[c] /\ fd.counter > uuid[c]
    <3>1. c # n /\ uuid[c] = uuid'[c]
      BY <1>5, <1>6, <2>3
    <3>2. ~Live(c)
      BY <1>3, <3>1 DEF IInv, OwnerInv, Conn
    <3>3. QED
      BY <1>5, <1>8, <2>3, <3>1, <3>2 DEF Live
  <2>4. AllSentBeforeClose'
    <3>1. AllSentBeforeClose /\ gone' = gone /\ mistaken' = mistaken /\ promised' = promised
      BY <1>1 DEF IInv, CloseInv
    <3>2. QED
      BY <2>2, <2>3, <3>1 DEF AllSentBeforeClose
  <2>5. QED
    BY <1>9, <2>1, <2>4 DEF CloseInv
<1>18. FlushOnItsWay'
  BY <1>5 DEF FlushOnItsWay
<1>19. QED
  BY <1>7, <1>11, <1>12, <1>15, <1>16, <1>17, <1>18 DEF IInv

\* A call that finds its handle spent.
LEMMA GivesUpStep ==
  ASSUME Sane, IInv, Quiet, NEW t \in Thread, Done(t), sock_lock' = sock_lock, ready' = ready,
         armed' = armed, pc[t].at \notin {"send", "clear"}, pc[t].at \in FlushPlaces => ~Valid(pc[t].u)
  PROVE  IInv'
<1>1. Now(t, "idle", 0, 0) /\ "idle" \in Places /\ 0 <= fd.counter
  BY DoneNow DEF IInv, Places, Types
<1>2. ready' \subseteq 0..fd.counter /\ armed' \in BOOLEAN
  BY DEF IInv, Types, HandleInv
<1>3. FlushOnItsWay'
  BY <1>1, QuietSame, QuietFlush DEF Valid
<1>4. QED
  BY <1>1, <1>2, <1>3, LockSame, QuietStep DEF IInv

LEMMA OneMore ==
  ASSUME NEW n \in Nat, NEW l \in Nat, NEW o, o = n - l
  PROVE  o + (l + 1) = n + 1
OBVIOUS

\* A packet for the live connection c.
LEMMA EnqueueLive ==
  ASSUME Sane, IInv, NEW t \in Thread, Enqueue(t), NEW c \in Conn, c = Of(pc[t].u),
         Queued(pc[t].u), Len(written[c]) < MaxWrites, NEW n \in Nat, n = Len(written[c]),
         NEW p, p = <<c, n + 1>>
  PROVE  IInv'
<1>1. /\ pc[t].at = "write" /\ sock_lock = None /\ sock_lock' = None
      /\ sock' = sock /\ gone' = gone /\ conns' = conns /\ uuid' = uuid
      /\ ready' = ready /\ armed' = armed /\ delivered' = delivered
      /\ promised' = promised /\ mistaken' = mistaken
      /\ fd' = [fd EXCEPT !.packet = Append(@, p)]
      /\ written' = [written EXCEPT ![c] = Append(@, p)]
      /\ IF fd.packet = <<>> THEN Goto(t, "flush") ELSE Done(t)
  BY DEF Enqueue, Kernel
<1>2. pc[t].u \in Handles /\ uuid[c] = pc[t].u /\ pc[t].u # 0 /\ pc[t].u = fd.counter /\ Live(c)
  BY <1>1, OfHandle DEF IInv, HandleInv, Queued, Valid, Live
<1>3. /\ written[c] \in Seq(Packets) /\ fd.packet \in Seq(Packets) /\ Len(fd.packet) \in Nat
      /\ p \in Packets
  <2>1. n + 1 \in 1..MaxWrites
    BY DEF Sane
  <2>2. p \in Packets
    BY <2>1 DEF Packets
  <2>3. QED
    BY <2>2, Lengths DEF IInv, Types
<1>4. /\ Append(fd.packet, p) \in Seq(Packets) /\ Append(fd.packet, p) # <<>>
      /\ Len(Append(fd.packet, p)) = Len(fd.packet) + 1
      /\ DOMAIN fd.packet = 1..Len(fd.packet)
      /\ DOMAIN Append(fd.packet, p) = 1..Len(fd.packet) + 1
      /\ Append(fd.packet, p)[Len(fd.packet) + 1] = p
      /\ \A i \in 1..Len(fd.packet) : Append(fd.packet, p)[i] = fd.packet[i]
  <2>1. ASSUME NEW q \in Seq(Packets)
        PROVE  /\ Append(q, p) \in Seq(Packets) /\ Append(q, p) # <<>>
               /\ Len(Append(q, p)) = Len(q) + 1
               /\ DOMAIN q = 1..Len(q) /\ DOMAIN Append(q, p) = 1..Len(q) + 1
               /\ Append(q, p)[Len(q) + 1] = p
               /\ \A i \in 1..Len(q) : Append(q, p)[i] = q[i]
    <3>1. p \in Packets
      BY <1>3
    <3>2. QED
      BY <3>1
  <2>2. QED
    BY <1>3, <2>1, Zenon
<1>5. /\ Append(written[c], p) \in Seq(Packets)
      /\ Len(Append(written[c], p)) = n + 1
      /\ DOMAIN written[c] = 1..n
      /\ DOMAIN Append(written[c], p) = 1..n + 1
      /\ Append(written[c], p)[n + 1] = p
      /\ \A i \in 1..n : Append(written[c], p)[i] = written[c][i]
  BY <1>3, Appended
<1>6. /\ fd'.counter = fd.counter /\ fd'.open = fd.open /\ fd'.close = fd.close
      /\ fd'.packet = Append(fd.packet, p)
      /\ fd' \in [counter : Nat, open : BOOLEAN, close : BOOLEAN, packet : Seq(Packets)]
  BY <1>1, <1>4 DEF IInv, Types
<1>7. /\ written' \in [Conn -> Seq(Packets)] /\ written'[c] = Append(written[c], p)
      /\ \A d \in Conn \ {c} : written'[d] = written[d]
  BY <1>1, <1>5 DEF IInv, Types
<1>8. PICK at \in {"flush", "idle"}, v \in {fd.counter, 0}, arg \in {pc[t].arg, 0} :
        /\ Now(t, at, v, arg)
        /\ fd.packet = <<>> => at = "flush" /\ v = fd.counter
  <2>1. CASE fd.packet = <<>>
    BY <1>1, <1>2, <2>1, GotoNow DEF IInv, Places
  <2>2. CASE fd.packet # <<>>
    BY <1>1, <2>2, DoneNow DEF IInv
  <2>3. QED
    BY <2>1, <2>2
<1>9. fd.counter \in Nat /\ v <= fd.counter
  BY <1>8 DEF IInv, Types
<1>10. Types'
  BY <1>1, <1>6, <1>7, <1>8 DEF IInv, Types, Now
<1>11. \A w \in Thread : sock_lock' = w <=> pc'[w].at = "send"
  BY <1>1, <1>8, LockSame
<1>12. HandleInv'
  <2>1. Handles' = Handles /\ \A d \in Conn : uuid[d] = 0 => written'[d] = written[d]
    BY <1>1, <1>2, <1>7 DEF Handles
  <2>2. \A w \in Thread : pc'[w].u <= fd'.counter /\ (pc'[w].at = "write" => pc'[w].u \in Handles')
    BY <1>6, <1>8, <1>9, <2>1 DEF IInv, HandleInv, Now
  <2>3. \A d \in Conn :
          /\ uuid'[d] <= fd'.counter
          /\ d > conns' => uuid'[d] = 0
          /\ uuid'[d] = 0 => written'[d] = <<>> /\ promised'[d] = None
    BY <1>1, <1>6, <2>1 DEF IInv, HandleInv
  <2>4. \A d, e \in Conn : uuid'[d] # 0 /\ uuid'[d] = uuid'[e] => d = e
    BY <1>1 DEF IInv, HandleInv
  <2>5. \A w \in ready' : w <= fd'.counter
    BY <1>1, <1>6 DEF IInv, HandleInv
  <2>6. QED
    BY <1>11, <2>2, <2>3, <2>4, <2>5 DEF HandleInv
<1>13. \A d \in Conn : (Live(d))' = Live(d) /\ (Sent(d))' = Sent(d)
  <2>1. uuid' = uuid /\ fd'.counter = fd.counter /\ delivered' = delivered
    BY <1>1, <1>6
  <2>2. QED
    BY <2>1 DEF Live, Sent
<1>14. OwnerInv'
  <2>1. \A w \in Thread : pc'[w].at = "accepted" <=> pc[w].at = "accepted"
    BY <1>1, <1>8 DEF Now
  <2>2. fd'.open = fd.open /\ sock' = sock /\ conns' = conns /\ uuid' = uuid /\ mistaken' = mistaken
    BY <1>1, <1>6
  <2>3. QED
    BY <1>13, <2>1, <2>2 DEF IInv, OwnerInv
<1>15. Out(c) = n - Len(fd.packet) /\ Out(c) >= 0 /\ (Out(c))' = Out(c)
  <2>1. Out(c) = n - Len(fd.packet) /\ Out(c) >= 0
    BY <1>2 DEF IInv, QueueInv, Out
  <2>2. Len(written'[c]) = n + 1 /\ Len(fd'.packet) = Len(fd.packet) + 1
    BY <1>4, <1>5, <1>6, <1>7
  <2>3. (Out(c))' = (n + 1) - (Len(fd.packet) + 1)
    BY <2>2 DEF Out
  <2>4. QED
    BY <1>3, <2>1, <2>3
<1>16. \A d \in Conn : Live(d) => d = c
  BY <1>2, OneLive DEF IInv
<1>17. QueueInv'
  <2>1. \A k \in DOMAIN written'[c] : written'[c][k] = <<c, k>>
    <3>1. \A k \in 1..n : written[c][k] = <<c, k>>
      BY <1>5 DEF IInv, QueueInv
    <3>2. ASSUME NEW k \in 1..n + 1 PROVE written'[c][k] = <<c, k>>
      <4>1. k \in 1..n \/ k = n + 1
        OBVIOUS
      <4>2. QED
        BY <1>5, <1>7, <3>1, <4>1
    <3>3. QED
      BY <1>5, <1>7, <3>2
  <2>2. \A d \in Conn : \A k \in DOMAIN written'[d] : written'[d][k] = <<d, k>>
    <3>1. ASSUME NEW d \in Conn, d # c, NEW k \in DOMAIN written'[d] PROVE written'[d][k] = <<d, k>>
      <4>1. written'[d] = written[d]
        BY <1>7, <3>1
      <4>2. QED
        BY <3>1, <4>1 DEF IInv, QueueInv
    <3>2. QED
      BY <2>1, <3>1
  <2>3. \A i \in DOMAIN fd'.packet : fd'.packet[i] = <<c, Out(c) + i>>
    <3>1. \A i \in 1..Len(fd.packet) : fd.packet[i] = <<c, Out(c) + i>>
      BY <1>2, <1>4 DEF IInv, QueueInv
    <3>2. Out(c) + (Len(fd.packet) + 1) = n + 1
      <4>1. Len(fd.packet) \in Nat /\ Out(c) = n - Len(fd.packet)
        BY <1>3, <1>15
      <4>2. QED
        BY <4>1, OneMore, Zenon
    <3>3. ASSUME NEW i \in 1..Len(fd.packet) + 1
          PROVE  Append(fd.packet, p)[i] = <<c, Out(c) + i>>
      <4>1. i \in 1..Len(fd.packet) \/ i = Len(fd.packet) + 1
        BY <1>3
      <4>2. QED
        BY <1>4, <3>1, <3>2, <4>1
    <3>4. QED
      BY <1>4, <1>6, <3>3
  <2>4. fd'.open
    BY <1>2, <1>6 DEF IInv, OwnerInv
  <2>5. \A w \in Thread : pc'[w].at # "send"
    BY <1>1, <1>11 DEF Sane
  <2>6. QED
    BY <1>13, <1>15, <1>16, <2>2, <2>3, <2>4, <2>5 DEF QueueInv
<1>18. SentInv'
  <2>1. \A d \in Conn : ToSet(written[d]) \subseteq ToSet(written'[d])
    <3>1. \A i \in DOMAIN written[c] : i \in DOMAIN written'[c] /\ written'[c][i] = written[c][i]
      <4>1. /\ DOMAIN written'[c] = 1..n + 1 /\ DOMAIN written[c] = 1..n
            /\ \A i \in 1..n : written'[c][i] = written[c][i]
        BY <1>5, <1>7, Zenon
      <4>2. QED
        BY <4>1
    <3>2. ToSet(written[c]) \subseteq ToSet(written'[c])
      BY <3>1 DEF ToSet
    <3>3. QED
      BY <1>7, <3>2
  <2>2. \A d \in Conn : \A i \in DOMAIN delivered[d] : delivered[d][i][1] \in Conn
    BY Lengths DEF IInv, Packets
  <2>3. OwnInOrder'
    BY <1>1, <2>1, <2>2 DEF IInv, SentInv, OwnInOrder
  <2>4. \A d \in Conn : Dropped(d) => (Dropped(d))'
    BY <1>1, <1>6, <1>8 DEF Dropped, Now
  <2>5. QED
    BY <1>1, <1>13, <1>15, <1>16, <2>3, <2>4 DEF IInv, SentInv
<1>19. CloseInv'
  <2>1. ASSUME Kept(c) PROVE (Kept(c))'
    <3>1. \A w \in Thread : (Closing(w, c))' => Closing(w, c)
      BY <1>1, <1>8 DEF Closing, Now
    <3>2. CASE promised[c] = None
      BY <1>1, <1>6, <1>8, <2>1, <3>2 DEF Kept, Now
    <3>3. CASE promised[c] # None
      <4>1. promised[c] \in Nat /\ promised[c] <= n
        BY <2>1, <3>3 DEF Kept, IInv, Types
      <4>2. Len(written'[c]) = n + 1
        BY <1>5, <1>7, Zenon
      <4>3. promised[c] <= Len(written'[c])
        BY <4>1, <4>2
      <4>4. QED
        BY <1>1, <1>13, <2>1, <3>1, <3>3, <4>3 DEF Kept
    <3>4. QED
      BY <3>2, <3>3
  <2>2. AllSentBeforeClose'
    BY <1>1, <1>6, <1>13 DEF IInv, CloseInv, AllSentBeforeClose
  <2>3. QED
    BY <1>1, <1>13, <1>16, <2>1, <2>2 DEF IInv, CloseInv
<1>20. FlushOnItsWay'
  <2>1. CASE fd.packet = <<>>
    BY <1>6, <1>8, <2>1 DEF FlushOnItsWay, Now
  <2>2. CASE fd.packet # <<>>
    <3>1. Head(fd'.packet) = Head(fd.packet)
      BY <1>3, <1>6, <2>2
    <3>2. \A w \in Thread : pc[w].at \in FlushPlaces => pc'[w] = pc[w]
      BY <1>1, <1>8 DEF FlushPlaces, Now
    <3>3. QED
      BY <1>1, <1>6, <2>2, <3>1, <3>2 DEF IInv, FlushOnItsWay, FlushPlaces
  <2>3. QED
    BY <2>1, <2>2
<1>21. QED
  BY <1>10, <1>12, <1>14, <1>17, <1>18, <1>19, <1>20 DEF IInv

LEMMA EnqueueStep ==
  ASSUME Sane, IInv, NEW t \in Thread, Enqueue(t)
  PROVE  IInv'
<1>1. CASE Queued(pc[t].u) /\ Len(written[Of(pc[t].u)]) < MaxWrites
  <2>1. Of(pc[t].u) \in Conn
    BY OfHandle DEF IInv, HandleInv, Enqueue
  <2>2. Len(written[Of(pc[t].u)]) \in Nat
    BY <2>1, Lengths DEF IInv
  <2>3. QED
    BY <1>1, <2>1, <2>2, EnqueueLive, Zenon
<1>2. CASE ~(Queued(pc[t].u) /\ Len(written[Of(pc[t].u)]) < MaxWrites)
  <2>1. Done(t) /\ Quiet /\ sock_lock' = sock_lock /\ ready' = ready /\ armed' = armed
    BY <1>2 DEF Enqueue, Quiet, Data
  <2>2. pc[t].at = "write"
    BY DEF Enqueue
  <2>3. QED
    BY <2>1, <2>2, GivesUpStep DEF FlushPlaces
<1>3. QED
  BY <1>1, <1>2

----------------------------------------------------------------------------
\* The head of the queue goes out, to the connection d that the kernel has.
LEMMA SendStep ==
  ASSUME Sane, IInv, NEW t \in Thread, Send(t)
  PROVE  IInv'
<1>1. /\ pc[t].at = "send" /\ sock # 0 /\ sock \notin gone /\ sock_lock' = None
      /\ delivered' = [delivered EXCEPT ![sock] = Append(@, Head(fd.packet))]
      /\ fd' = [fd EXCEPT !.packet = Tail(@)]
      /\ sock' = sock /\ gone' = gone /\ conns' = conns /\ uuid' = uuid
      /\ ready' = ready /\ armed' = armed /\ written' = written
      /\ promised' = promised /\ mistaken' = mistaken
  BY DEF Send, Rotated, Kernel
<1>2. Now(t, "test", pc[t].u, pc[t].arg)
  BY GotoNow DEF IInv, Send, Places
<1>3. PICK d \in Conn : d = sock
  BY <1>1 DEF Sane, IInv, Types, Conn
<1>4. fd.packet # <<>> /\ fd.packet \in Seq(Packets)
  BY <1>1 DEF IInv, QueueInv, Types
<1>5. PICK c \in Conn : /\ Live(c) /\ (sock = c \/ c \in mistaken)
                        /\ Head(fd.packet) = <<c, Out(c) + 1>>
                        /\ Out(c) + 1 \in DOMAIN written[c]
  BY <1>4, HeadOfLive DEF IInv
<1>6. PICK n \in Nat : n = Out(c) /\ n + 1 \in DOMAIN written[c] /\ Head(fd.packet) = <<c, n + 1>>
  <2>1. Out(c) >= 0
    BY <1>5 DEF IInv, QueueInv
  <2>2. Len(written[c]) \in Nat /\ Len(fd.packet) \in Nat
    BY Lengths DEF IInv
  <2>3. Out(c) \in Nat
    BY <2>1, <2>2 DEF Out
  <2>4. QED
    BY <1>5, <2>3, Zenon
<1>7. PICK p \in Packets : p = Head(fd.packet) /\ p = <<c, n + 1>> /\ p[1] = c /\ p[2] = n + 1
  <2>1. Head(fd.packet) \in Packets
    BY <1>4, Beheaded, Zenon
  <2>2. Head(fd.packet)[1] = c /\ Head(fd.packet)[2] = n + 1
    BY <1>6
  <2>3. QED
    BY <1>6, <2>1, <2>2, Zenon
<1>8. PICK l \in Nat : /\ Len(fd.packet) = l + 1 /\ Len(Tail(fd.packet)) = l
                       /\ DOMAIN fd.packet = 1..l + 1 /\ DOMAIN Tail(fd.packet) = 1..l
                       /\ Tail(fd.packet) \in Seq(Packets)
                       /\ \A i \in 1..l : Tail(fd.packet)[i] = fd.packet[i + 1]
  <2>1. /\ Tail(fd.packet) \in Seq(Packets) /\ Len(fd.packet) \in Nat /\ Len(fd.packet) >= 1
        /\ DOMAIN fd.packet = 1..Len(fd.packet)
        /\ Len(Tail(fd.packet)) = Len(fd.packet) - 1
        /\ DOMAIN Tail(fd.packet) = 1..Len(fd.packet) - 1
        /\ \A i \in 1..Len(fd.packet) - 1 : Tail(fd.packet)[i] = fd.packet[i + 1]
    BY <1>4, Beheaded
  <2>2. Len(fd.packet) - 1 \in Nat /\ Len(fd.packet) = (Len(fd.packet) - 1) + 1
    BY <2>1
  <2>3. QED
    BY <2>1, <2>2
<1>9. /\ fd'.counter = fd.counter /\ fd'.open = fd.open /\ fd'.close = fd.close
      /\ fd'.packet = Tail(fd.packet)
      /\ fd' \in [counter : Nat, open : BOOLEAN, close : BOOLEAN, packet : Seq(Packets)]
  BY <1>1, <1>8 DEF IInv, Types
<1>10. PICK m \in Nat : m = Len(delivered[d]) /\ DOMAIN delivered[d] = 1..m
  BY <1>3 DEF IInv, Types
<1>11. /\ delivered' \in [Conn -> Seq(Packets)]
       /\ \A e \in Conn \ {d} : delivered'[e] = delivered[e]
       /\ DOMAIN delivered'[d] = 1..m + 1 /\ delivered'[d][m + 1] = p
       /\ \A i \in 1..m : delivered'[d][i] = delivered[d][i]
  <2>1. delivered[d] \in Seq(Packets) /\ delivered'[d] = Append(delivered[d], p)
    BY <1>1, <1>3, <1>7 DEF IInv, Types
  <2>2. /\ Append(delivered[d], p) \in Seq(Packets)
        /\ DOMAIN Append(delivered[d], p) = 1..m + 1
        /\ Append(delivered[d], p)[m + 1] = p
        /\ \A i \in 1..m : Append(delivered[d], p)[i] = delivered[d][i]
    BY <1>7, <1>10, <2>1, Appended
  <2>3. QED
    BY <1>1, <1>3, <1>7, <2>1, <2>2 DEF IInv, Types
<1>12. Types'
  BY <1>1, <1>2, <1>9, <1>11 DEF IInv, Types, Now
<1>13. HandleInv'
  <2>1. \A v \in Thread : sock_lock' = v <=> pc'[v].at = "send"
    BY <1>1, <1>2, LockFreed
  <2>2. ready' \subseteq 0..fd.counter /\ conns' \in Nat /\ conns <= conns'
    BY <1>1 DEF IInv, Types, HandleInv
  <2>3. pc[t].u <= fd.counter
    BY DEF IInv, HandleInv
  <2>4. QED
    BY <1>1, <1>2, <1>9, <2>1, <2>2, <2>3, HandleKept
<1>14. \A e \in Conn : (Live(e))' = Live(e)
  BY <1>1, <1>9 DEF Live
<1>15. OwnerInv'
  BY <1>1, <1>2, <1>9, <1>14 DEF IInv, OwnerInv, Now
<1>16. \A e \in Conn : Live(e) => e = c
  BY <1>5, OneLive DEF IInv
<1>17. (Out(c))' = n + 1
  <2>1. Len(written[c]) - (l + 1) = n /\ Len(written[c]) \in Nat
    BY <1>6, <1>8, Lengths DEF Out, IInv
  <2>2. Len(written[c]) - l = n + 1
    BY <2>1
  <2>3. QED
    BY <1>1, <1>8, <1>9, <2>2 DEF Out
<1>18. \A e \in Conn : \A k : k \in (Sent(e))' <=> k \in Sent(e) \/ (e = c /\ k = n + 1)
  <2>1. ASSUME NEW e \in Conn, NEW k
        PROVE  (\E f \in Conn : \E i \in DOMAIN delivered'[f] : delivered'[f][i] = <<e, k>>)
               <=> \/ \E f \in Conn : \E i \in DOMAIN delivered[f] : delivered[f][i] = <<e, k>>
                   \/ e = c /\ k = n + 1
    <3>1. ASSUME NEW f \in Conn, NEW i \in DOMAIN delivered[f]
          PROVE  i \in DOMAIN delivered'[f] /\ delivered'[f][i] = delivered[f][i]
      <4>1. CASE f = d
        <5>1. i \in 1..m /\ i \in 1..m + 1
          BY <1>10, <4>1
        <5>2. QED
          BY <1>11, <4>1, <5>1
      <4>2. CASE f # d
        BY <1>11, <4>2
      <4>3. QED
        BY <4>1, <4>2
    <3>2. ASSUME NEW f \in Conn, NEW i \in DOMAIN delivered'[f]
          PROVE  \/ i \in DOMAIN delivered[f] /\ delivered'[f][i] = delivered[f][i]
                 \/ f = d /\ i = m + 1 /\ delivered'[f][i] = p
      BY <1>10, <1>11
    <3>3. p = <<e, k>> <=> e = c /\ k = n + 1
      BY <1>7
    <3>4. m + 1 \in DOMAIN delivered'[d] /\ delivered'[d][m + 1] = p
      BY <1>11
    <3>5. ASSUME NEW f \in Conn, NEW i \in DOMAIN delivered'[f], delivered'[f][i] = <<e, k>>
          PROVE  \/ \E g \in Conn : \E j \in DOMAIN delivered[g] : delivered[g][j] = <<e, k>>
                 \/ e = c /\ k = n + 1
      BY <3>2, <3>3, <3>5
    <3>6. ASSUME NEW f \in Conn, NEW i \in DOMAIN delivered[f], delivered[f][i] = <<e, k>>
          PROVE  \E g \in Conn : \E j \in DOMAIN delivered'[g] : delivered'[g][j] = <<e, k>>
      BY <3>1, <3>6
    <3>7. ASSUME e = c, k = n + 1
          PROVE  \E g \in Conn : \E j \in DOMAIN delivered'[g] : delivered'[g][j] = <<e, k>>
      BY <3>3, <3>4, <3>7
    <3>8. QED
      BY <3>5, <3>6, <3>7
  <2>2. ASSUME NEW e \in Conn, NEW k
        PROVE  k \in Sent(e) <=> \E f \in Conn : \E i \in DOMAIN delivered[f] : delivered[f][i] = <<e, k>>
    BY SentIs DEF IInv
  <2>3. ASSUME NEW e \in Conn, NEW k
        PROVE  k \in (Sent(e))' <=> \E f \in Conn : \E i \in DOMAIN delivered'[f] : delivered'[f][i] = <<e, k>>
    <3>1. \A f \in Conn : \A i \in DOMAIN delivered'[f] :
            delivered'[f][i] = <<delivered'[f][i][1], delivered'[f][i][2]>>
      <4>1. ASSUME NEW f \in Conn, NEW i \in DOMAIN delivered'[f] PROVE delivered'[f][i] \in Packets
        <5>1. delivered'[f] \in Seq(Packets)
          BY <1>11
        <5>2. QED
          BY <5>1
      <4>2. QED
        BY <4>1 DEF Packets
    <3>2. QED
      BY <3>1 DEF Sent, ToSet
  <2>4. QED
    BY <2>1, <2>2, <2>3
<1>19. \A k \in Sent(c) : k \in Nat /\ k <= n
  BY <1>5, <1>6, SentNumbers DEF IInv, SentInv
<1>20. \A i \in DOMAIN fd'.packet : fd'.packet[i] = <<c, n + 1 + i>>
  <2>2. ASSUME NEW i \in 1..l PROVE fd'.packet[i] = <<c, n + 1 + i>>
    <3>1. i + 1 \in 1..l + 1 /\ i \in Nat
      OBVIOUS
    <3>2. fd.packet[i + 1] = <<c, n + (i + 1)>>
      BY <1>5, <1>6, <1>8, <3>1 DEF IInv, QueueInv
    <3>3. n + (i + 1) = n + 1 + i
      BY <3>1
    <3>4. QED
      BY <1>8, <1>9, <3>2, <3>3
  <2>3. QED
    BY <1>8, <1>9, <2>2
<1>21. QueueInv'
  <2>1. \A v \in Thread : pc'[v].at # "send"
    BY <1>1, <1>2, LockFreed DEF Sane
  <2>4. fd'.open /\ n + 1 >= 0
    BY <1>4, <1>9 DEF IInv, QueueInv
  <2>5. QED
    BY <1>1, <1>14, <1>16, <1>17, <1>20, <2>1, <2>4 DEF IInv, QueueInv
<1>22. SentInv'
  <2>1. OwnInOrder'
    <3>1. ASSUME NEW e \in Conn, NEW i \in DOMAIN delivered'[e]
          PROVE  /\ delivered'[e][i] \in ToSet(written[delivered'[e][i][1]])
                 /\ delivered'[e][i][1] = e \/ delivered'[e][i][1] \in mistaken
      <4>1. CASE i \in DOMAIN delivered[e] /\ delivered'[e][i] = delivered[e][i]
        BY <4>1 DEF IInv, SentInv, OwnInOrder
      <4>2. CASE e = d /\ delivered'[e][i] = p
        <5>1. p \in ToSet(written[c])
          BY <1>6, <1>7 DEF IInv, QueueInv, ToSet
        <5>2. QED
          BY <1>3, <1>5, <1>7, <4>2, <5>1
      <4>3. QED
        BY <1>10, <1>11, <4>1, <4>2
    <3>2. ASSUME NEW e \in Conn, NEW i \in DOMAIN delivered'[e], NEW j \in DOMAIN delivered'[e],
                 i < j, delivered'[e][i][1] = delivered'[e][j][1]
          PROVE  delivered'[e][i][2] < delivered'[e][j][2]
      <4>1. CASE e # d
        BY <1>11, <3>2, <4>1 DEF IInv, SentInv, OwnInOrder
      <4>2. CASE e = d /\ j \in 1..m
        <5>1. i \in 1..m
          BY <1>11, <3>2, <4>2
        <5>2. QED
          BY <1>10, <1>11, <3>2, <4>2, <5>1 DEF IInv, SentInv, OwnInOrder
      <4>3. CASE e = d /\ j = m + 1
        <5>1. i \in 1..m
          BY <1>11, <3>2, <4>3
        <5>2. delivered[d][i] = <<c, delivered[d][i][2]>> /\ i \in DOMAIN delivered[d]
          <6>1. i \in DOMAIN delivered[d] /\ delivered'[d][i] = delivered[d][i]
            BY <1>10, <1>11, <5>1
          <6>2. delivered'[d][j] = p
            BY <1>11, <4>3
          <6>3. delivered[d][i][1] = c
            BY <1>7, <3>2, <4>3, <6>1, <6>2
          <6>4. delivered[d][i] = <<delivered[d][i][1], delivered[d][i][2]>>
            BY <6>1, Lengths DEF IInv
          <6>5. QED
            BY <6>1, <6>3, <6>4, Zenon
        <5>3. delivered[d][i][2] \in Sent(c)
          BY <5>2, SentIs DEF IInv
        <5>4. QED
          BY <1>7, <1>11, <1>19, <4>3, <5>1, <5>3
      <4>4. QED
        BY <1>11, <4>1, <4>2, <4>3
    <3>3. QED
      BY <1>1, <3>1, <3>2 DEF OwnInOrder
  <2>2. \A k \in (Sent(c))' : k <= n + 1
    BY <1>18, <1>19
  <2>3. \A e \in Conn : (Dropped(e))' <=> Dropped(e)
    BY <1>1, <1>2, <1>9 DEF Dropped, Now
  <2>4. ASSUME c \notin mistaken, ~Dropped(c) PROVE 1..n + 1 \subseteq (Sent(c))'
    <3>1. 1..n \subseteq Sent(c)
      BY <1>5, <1>6, <2>4 DEF IInv, SentInv
    <3>2. \A k \in 1..n + 1 : k \in 1..n \/ k = n + 1
      OBVIOUS
    <3>3. QED
      BY <1>18, <3>1, <3>2
  <2>5. QED
    BY <1>1, <1>14, <1>16, <1>17, <2>1, <2>2, <2>3, <2>4 DEF SentInv
<1>23. CloseInv'
  <2>1. \A e \in Conn : Sent(e) \subseteq (Sent(e))'
    BY <1>18
  <2>2. \A e \in Conn, v \in Thread : (Closing(v, e))' => Closing(v, e)
    BY <1>1, <1>2 DEF Closing, Now
  <2>3. \A e \in Conn : Kept(e) => (Kept(e))'
    <3>1. \A e \in Conn : promised[e] = None /\ Kept(e) => (Kept(e))'
      BY <1>1, <1>2, <1>9 DEF Kept, Now
    <3>2. \A e \in Conn : promised[e] # None /\ Kept(e) => (Kept(e))'
      BY <1>1, <2>1, <2>2 DEF Kept
    <3>3. QED
      BY <3>1, <3>2
  <2>4. AllSentBeforeClose'
    BY <1>1, <1>9, <2>1 DEF IInv, CloseInv, AllSentBeforeClose
  <2>5. QED
    BY <1>1, <1>14, <2>3, <2>4 DEF IInv, CloseInv
<1>24. FlushOnItsWay'
  <2>1. SUFFICES ASSUME fd'.packet # <<>>, Head(fd'.packet)[1] \notin mistaken \union gone
                 PROVE  \/ armed \/ fd.counter \in ready
                        \/ \E v \in Thread : pc'[v].u = fd.counter /\ pc'[v].at \in FlushPlaces
    BY <1>1, <1>9 DEF FlushOnItsWay, FlushPlaces
  <2>2. Head(fd'.packet)[1] = c
    <3>1. fd'.packet \in Seq(Packets)
      BY <1>8, <1>9
    <3>2. Head(fd'.packet) = fd'.packet[1] /\ 1 \in DOMAIN fd'.packet
      <4>1. /\ Head(fd'.packet) = fd'.packet[1] /\ DOMAIN fd'.packet = 1..Len(fd'.packet)
            /\ Len(fd'.packet) \in Nat /\ Len(fd'.packet) >= 1
        BY <2>1, <3>1, Beheaded
      <4>2. QED
        BY <4>1
    <3>3. QED
      BY <1>20, <3>2
  <2>3. Head(fd.packet)[1] \notin mistaken \union gone
    BY <1>7, <2>1, <2>2
  <2>4. CASE armed \/ fd.counter \in ready
    BY <2>4
  <2>5. CASE \E v \in Thread : pc[v].u = fd.counter /\ pc[v].at \in FlushPlaces
    BY <1>2, <2>5 DEF Now, FlushPlaces
  <2>6. QED
    BY <1>4, <2>3, <2>4, <2>5 DEF IInv, FlushOnItsWay, FlushPlaces
<1>25. QED
  BY <1>12, <1>13, <1>15, <1>21, <1>22, <1>23, <1>24 DEF IInv

----------------------------------------------------------------------------
\* Steps that set the close marker, or say that it is to be set: the packets stay.
LEMMA MarkerStep ==
  ASSUME Sane, IInv, NEW t \in Thread, NEW at \in Places, NEW u \in Nat, NEW arg,
         Now(t, at, u, arg), u <= fd.counter, at \notin {"send", "accepted", "write"},
         pc[t].at # "clear",
         fd' = [fd EXCEPT !.close = TRUE] \/ fd' = fd, sock' = sock, gone' = gone, conns' = conns,
         uuid' = uuid, armed' = armed, written' = written, delivered' = delivered,
         promised' \in [Conn -> Nat \union {None}],
         \A c \in Conn : promised'[c] = promised[c] \/ Live(c),
         mistaken \subseteq mistaken', mistaken' \subseteq Conn,
         ready \subseteq ready', ready' \subseteq 0..fd.counter,
         \A v \in Thread : sock_lock' = v <=> pc'[v].at = "send",
         sock_lock' \in Thread \union {None},
         pc[t].at \in FlushPlaces => at \in FlushPlaces /\ u = pc[t].u
  PROVE  /\ Types' /\ HandleInv' /\ OwnerInv' /\ QueueInv' /\ SentInv' /\ FlushOnItsWay'
         /\ AllSentBeforeClose'
         /\ \A c \in Conn : (Live(c))' = Live(c) /\ (Out(c))' = Out(c) /\ (Sent(c))' = Sent(c)
<1>1. /\ fd'.counter = fd.counter /\ fd'.open = fd.open /\ fd'.packet = fd.packet
      /\ fd' \in [counter : Nat, open : BOOLEAN, close : BOOLEAN, packet : Seq(Packets)]
      /\ fd.counter \in Nat
  BY DEF IInv, Types
<1>2. Types'
  BY <1>1 DEF IInv, Types, Now
<1>3. \A c \in Conn : uuid[c] = 0 => promised'[c] = promised[c]
  BY DEF Live
<1>4. conns' \in Nat /\ conns <= conns'
  BY DEF IInv, Types
<1>5. HandleInv'
  BY <1>1, <1>3, <1>4, HandleKept, Zenon
<1>6. /\ SentInv'
      /\ \A c \in Conn : (Live(c))' = Live(c) /\ (Out(c))' = Out(c) /\ (Sent(c))' = Sent(c)
  BY <1>1, SentKept, Zenon
<1>7. OwnerInv'
  BY <1>1, <1>6 DEF IInv, OwnerInv, Now
<1>8. QueueInv'
  BY <1>1, QueueKept, Zenon
<1>9. FlushOnItsWay'
  BY <1>1, QuietFlush
<1>10. AllSentBeforeClose'
  <2>1. \A c \in Conn : fd.counter > uuid[c] => ~Live(c)
    BY <1>1 DEF Live
  <2>2. QED
    BY <1>1, <1>6, <2>1 DEF IInv, CloseInv, AllSentBeforeClose
<1>11. QED
  BY <1>2, <1>5, <1>6, <1>7, <1>8, <1>9, <1>10

\* The connection is closed only by a thread that has been told to.
LEMMA ToldToClose ==
  ASSUME IInv, NEW c \in Conn \ (gone \union mistaken), Live(c), NEW v \in Thread,
         pc[v].u = uuid[c]
  PROVE  /\ Kept(c)
         /\ pc[v].at \in {"mark", "force", "drop", "clear"} => promised[c] # None
         /\ pc[v].at \in {"force", "drop", "clear"} => 1..promised[c] \subseteq Sent(c)
<1>1. Kept(c)
  BY DEF IInv, CloseInv
<1>2. QED
  BY <1>1 DEF Kept, Closing

\* The kernel refuses a packet: the peer is gone, or a close has struck the descriptor.
LEMMA SendFailsStep ==
  ASSUME Sane, IInv, NEW t \in Thread, SendFails(t)
  PROVE  IInv'
<1>1. /\ pc[t].at = "send" /\ (sock = 0 \/ sock \in gone) /\ sock_lock' = None
      /\ fd' = [fd EXCEPT !.close = TRUE] /\ sock' = sock /\ gone' = gone /\ conns' = conns
      /\ uuid' = uuid /\ ready' = ready /\ armed' = armed /\ written' = written
      /\ delivered' = delivered /\ promised' = promised /\ mistaken' = mistaken
  BY DEF SendFails, Kernel, Data
<1>2. "force" \in Places
  BY DEF Places
<1>3. Now(t, "force", pc[t].u, pc[t].arg)
  BY <1>2, GotoNow DEF IInv, SendFails
<1>4. pc[t].u \in Nat /\ pc[t].u <= fd.counter /\ ready' \subseteq 0..fd.counter
  BY <1>1 DEF IInv, Types, Calls, HandleInv
<1>5. (\A v \in Thread : sock_lock' = v <=> pc'[v].at = "send") /\ sock_lock' \in Thread \union {None}
  BY <1>1, <1>3, LockFreed
<1>6. promised' \in [Conn -> Nat \union {None}] /\ mistaken' \subseteq Conn
  BY <1>1 DEF IInv, Types
<1>7. /\ Types' /\ HandleInv' /\ OwnerInv' /\ QueueInv' /\ SentInv' /\ FlushOnItsWay'
      /\ AllSentBeforeClose' /\ \A c \in Conn : (Live(c))' = Live(c)
  BY <1>1, <1>2, <1>3, <1>4, <1>5, <1>6, MarkerStep DEF FlushPlaces
<1>8. \A c \in Conn \ (gone \union mistaken) : ~Live(c)
  <2>1. \A c \in Conn : c # 0
    BY DEF Conn
  <2>2. QED
    BY <1>1, <2>1 DEF IInv, OwnerInv
<1>9. CloseInv'
  BY <1>1, <1>7, <1>8 DEF CloseInv
<1>10. QED
  BY <1>7, <1>9 DEF IInv

\* Or an error that fio_flush only logs: the packets stay, and their peer is gone.
LEMMA SendResetStep ==
  ASSUME Sane, IInv, NEW t \in Thread, SendReset(t)
  PROVE  IInv'
<1>1. /\ Quiet /\ pc[t].at = "send" /\ sock \in gone /\ sock_lock' = None
      /\ ready' = ready /\ armed' = armed
  BY DEF SendReset, Quiet
<1>2. Now(t, "idle", 0, 0) /\ "idle" \in Places /\ 0 <= fd.counter
  BY DoneNow DEF IInv, SendReset, Places, Types
<1>3. ready' \subseteq 0..fd.counter /\ armed' \in BOOLEAN
  BY <1>1 DEF IInv, Types, HandleInv
<1>4. fd.packet # <<>> => Head(fd.packet)[1] \in mistaken \union gone
  <2>1. \A c \in Conn : c # 0
    BY DEF Conn
  <2>2. QED
    BY <1>1, <2>1, HeadOfLive DEF IInv
<1>5. FlushOnItsWay'
  BY <1>1, <1>2, <1>4, QuietSame, QuietFlush
<1>6. QED
  BY <1>1, <1>2, <1>3, <1>5, LockFreed, QuietStep DEF IInv

\* The marker is left for the connection of the call, or for a later one.
LEMMA MarkStep ==
  ASSUME Sane, IInv, NEW t \in Thread, Mark(t)
  PROVE  IInv'
<1>1. /\ pc[t].at = "mark" /\ fd' = [fd EXCEPT !.close = TRUE] /\ sock_lock' = sock_lock
      /\ sock' = sock /\ gone' = gone /\ conns' = conns /\ uuid' = uuid
      /\ ready' = (IF Valid(pc[t].u) THEN ready \union {pc[t].u} ELSE ready)
      /\ armed' = armed /\ written' = written /\ delivered' = delivered /\ promised' = promised
      /\ mistaken' = mistaken \union NotMeant(t)
  BY DEF Mark, Kernel
<1>2. "idle" \in Places /\ fd.counter \in Nat /\ 0 <= fd.counter /\ NotMeant(t) \subseteq Conn
  BY DEF Places, IInv, Types, NotMeant
<1>3. Now(t, "idle", 0, 0)
  BY DoneNow DEF IInv, Mark
<1>4. ready \subseteq ready' /\ ready' \subseteq 0..fd.counter
  BY <1>1, <1>2 DEF IInv, Types, HandleInv, Valid
<1>5. (\A v \in Thread : sock_lock' = v <=> pc'[v].at = "send") /\ sock_lock' \in Thread \union {None}
  BY <1>1, <1>3, LockSame
<1>6. promised' \in [Conn -> Nat \union {None}] /\ mistaken' \subseteq Conn
  BY <1>1, <1>2 DEF IInv, Types
<1>7. /\ Types' /\ HandleInv' /\ OwnerInv' /\ QueueInv' /\ SentInv' /\ FlushOnItsWay'
      /\ AllSentBeforeClose'
      /\ \A c \in Conn : (Live(c))' = Live(c) /\ (Sent(c))' = Sent(c)
  BY <1>1, <1>2, <1>3, <1>4, <1>5, <1>6, MarkerStep DEF FlushPlaces
<1>8. ASSUME NEW c \in Conn \ (gone \union mistaken'), Live(c) PROVE (Kept(c))'
  <2>1. pc[t].u = uuid[c] /\ c \notin mistaken
    BY <1>1, <1>8 DEF NotMeant, Live
  <2>2. Kept(c) /\ promised[c] # None
    BY <1>1, <1>8, <2>1, ToldToClose
  <2>3. \A v \in Thread : (Closing(v, c))' => Closing(v, c)
    BY <1>1, <1>3 DEF Closing, Now
  <2>4. QED
    BY <1>1, <1>7, <2>2, <2>3 DEF Kept
<1>9. CloseInv'
  BY <1>1, <1>7, <1>8 DEF CloseInv
<1>10. QED
  BY <1>7, <1>9 DEF IInv

LEMMA ForceTestStep ==
  ASSUME Sane, IInv, NEW t \in Thread, ForceTest(t)
  PROVE  IInv'
<1>1. /\ pc[t].at = "force" /\ sock_lock' = sock_lock /\ sock' = sock /\ gone' = gone
      /\ conns' = conns /\ uuid' = uuid /\ ready' = ready /\ armed' = armed
      /\ written' = written /\ delivered' = delivered /\ promised' = promised
      /\ mistaken' = mistaken
  BY DEF ForceTest, Kernel, Data
<1>2. CASE ~Valid(pc[t].u)
  <2>1. Done(t) /\ Quiet
    BY <1>2 DEF ForceTest, Quiet
  <2>2. QED
    BY <1>1, <1>2, <2>1, GivesUpStep
<1>3. CASE Valid(pc[t].u)
  <2>1. fd' = [fd EXCEPT !.close = TRUE] /\ Goto(t, "drop") /\ "drop" \in Places
    BY <1>3 DEF ForceTest, Places
  <2>2. Now(t, "drop", pc[t].u, pc[t].arg)
    BY <2>1, GotoNow DEF IInv
  <2>3. pc[t].u \in Nat /\ pc[t].u <= fd.counter /\ ready' \subseteq 0..fd.counter
    BY <1>1 DEF IInv, Types, Calls, HandleInv
  <2>4. (\A v \in Thread : sock_lock' = v <=> pc'[v].at = "send") /\ sock_lock' \in Thread \union {None}
    BY <1>1, <2>2, LockSame
  <2>5. promised' \in [Conn -> Nat \union {None}] /\ mistaken' \subseteq Conn
    BY <1>1 DEF IInv, Types
  <2>6. /\ Types' /\ HandleInv' /\ OwnerInv' /\ QueueInv' /\ SentInv' /\ FlushOnItsWay'
        /\ AllSentBeforeClose'
        /\ \A c \in Conn : (Live(c))' = Live(c) /\ (Sent(c))' = Sent(c)
    BY <1>1, <2>1, <2>2, <2>3, <2>4, <2>5, MarkerStep DEF FlushPlaces
  <2>7. ASSUME NEW c \in Conn \ (gone \union mistaken), Live(c) PROVE (Kept(c))'
    <3>1. pc[t].u = uuid[c]
      BY <1>3, <2>7 DEF Valid, Live
    <3>2. Kept(c) /\ promised[c] # None /\ 1..promised[c] \subseteq Sent(c)
      BY <1>1, <2>7, <3>1, ToldToClose
    <3>3. QED
      BY <1>1, <2>6, <3>2 DEF Kept
  <2>8. CloseInv'
    BY <1>1, <2>6, <2>7 DEF CloseInv
  <2>9. QED
    BY <2>6, <2>8 DEF IInv
<1>4. QED
  BY <1>2, <1>3

\* fio_close remembers what it was called with: the packets that are still queued
\* are sent first, and with none queued all have been.
LEMMA CloseStep ==
  ASSUME Sane, IInv, NEW t \in Thread, NEW u \in Handles, Close(t, u)
  PROVE  IInv'
<1>1. /\ u = fd.counter /\ promised[Of(u)] = None
      /\ promised' = [promised EXCEPT ![Of(u)] = Len(written[Of(u)])]
      /\ fd' = fd /\ sock_lock' = sock_lock /\ sock' = sock /\ gone' = gone /\ conns' = conns
      /\ uuid' = uuid /\ ready' = ready /\ armed' = armed /\ written' = written
      /\ delivered' = delivered /\ mistaken' = mistaken
  BY DEF Close, Valid, Kernel
<1>2. PICK c \in Conn : c = Of(u) /\ Live(c)
  BY <1>1, OfHandle DEF IInv, HandleInv, Live
<1>3. PICK n \in Nat : n = Len(written[c])
  BY Lengths DEF IInv
<1>4. /\ promised[c] = None /\ promised' = [promised EXCEPT ![c] = n]
      /\ promised' \in [Conn -> Nat \union {None}] /\ promised'[c] = n /\ n # None
      /\ \A e \in Conn \ {c} : promised'[e] = promised[e]
  BY <1>1, <1>2, <1>3 DEF Sane, IInv, Types
<1>5. \A e \in Conn : promised'[e] = promised[e] \/ Live(e)
  BY <1>2, <1>4
<1>6. u \in Nat /\ u <= fd.counter /\ {"mark", "force"} \subseteq Places
  BY <1>1 DEF IInv, Types, Places
<1>7. \E at \in {"mark", "force"} :
        /\ Now(t, at, u, 0)
        /\ at = "force" => fd.packet = <<>>
        /\ pc[t].at = "idle"
  BY <1>6, StartNow DEF IInv, Close
<1>8. PICK at \in {"mark", "force"} :
        /\ Now(t, at, u, 0)
        /\ at = "force" => fd.packet = <<>>
        /\ pc[t].at = "idle"
  BY <1>7
<1>9. ready' \subseteq 0..fd.counter /\ mistaken' \subseteq Conn
  BY <1>1 DEF IInv, Types, HandleInv
<1>10. (\A v \in Thread : sock_lock' = v <=> pc'[v].at = "send") /\ sock_lock' \in Thread \union {None}
  BY <1>1, <1>8, LockSame
<1>11. /\ Types' /\ HandleInv' /\ OwnerInv' /\ QueueInv' /\ SentInv' /\ FlushOnItsWay'
       /\ AllSentBeforeClose'
       /\ \A e \in Conn : (Live(e))' = Live(e) /\ (Sent(e))' = Sent(e)
  BY <1>1, <1>4, <1>5, <1>6, <1>8, <1>9, <1>10, MarkerStep DEF FlushPlaces
<1>12. \A e \in Conn : Live(e) => e = c
  BY <1>2, OneLive DEF IInv
<1>13. ASSUME c \notin gone \union mistaken PROVE (Kept(c))'
  <2>1. \A v \in Thread : pc[v].u = uuid[c] => pc[v].at \notin {"mark", "force", "drop", "clear"}
    BY <1>2, <1>4, <1>13 DEF IInv, CloseInv, Kept
  <2>2. ASSUME NEW v \in Thread, (Closing(v, c))' PROVE 1..n \subseteq Sent(c)
    <3>1. v = t /\ fd.packet = <<>>
      BY <1>1, <1>8, <2>1, <2>2 DEF Closing, Now
    <3>2. Out(c) = n
      BY <1>3, <3>1 DEF Out
    <3>3. ~Dropped(c)
      BY <1>2, <2>1 DEF Dropped, Live
    <3>4. QED
      BY <1>2, <1>13, <3>2, <3>3 DEF IInv, SentInv
  <2>3. promised'[c] <= Len(written'[c])
    BY <1>1, <1>3, <1>4
  <2>4. QED
    BY <1>4, <1>11, <2>2, <2>3 DEF Kept
<1>14. CloseInv'
  BY <1>1, <1>11, <1>12, <1>13 DEF CloseInv
<1>15. QED
  BY <1>11, <1>14 DEF IInv

----------------------------------------------------------------------------
\* fio_force_close drops the packets, of the connection of the call or of a later one.
LEMMA DropStep ==
  ASSUME Sane, IInv, NEW t \in Thread, Drop(t)
  PROVE  IInv'
<1>1. /\ pc[t].at = "drop" /\ sock_lock = None /\ fd' = [fd EXCEPT !.packet = <<>>]
      /\ mistaken' = mistaken \union NotMeant(t)
      /\ sock_lock' = sock_lock /\ sock' = sock /\ gone' = gone /\ conns' = conns
      /\ uuid' = uuid /\ ready' = ready /\ armed' = armed /\ written' = written
      /\ delivered' = delivered /\ promised' = promised
  BY DEF Drop, Kernel
<1>2. "clear" \in Places /\ NotMeant(t) \subseteq Conn
  BY DEF Places, NotMeant
<1>3. Now(t, "clear", pc[t].u, pc[t].arg)
  BY <1>2, GotoNow DEF IInv, Drop
<1>4. /\ fd'.counter = fd.counter /\ fd'.open = fd.open /\ fd'.close = fd.close
      /\ fd'.packet = <<>>
      /\ fd' \in [counter : Nat, open : BOOLEAN, close : BOOLEAN, packet : Seq(Packets)]
  <2>1. <<>> \in Seq(Packets)
    OBVIOUS
  <2>2. QED
    BY <1>1, <2>1 DEF IInv, Types
<1>5. (\A v \in Thread : sock_lock' = v <=> pc'[v].at = "send") /\ sock_lock' \in Thread \union {None}
  BY <1>1, <1>3, LockSame
<1>6. Types'
  BY <1>1, <1>2, <1>3, <1>4, <1>5 DEF IInv, Types, Now
<1>7. HandleInv'
  <2>1. /\ pc[t].u <= fd.counter /\ ready' \subseteq 0..fd.counter
        /\ conns' \in Nat /\ conns <= conns'
    BY <1>1 DEF IInv, Types, HandleInv
  <2>2. QED
    BY <1>1, <1>3, <1>4, <1>5, <2>1, HandleKept
<1>8. \A c \in Conn : (Live(c))' = Live(c) /\ (Sent(c))' = Sent(c)
  BY <1>1, <1>4 DEF Live, Sent
<1>9. OwnerInv'
  BY <1>1, <1>3, <1>4, <1>8 DEF IInv, OwnerInv, Now
<1>10. \A c \in Conn : (Out(c))' = Len(written[c]) /\ Len(written[c]) \in Nat
  <2>1. \A c \in Conn : Len(written[c]) \in Nat
    BY Lengths DEF IInv
  <2>2. ASSUME NEW c \in Conn PROVE (Out(c))' = Len(written[c]) - 0
    BY <1>1, <1>4 DEF Out
  <2>3. QED
    BY <2>1, <2>2
<1>11. QueueInv'
  <2>1. \A v \in Thread : pc'[v].at # "send"
    BY <1>1, <1>5 DEF Sane
  <2>2. DOMAIN fd'.packet = {}
    BY <1>4
  <2>3. QED
    BY <1>1, <1>4, <1>8, <1>10, <2>1, <2>2 DEF IInv, QueueInv
<1>12. SentInv'
  <2>1. OwnInOrder'
    BY <1>1 DEF IInv, SentInv, OwnInOrder
  <2>2. ASSUME NEW c \in Conn, Live(c), NEW k \in Sent(c) PROVE k <= Len(written[c])
    <3>1. k \in Nat /\ k <= Out(c)
      BY <2>2, SentNumbers DEF IInv, SentInv
    <3>2. Len(fd.packet) \in Nat /\ Len(written[c]) \in Nat
      BY Lengths DEF IInv
    <3>3. QED
      BY <3>1, <3>2 DEF Out
  <2>3. ASSUME NEW c \in Conn \ mistaken', Live(c) PROVE (Dropped(c))'
    <3>1. pc[t].u = uuid[c]
      BY <1>1, <2>3 DEF NotMeant, Live
    <3>2. QED
      BY <1>1, <1>3, <3>1 DEF Dropped, Now
  <2>4. QED
    BY <1>8, <1>10, <2>1, <2>2, <2>3 DEF SentInv
<1>13. CloseInv'
  <2>1. ASSUME NEW c \in Conn \ (gone \union mistaken'), Live(c) PROVE (Kept(c))'
    <3>1. pc[t].u = uuid[c] /\ c \notin mistaken
      BY <1>1, <2>1 DEF NotMeant, Live
    <3>2. Kept(c) /\ promised[c] # None /\ 1..promised[c] \subseteq Sent(c)
      BY <1>1, <2>1, <3>1, ToldToClose
    <3>3. QED
      BY <1>1, <1>8, <3>2 DEF Kept
  <2>2. AllSentBeforeClose'
    BY <1>1, <1>4, <1>8 DEF IInv, CloseInv, AllSentBeforeClose
  <2>3. QED
    BY <1>1, <1>8, <2>1, <2>2 DEF CloseInv
<1>14. FlushOnItsWay'
  BY <1>4 DEF FlushOnItsWay
<1>15. QED
  BY <1>6, <1>7, <1>9, <1>11, <1>12, <1>13, <1>14 DEF IInv

\* The descriptor is counted up: no connection is live any more.
LEMMA ClearStep ==
  ASSUME Sane, IInv, NEW t \in Thread, Clear(t)
  PROVE  IInv'
<1>1. /\ pc[t].at = "clear" /\ sock_lock = None /\ fd' = Fresh(fd.counter + 1, FALSE)
      /\ mistaken' = mistaken \union NotMeant(t)
      /\ sock_lock' = sock_lock /\ sock' = sock /\ gone' = gone /\ conns' = conns
      /\ uuid' = uuid /\ ready' = ready /\ armed' = armed /\ written' = written
      /\ delivered' = delivered /\ promised' = promised
  BY DEF Clear, Kernel
<1>2. "osclose" \in Places /\ NotMeant(t) \subseteq Conn
  BY DEF Places, NotMeant
<1>3. Now(t, "osclose", pc[t].u, pc[t].arg)
  BY <1>2, GotoNow DEF IInv, Clear
<1>4. /\ fd.counter \in Nat /\ fd'.counter = fd.counter + 1 /\ fd'.open = FALSE
      /\ fd'.packet = <<>>
      /\ fd' \in [counter : Nat, open : BOOLEAN, close : BOOLEAN, packet : Seq(Packets)]
  BY <1>1 DEF IInv, Types, Fresh
<1>5. (\A v \in Thread : sock_lock' = v <=> pc'[v].at = "send") /\ sock_lock' \in Thread \union {None}
  BY <1>1, <1>3, LockSame
<1>6. Types'
  BY <1>1, <1>2, <1>3, <1>4, <1>5 DEF IInv, Types, Now
<1>7. \A c \in Conn : uuid[c] \in Nat /\ uuid[c] <= fd.counter
  BY DEF IInv, Types, HandleInv
<1>8. \A v \in Thread : pc'[v].u \in Nat /\ pc'[v].u <= fd.counter
  BY <1>3 DEF IInv, Types, Calls, HandleInv, Now
<1>9. HandleInv'
  <2>1. Handles' = Handles
    BY <1>1 DEF Handles
  <2>2. \A v \in Thread : pc'[v].at = "write" => pc'[v].u \in Handles
    BY <1>3 DEF IInv, HandleInv, Now
  <2>3. \A n \in Nat : n <= fd.counter => n <= fd'.counter
    BY <1>4
  <2>4. \A c \in Conn : uuid'[c] <= fd'.counter
    BY <1>1, <1>7, <2>3
  <2>5. (\A v \in Thread : pc'[v].u <= fd'.counter) /\ (\A u \in ready' : u <= fd'.counter)
    BY <1>1, <1>8, <2>3 DEF IInv, Types, HandleInv
  <2>6. QED
    BY <1>1, <1>5, <2>1, <2>2, <2>4, <2>5 DEF IInv, HandleInv
<1>10. ASSUME NEW c \in Conn PROVE ~(Live(c))'
  <2>1. uuid[c] \in Nat /\ uuid[c] # fd.counter + 1
    BY <1>4, <1>7
  <2>2. QED
    BY <1>1, <1>4, <2>1 DEF Live
<1>11. OwnerInv'
  <2>1. \A v \in Thread : pc'[v].at = "accepted" => pc[v].at = "accepted"
    BY <1>3 DEF Now
  <2>2. QED
    BY <1>1, <1>4, <1>10, <2>1 DEF IInv, OwnerInv
<1>12. QueueInv'
  <2>1. \A v \in Thread : pc'[v].at # "send"
    BY <1>1, <1>5 DEF Sane
  <2>2. QED
    BY <1>1, <1>4, <1>10, <2>1 DEF IInv, QueueInv
<1>13. SentInv'
  <2>1. OwnInOrder'
    BY <1>1 DEF IInv, SentInv, OwnInOrder
  <2>2. QED
    BY <1>10, <2>1 DEF SentInv
<1>14. CloseInv'
  <2>1. ASSUME NEW c \in Conn \ (gone \union mistaken'), uuid[c] # 0, promised[c] # None
        PROVE  1..promised[c] \subseteq Sent(c)
    <3>1. CASE Live(c)
      <4>1. pc[t].u = uuid[c] /\ c \notin mistaken
        BY <1>1, <2>1, <3>1 DEF NotMeant, Live
      <4>2. QED
        BY <1>1, <2>1, <3>1, <4>1, ToldToClose
    <3>2. CASE ~Live(c)
      <4>1. fd.counter > uuid[c]
        BY <1>4, <1>7, <2>1, <3>2 DEF Live
      <4>2. QED
        BY <1>1, <2>1, <4>1 DEF IInv, CloseInv, AllSentBeforeClose
    <3>3. QED
      BY <3>1, <3>2
  <2>2. \A c \in Conn : (Sent(c))' = Sent(c)
    BY <1>1 DEF Sent
  <2>3. AllSentBeforeClose'
    BY <1>1, <2>1, <2>2 DEF AllSentBeforeClose
  <2>4. QED
    BY <1>10, <2>3 DEF CloseInv
<1>15. FlushOnItsWay'
  BY <1>4 DEF FlushOnItsWay
<1>16. QED
  BY <1>6, <1>9, <1>11, <1>12, <1>13, <1>14, <1>15 DEF IInv

----------------------------------------------------------------------------
LEMMA NextIInv == ASSUME Sane, IInv, [Next]_vars PROVE IInv'
<1>1. CASE PollWrite
  BY <1>1, PollWriteStep
<1>2. ASSUME NEW t \in Thread, Step(t) PROVE IInv'
  BY <1>2, RegisterStep, EnqueueStep, FlushTestStep, FlushBusyStep, FlushNothingStep,
     FlushLockStep, SendStep, SendWouldBlockStep, SendFailsStep, SendResetStep, TestCloseStep,
     MarkStep, ForceTestStep, DropStep, ClearStep, OsCloseStep, OnReadyStep, Zenon DEF Step
<1>3. ASSUME NEW t \in Thread, Accept(t) PROVE IInv'
  BY <1>3, AcceptStep
<1>4. ASSUME NEW t \in Thread, HangupEvent(t) PROVE IInv'
  BY <1>4, HangupEventStep
<1>5. ASSUME NEW t \in Thread, NEW u \in Handles, Write(t, u) \/ Close(t, u) PROVE IInv'
  BY <1>5, WriteStep, CloseStep
<1>6. ASSUME NEW c \in Conn, Hangup(c) PROVE IInv'
  BY <1>6, HangupStep
<1>7. CASE UNCHANGED vars
  BY <1>7, AllStays DEF vars
<1>8. QED
  BY <1>1, <1>2, <1>3, <1>4, <1>5, <1>6, <1>7 DEF Next

LEMMA SpecIInv == ASSUME Sane PROVE Spec => []IInv
<1>1. Init => IInv
  BY InitIInv
<1>2. IInv /\ [Next]_vars => IInv'
  BY NextIInv
<1>3. QED
  BY <1>1, <1>2, PTL DEF Spec

\* Types of the descriptor's data, of the kernel's and of the queue of tasks; the lock
\* is held by the thread that is in write_func and by no other.
THEOREM SocketTypeOK == ASSUME Sane PROVE Spec => []TypeOK
<1>1. IInv => TypeOK
  BY DEF IInv, Types, HandleInv, TypeOK, Packets
<1>2. QED
  BY <1>1, SpecIInv, PTL

\* Whatever the threads that write, flush and close, the packets of a connection go out
\* in the order fio_write2 queued them, and to no other connection unless a close that
\* meant an earlier one has struck theirs.
THEOREM SocketOwnInOrder == ASSUME Sane PROVE Spec => []OwnInOrder
<1>1. IInv => OwnInOrder
  BY DEF IInv, SentInv
<1>2. QED
  BY <1>1, SpecIInv, PTL

\* A packet goes out only after all that were queued before it on its connection, until
\* fio_force_close drops what is left.
THEOREM SocketNoGap == ASSUME Sane PROVE Spec => []NoGap
<1>1. ASSUME IInv, NEW c \in Conn \ mistaken, uuid[c] # 0, ~Dropped(c), NEW k \in Sent(c)
      PROVE  1..k \subseteq Sent(c)
  <2>1. Live(c)
    BY <1>1 DEF Live, Dropped
  <2>2. k <= Out(c) /\ 1..Out(c) \subseteq Sent(c) /\ k \in Nat
    BY <1>1, <2>1, SentNumbers DEF IInv, SentInv
  <2>3. Out(c) \in Int
    <3>1. Len(written[c]) \in Nat /\ Len(fd.packet) \in Nat
      BY <1>1, Lengths DEF IInv
    <3>2. QED
      BY <3>1 DEF Out
  <2>4. QED
    BY <2>2, <2>3
<1>2. IInv => NoGap
  BY <1>1 DEF NoGap
<1>3. QED
  BY <1>2, SpecIInv, PTL

\* fio.h 1081: a connection that fio_close was called for, whose peer stays, is not taken
\* down before all it had been given then is sent, however flushes and closes interleave.
THEOREM SocketAllSentBeforeClose == ASSUME Sane PROVE Spec => []AllSentBeforeClose
<1>1. IInv => AllSentBeforeClose
  BY DEF IInv, CloseInv
<1>2. QED
  BY <1>1, SpecIInv, PTL

\* A queued packet of a peer that stays is never left behind: a poll is armed, a flush is
\* queued, or a thread is on its way to flush or to close, also when two threads met at
\* the lock. Of a peer that is gone it may be, since fio_flush only logs a reset.
THEOREM SocketFlushOnItsWay == ASSUME Sane PROVE Spec => []FlushOnItsWay
<1>1. IInv => FlushOnItsWay
  BY DEF IInv
<1>2. QED
  BY <1>1, SpecIInv, PTL

----------------------------------------------------------------------------
\* With one connection, who is past the test of the handle means that connection while
\* it is live, and nobody closes the descriptor before it has been registered.
Past == {"trylock", "send", "test", "mark", "force", "drop", "clear"}

OneInv ==
  /\ mistaken = {}
  /\ uuid[1] = 0 => gone = {} /\ ready = {} /\ ~armed /\ \A t \in Thread : pc[t].at \in {"idle", "accepted"}
  /\ \A t \in Thread : pc[t].at \in Past /\ Live(1) => pc[t].u = fd.counter
  /\ \A t \in Thread : pc[t].at = "osclose" => uuid[1] # 0 /\ ~Live(1)

\* A step that leaves the connection as it is keeps it if the thread that takes it does.
LEMMA OneKept ==
  ASSUME OneInv, NEW t \in Thread, uuid' = uuid, fd'.counter = fd.counter, mistaken' = {},
         \A v \in Thread \ {t} : pc'[v] = pc[v],
         uuid[1] = 0 => gone' = {} /\ ready' = {} /\ ~armed' /\ pc'[t].at \in {"idle", "accepted"},
         pc'[t].at \in Past /\ Live(1) => pc'[t].u = fd.counter,
         pc'[t].at = "osclose" => uuid[1] # 0 /\ ~Live(1)
  PROVE  OneInv'
<1>1. Live(1)' <=> Live(1)
  BY DEF Live
<1>2. ASSUME uuid[1] = 0
      PROVE  gone' = {} /\ ready' = {} /\ ~armed' /\ \A v \in Thread : pc'[v].at \in {"idle", "accepted"}
  <2>1. \A v \in Thread : pc[v].at \in {"idle", "accepted"}
    BY <1>2 DEF OneInv
  <2>2. ASSUME NEW v \in Thread PROVE pc'[v].at \in {"idle", "accepted"}
    BY <1>2, <2>1
  <2>3. QED
    BY <1>2, <2>2
<1>3. ASSUME NEW v \in Thread, pc'[v].at \in Past, Live(1) PROVE pc'[v].u = fd.counter
  BY <1>3 DEF OneInv
<1>4. ASSUME NEW v \in Thread, pc'[v].at = "osclose" PROVE uuid[1] # 0 /\ ~Live(1)
  BY <1>4 DEF OneInv
<1>5. QED
  BY <1>1, <1>2, <1>3, <1>4 DEF OneInv

\* No close means an earlier connection than the only one.
LEMMA OneMeant ==
  ASSUME MaxConn = 1, OneInv, NEW t \in Thread, pc[t].at \in Past
  PROVE  NotMeant(t) = {}
<1>1. Conn = {1}
  BY DEF Conn
<1>2. QED
  BY <1>1 DEF OneInv, NotMeant, Live, Past

\* The thread that takes a step goes on with the same handle or is done.
LEMMA OneGoes ==
  ASSUME Types, OneInv, NEW t \in Thread, uuid' = uuid, fd'.counter = fd.counter, mistaken' = {},
         pc[t].at \notin {"idle", "accepted"}, NEW at,
         Now(t, at, pc[t].u, pc[t].arg) \/ Now(t, "idle", 0, 0),
         at # "osclose", at \in Past /\ Live(1) => pc[t].u = fd.counter
  PROVE  OneInv'
<1>1. uuid[1] # 0
  BY DEF OneInv
<1>2. \A v \in Thread \ {t} : pc'[v] = pc[v]
  BY DEF Now
<1>3. pc'[t].at \in {at, "idle"} /\ (pc'[t].at = at => pc'[t].u = pc[t].u \/ at = "idle")
  BY DEF Now
<1>4. QED
  BY <1>1, <1>2, <1>3, OneKept DEF Past

LEMMA OneStep ==
  ASSUME MaxConn = 1, IInv, OneInv, NEW t \in Thread, Step(t)
  PROVE  OneInv'
<1>1. Types /\ uuid[1] \in Nat /\ fd.counter \in Nat /\ uuid[1] <= fd.counter /\ Conn = {1}
  BY DEF IInv, Types, HandleInv, Conn
<1>2. CASE Register(t)
  <2>1. uuid[1] = 0 /\ conns = 1
    BY <1>1, <1>2 DEF Register, IInv, OwnerInv, Types
  <2>2. uuid'[1] = fd.counter + 1 /\ mistaken' = {}
    BY <1>1, <1>2, <2>1 DEF Register, Data, Types, OneInv
  <2>3. \A v \in Thread : pc'[v].at \in {"idle", "accepted"}
    <3>1. Now(t, "idle", 0, 0)
      BY <1>1, <1>2, DoneNow DEF Register
    <3>2. \A v \in Thread : pc[v].at \in {"idle", "accepted"}
      BY <2>1 DEF OneInv
    <3>3. QED
      BY <3>1, <3>2 DEF Now
  <2>4. QED
    BY <1>1, <2>2, <2>3 DEF OneInv, Past
<1>3. CASE OnReady(t)
  <2>1. PICK u \in ready : Start(t, "flush", u, 0) /\ UNCHANGED <<fd, Kernel, mistaken>>
    BY <1>3 DEF OnReady, Data
  <2>2. Now(t, "flush", u, 0) /\ uuid[1] # 0
    BY <1>1, <2>1, StartNow DEF Types, Places, OneInv
  <2>3. fd' = fd /\ uuid' = uuid /\ mistaken' = {}
    BY <2>1 DEF Kernel, OneInv
  <2>4. QED
    BY <2>2, <2>3, OneKept DEF Now, Past
<1>4. CASE Clear(t)
  <2>1. uuid[1] # 0 /\ NotMeant(t) = {}
    BY <1>4, OneMeant DEF Clear, Past, OneInv
  <2>2. uuid' = uuid /\ fd'.counter = fd.counter + 1 /\ mistaken' = {}
    BY <1>1, <1>4, <2>1 DEF Clear, Kernel, Fresh, OneInv
  <2>3. ~Live(1)'
    BY <1>1, <2>2 DEF Live
  <2>4. QED
    BY <2>1, <2>2, <2>3 DEF OneInv
<1>5. CASE OsClose(t)
  <2>1. uuid[1] # 0 /\ ~Live(1)
    BY <1>5 DEF OsClose, OneInv
  <2>2. mistaken' = {} /\ fd' = fd /\ uuid' = uuid
    BY <1>1, <1>5, <2>1 DEF OsClose, OneInv, Live
  <2>3. Now(t, "idle", 0, 0)
    BY <1>1, <1>5, DoneNow DEF OsClose
  <2>4. QED
    BY <2>1, <2>2, <2>3, OneKept DEF Now, Past
<1>6. ASSUME NEW at, pc[t].at \notin {"idle", "accepted"}, uuid' = uuid, fd'.counter = fd.counter,
             mistaken' = {}, Now(t, at, pc[t].u, pc[t].arg) \/ Now(t, "idle", 0, 0),
             at # "osclose", pc[t].at \in Past \/ pc[t].u = fd.counter \/ at \notin Past
      PROVE  OneInv'
  <2>1. pc[t].at \in Past /\ Live(1) => pc[t].u = fd.counter
    BY DEF OneInv
  <2>2. QED
    BY <1>1, <1>6, <2>1, OneGoes
<1>7. CASE FlushTest(t) \/ ForceTest(t)
  <2>1. /\ pc[t].at \in {"flush", "force"} /\ fd'.counter = fd.counter /\ uuid' = uuid /\ mistaken' = {}
        /\ Done(t) \/ (Valid(pc[t].u) /\ \E at \in {"trylock", "drop"} : Goto(t, at))
    BY <1>1, <1>7 DEF FlushTest, ForceTest, Kernel, Data, OneInv, Types
  <2>2. Now(t, "idle", 0, 0) \/ \E at \in {"trylock", "drop"} : Now(t, at, pc[t].u, pc[t].arg) /\ pc[t].u = fd.counter
    BY <1>1, <2>1, DoneNow, GotoNow DEF Places, Valid
  <2>3. CASE Now(t, "idle", 0, 0)
    BY <1>6, <2>1, <2>3 DEF Past
  <2>4. ASSUME NEW at \in {"trylock", "drop"}, Now(t, at, pc[t].u, pc[t].arg), pc[t].u = fd.counter
        PROVE  OneInv'
    BY <1>6, <2>1, <2>4
  <2>5. QED
    BY <2>2, <2>3, <2>4
<1>8. CASE \/ Enqueue(t) \/ FlushBusy(t) \/ FlushNothing(t) \/ FlushLock(t) \/ Send(t)
           \/ SendWouldBlock(t) \/ SendFails(t) \/ SendReset(t) \/ TestClose(t) \/ Mark(t) \/ Drop(t)
  <2>1. /\ pc[t].at \in Past \union {"write"} /\ fd'.counter = fd.counter /\ uuid' = uuid
        /\ mistaken' = mistaken \/ (mistaken' = mistaken \union NotMeant(t) /\ pc[t].at \in Past)
        /\ \/ Done(t)
           \/ pc[t].at = "write" /\ Goto(t, "flush")
           \/ pc[t].at \in Past /\ \E at \in {"send", "test", "force", "clear"} : Goto(t, at)
    BY <1>1, <1>8 DEF Enqueue, FlushBusy, FlushNothing, FlushLock, Send, SendWouldBlock, SendFails,
                      SendReset, TestClose, Mark, Drop, Again, Kernel, Data, Past, Types
  <2>2. mistaken' = {}
    BY <2>1, OneMeant DEF OneInv
  <2>3. \/ Now(t, "idle", 0, 0)
        \/ pc[t].at = "write" /\ Now(t, "flush", pc[t].u, pc[t].arg)
        \/ pc[t].at \in Past /\ \E at \in {"send", "test", "force", "clear"} : Now(t, at, pc[t].u, pc[t].arg)
    BY <1>1, <2>1, DoneNow, GotoNow DEF Places
  <2>4. pc[t].at \notin {"idle", "accepted"}
    BY <2>1 DEF Past
  <2>5. CASE Now(t, "idle", 0, 0)
    BY <1>6, <2>1, <2>2, <2>4, <2>5 DEF Past
  <2>6. CASE Now(t, "flush", pc[t].u, pc[t].arg)
    BY <1>6, <2>1, <2>2, <2>4, <2>6 DEF Past
  <2>7. ASSUME NEW at \in {"send", "test", "force", "clear"}, pc[t].at \in Past,
               Now(t, at, pc[t].u, pc[t].arg)
        PROVE  OneInv'
    BY <1>6, <2>1, <2>2, <2>4, <2>7
  <2>8. QED
    BY <2>3, <2>5, <2>6, <2>7
<1>9. QED
  BY <1>2, <1>3, <1>4, <1>5, <1>7, <1>8 DEF Step

LEMMA OneNext ==
  ASSUME MaxConn = 1, IInv, OneInv, [Next]_vars
  PROVE  OneInv'
<1>1. Types /\ Conn = {1} /\ uuid[1] \in Nat /\ fd.counter \in Nat
  BY DEF IInv, Types, Conn
<1>2. CASE PollWrite
  BY <1>2 DEF PollWrite, Kernel, Data, OneInv, Live
<1>3. ASSUME NEW t \in Thread, Accept(t) PROVE OneInv'
  <2>1. uuid[1] = 0
    BY <1>1, <1>3 DEF Accept, IInv, HandleInv, Types
  <2>2. Now(t, "accepted", 0, 0)
    BY <1>1, <1>3, StartNow DEF Accept, Places
  <2>3. UNCHANGED <<fd, gone, uuid, ready, armed, mistaken>>
    BY <1>3 DEF Accept, Data
  <2>4. \A v \in Thread : pc'[v].at \in {"idle", "accepted"}
    BY <2>1, <2>2 DEF Now, OneInv
  <2>5. QED
    BY <2>1, <2>3, <2>4 DEF OneInv, Live
<1>4. ASSUME NEW t \in Thread, HangupEvent(t) PROVE OneInv'
  <2>1. uuid[1] # 0
    BY <1>4 DEF HangupEvent, OneInv
  <2>2. Now(t, "force", fd.counter, 0)
    BY <1>1, <1>4, StartNow DEF HangupEvent, Places
  <2>3. fd' = fd /\ uuid' = uuid /\ mistaken' = {}
    BY <1>4 DEF HangupEvent, Kernel, Data, OneInv
  <2>4. QED
    BY <2>1, <2>2, <2>3, OneKept DEF Now
<1>5. ASSUME NEW t \in Thread, NEW u \in Handles, Write(t, u) \/ Close(t, u) PROVE OneInv'
  <2>1. uuid[1] # 0 /\ u = fd.counter /\ u \in Nat
    BY <1>1, <1>5 DEF Handles, Write, Close, Valid
  <2>2. \E at \in {"write", "mark", "force"}, arg \in {0, 1} : Now(t, at, u, arg)
    BY <1>1, <1>5, <2>1, StartNow DEF Write, Close, Places
  <2>3. fd' = fd /\ uuid' = uuid /\ mistaken' = {}
    BY <1>5 DEF Write, Close, Kernel, Data, OneInv
  <2>4. QED
    BY <2>1, <2>2, <2>3, OneKept DEF Now
<1>6. ASSUME NEW c \in Conn, Hangup(c) PROVE OneInv'
  BY <1>1, <1>6 DEF Hangup, Data, OneInv, Live
<1>7. CASE UNCHANGED vars
  BY <1>7 DEF vars, OneInv, Live
<1>8. QED
  BY <1>2, <1>3, <1>4, <1>5, <1>6, <1>7, OneStep DEF Next

\* On a descriptor that has had one connection no call means another one, so that the
\* exceptions for connections that were struck by mistake cover nothing there.
THEOREM SocketOneConnection == ASSUME Sane, MaxConn = 1 PROVE Spec => [](mistaken = {})
<1>1. Init => OneInv
  BY DEF Init, OneInv, Live, Idle, Past, Conn
<1>2. IInv /\ OneInv /\ [Next]_vars => OneInv'
  BY OneNext
<1>3. OneInv => mistaken = {}
  BY DEF OneInv
<1>4. QED
  BY <1>1, <1>2, <1>3, SpecIInv, PTL DEF Spec

\* What the write side of a descriptor promises: order, no gap, everything sent before a
\* close, and no mistaken connection where there is one only.
THEOREM SocketBytesInOrder == ASSUME Sane PROVE Spec => []BytesInOrder
<1>1. CASE MaxConn = 1
  <2>1. Spec => [](mistaken = {})
    BY <1>1, SocketOneConnection
  <2>2. TypeOK /\ OwnInOrder /\ NoGap /\ AllSentBeforeClose /\ mistaken = {} => BytesInOrder
    BY DEF BytesInOrder
  <2>3. QED
    BY <2>1, <2>2, SocketTypeOK, SocketOwnInOrder, SocketNoGap, SocketAllSentBeforeClose, PTL
<1>2. CASE MaxConn # 1
  <2>1. TypeOK /\ OwnInOrder /\ NoGap /\ AllSentBeforeClose => BytesInOrder
    BY <1>2 DEF BytesInOrder
  <2>2. QED
    BY <2>1, SocketTypeOK, SocketOwnInOrder, SocketNoGap, SocketAllSentBeforeClose, PTL
<1>3. QED
  BY <1>1, <1>2

=============================================================================
