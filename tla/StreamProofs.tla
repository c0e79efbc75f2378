---------------------------- MODULE StreamProofs ----------------------------
(***************************************************************************)
(* Theorems about EventStream, for any clients, capacities and bounds: the *)
(* stream a client gets is the log of its epoch, and seen by that client   *)
(* it is the feed of EventFeed.                                            *)
(*                                                                         *)
(* The ring is what is left of the log; a cursor stands for a position in  *)
(* the log up to which its client has heard everything; and what has been  *)
(* told, sent and queued never belongs to an epoch still to come.          *)
(***************************************************************************)
EXTENDS EventStream, SequenceTheorems, WellFoundedInduction, TLAPS

-----------------------------------------------------------------------------
(* Selections.  (Induction, with the set of the good positions for the     *)
(* predicate.)                                                             *)

LEMMA UpTo ==
  ASSUME NEW N \in Nat, NEW G, 0 \in G,
         \A n \in 0 .. N : n < N /\ n \in G => n + 1 \in G
  PROVE  \A n \in 0 .. N : n \in G
<1> DEFINE Bad == {n \in 0 .. N : n \notin G}
<1> SUFFICES ASSUME Bad # {} PROVE FALSE
  OBVIOUS
<1>1. PICK n \in Bad : \A m \in Bad : ~ (<<m, n>> \in OpToRel(<, Nat))
  <2>1. IsWellFoundedOn(OpToRel(<, Nat), Nat)
    BY NatLessThanWellFounded
  <2>2. Bad \subseteq Nat
    OBVIOUS
  <2> HIDE DEF Bad
  <2> QED
    BY <2>1, <2>2, WFMin
<1>2. n \in 1 .. N /\ n - 1 \in 0 .. N /\ n - 1 < N
  OBVIOUS
<1>3. n - 1 \in Bad
  BY <1>2
<1>4. <<n - 1, n>> \in OpToRel(<, Nat)
  BY <1>2 DEF OpToRel
<1> QED
  BY <1>1, <1>3, <1>4

(* g counts, for every n, what the first n elements of s have in S. *)
Selects(g, s, S) ==
  g = [n \in 0 .. Len(s) |->
         IF n = 0 THEN << >>
         ELSE IF s[n] \in S THEN Append(g[n - 1], s[n])
         ELSE g[n - 1]]

(* The same, up to n. *)
Selected(s, S, X, n) ==
  {g \in [0 .. n -> Seq(X)] :
     /\ g[0] = << >>
     /\ \A m \in 1 .. n :
          g[m] = IF s[m] \in S THEN Append(g[m - 1], s[m]) ELSE g[m - 1]}

LEMMA SelectionExists ==
  ASSUME NEW X, NEW s \in Seq(X), NEW S
  PROVE  \E g \in [0 .. Len(s) -> Seq(X)] : Selects(g, s, S)
<1> DEFINE G == {n \in 0 .. Len(s) : Selected(s, S, X, n) # {}}
<1>1. Len(s) \in Nat
  BY LenProperties
<1>2. 0 \in G
  <2>1. [m \in 0 .. 0 |-> << >>] \in Selected(s, S, X, 0)
    BY DEF Selected
  <2> QED
    BY <1>1, <2>1
<1>3. ASSUME NEW n \in 0 .. Len(s), n < Len(s), n \in G
      PROVE  n + 1 \in G
  <2>1. PICK g : g \in Selected(s, S, X, n)
    BY <1>3
  <2>2. n + 1 \in 1 .. Len(s) /\ s[n + 1] \in X
    BY <1>1, <1>3, ElementOfSeq
  <2> DEFINE e == IF s[n + 1] \in S THEN Append(g[n], s[n + 1]) ELSE g[n]
             h == [m \in 0 .. n + 1 |-> IF m = n + 1 THEN e ELSE g[m]]
  <2>3. g[n] \in Seq(X) /\ e \in Seq(X)
    BY <1>1, <2>1, <2>2, AppendProperties DEF Selected
  <2>4. h \in [0 .. n + 1 -> Seq(X)] /\ h[0] = << >>
    BY <1>1, <2>1, <2>3 DEF Selected
  <2>5. ASSUME NEW m \in 1 .. n + 1 
        PROVE h[m] = IF s[m] \in S THEN Append(h[m - 1], s[m]) ELSE h[m - 1]
    <3>1. CASE m = n + 1
      BY <1>1, <3>1
    <3>2. CASE m # n + 1
      BY <1>1, <2>1, <3>2 DEF Selected
    <3> QED
      BY <3>1, <3>2
  <2> HIDE DEF h
  <2>6. h \in Selected(s, S, X, n + 1)
    BY <2>4, <2>5 DEF Selected
  <2>7. n + 1 \in 0 .. Len(s)
    BY <1>1, <2>2
  <2> QED
    BY <2>6, <2>7
<1> HIDE DEF G
<1>4. \A n \in 0 .. Len(s) : n \in G
  BY <1>1, <1>2, <1>3, UpTo
<1>5. PICK g : g \in Selected(s, S, X, Len(s))
  BY <1>1, <1>4 DEF G
<1>6. Selects(g, s, S)
  <2>1. g \in [0 .. Len(s) -> Seq(X)] /\ g[0] = << >>
    BY <1>5 DEF Selected
  <2>2. \A m \in 0 .. Len(s) :
          g[m] = IF m = 0 THEN << >>
                 ELSE IF s[m] \in S THEN Append(g[m - 1], s[m])
                 ELSE g[m - 1]
    <3> TAKE m \in 0 .. Len(s)
    <3>1. m = 0 \/ m \in 1 .. Len(s)
      BY <1>1
    <3> QED
      BY <3>1, <1>5 DEF Selected
  <2> QED
    BY <2>1, <2>2 DEF Selects
<1> QED
  BY <1>5, <1>6 DEF Selected

(* The same once more, from one step to the next. *)
Counts(g, s, S, X) ==
  /\ g \in [0 .. Len(s) -> Seq(X)]
  /\ Within(s, S) = g[Len(s)] /\ g[0] = << >>
  /\ \A n \in 0 .. Len(s) : n < Len(s) =>
       g[n + 1] = IF s[n + 1] \in S THEN Append(g[n], s[n + 1]) ELSE g[n]

LEMMA WithinSteps ==
  ASSUME NEW X, NEW s \in Seq(X), NEW S
  PROVE  \E g : Counts(g, s, S, X)
<1> DEFINE f == CHOOSE g : Selects(g, s, S)
<1>1. Len(s) \in Nat
  BY LenProperties
<1>2. PICK g \in [0 .. Len(s) -> Seq(X)] : Selects(g, s, S)
  BY SelectionExists
<1>3. Selects(f, s, S)
  BY <1>2
<1>4. Within(s, S) = f[Len(s)]
  BY DEF Within, Selects
<1> HIDE DEF f
<1>5. f[0] = << >>
  BY <1>1, <1>3 DEF Selects
<1>6. \A n \in 0 .. Len(s) : n < Len(s) =>
        f[n + 1] = IF s[n + 1] \in S THEN Append(f[n], s[n + 1]) ELSE f[n]
  <2> TAKE n \in 0 .. Len(s)
  <2> HAVE n < Len(s)
  <2>1. n + 1 \in 0 .. Len(s) /\ n + 1 # 0 /\ (n + 1) - 1 = n
    BY <1>1
  <2>2. \A m \in 0 .. Len(s) : m # 0 =>
          f[m] = IF s[m] \in S THEN Append(f[m - 1], s[m]) ELSE f[m - 1]
    BY <1>3 DEF Selects
  <2> DEFINE m == n + 1
  <2>3. m \in 0 .. Len(s) /\ m # 0 /\ m - 1 = n
    BY <2>1
  <2> HIDE DEF m
  <2>4. f[m] = IF s[m] \in S THEN Append(f[n], s[m]) ELSE f[n]
    BY <2>2, <2>3
  <2> QED
    BY <2>4 DEF m
<1>7. f \in [0 .. Len(s) -> Seq(X)]
  <2> DEFINE G == {n \in 0 .. Len(s) : f[n] \in Seq(X)}
  <2>1. 0 \in G
    <3>1. f[0] \in Seq(X) /\ 0 \in 0 .. Len(s)
      BY <1>1, <1>5
    <3> QED
      BY <3>1
  <2>2. ASSUME NEW n \in 0 .. Len(s), n < Len(s), n \in G
        PROVE  n + 1 \in G
    <3>1. n + 1 \in 1 .. Len(s) /\ s[n + 1] \in X
      BY <1>1, <2>2, ElementOfSeq
    <3>2. Append(f[n], s[n + 1]) \in Seq(X)
      BY <2>2, <3>1, AppendProperties
    <3>3. f[n + 1] \in {Append(f[n], s[n + 1]), f[n]}
      BY <1>6, <2>2
    <3>4. f[n + 1] \in Seq(X)
      BY <2>2, <3>2, <3>3
    <3> QED
      BY <1>1, <3>1, <3>4
  <2>3. DOMAIN f = 0 .. Len(s) /\ f = [n \in 0 .. Len(s) |-> f[n]]
    BY <1>3 DEF Selects
  <2> HIDE DEF G
  <2>4. \A n \in 0 .. Len(s) : n \in G
    BY <1>1, <2>1, <2>2, UpTo
  <2> QED
    BY <2>3, <2>4 DEF G
<1> QED
  BY <1>4, <1>5, <1>6, <1>7 DEF Counts

LEMMA WithinType ==
  ASSUME NEW X, NEW s \in Seq(X), NEW S
  PROVE  Within(s, S) \in Seq(X)
<1>1. Len(s) \in 0 .. Len(s)
  BY LenProperties
<1>2. PICK g : Counts(g, s, S, X)
  BY WithinSteps
<1> QED
  BY <1>1, <1>2 DEF Counts

LEMMA Joined ==
  ASSUME NEW X, NEW s \in Seq(X), NEW t \in Seq(X)
  PROVE  /\ Len(s) \in Nat /\ Len(t) \in Nat
         /\ s \o t \in Seq(X) /\ Len(s \o t) = Len(s) + Len(t)
         /\ \A i \in 1 .. Len(s) : (s \o t)[i] = s[i]
         /\ \A i \in 1 .. Len(t) : (s \o t)[Len(s) + i] = t[i]
<1> DEFINE u == s \o t
<1>1. /\ Len(s) \in Nat /\ Len(t) \in Nat
      /\ u \in Seq(X) /\ Len(u) = Len(s) + Len(t)
      /\ \A i \in 1 .. Len(s) : u[i] = s[i]
      /\ \A i \in 1 .. Len(t) : u[Len(s) + i] = t[i]
  BY LenProperties, ConcatProperties
<1> QED
  BY <1>1

LEMMA AppendAcross ==
  ASSUME NEW X, NEW s \in Seq(X), NEW t \in Seq(X), NEW e \in X
  PROVE  s \o Append(t, e) = Append(s \o t, e)
<1>1. /\ Append(t, e) = t \o <<e>> /\ <<e>> \in Seq(X)
      /\ s \o t \in Seq(X) /\ Append(s \o t, e) = (s \o t) \o <<e>>
  BY AppendIsConcat, ConcatProperties
<1> QED
  BY <1>1, ConcatAssociative

LEMMA WithinConcat ==
  ASSUME NEW X, NEW s \in Seq(X), NEW t \in Seq(X), NEW S
  PROVE  Within(s \o t, S) = Within(s, S) \o Within(t, S)
<1> DEFINE u == s \o t
<1>1. /\ Len(s) \in Nat /\ Len(t) \in Nat
      /\ u \in Seq(X) /\ Len(u) = Len(s) + Len(t)
      /\ \A i \in 1 .. Len(s) : u[i] = s[i]
      /\ \A i \in 1 .. Len(t) : u[Len(s) + i] = t[i]
  BY Joined
<1> HIDE DEF u
<1>2. PICK f : Counts(f, s, S, X)
  BY WithinSteps
<1>3. PICK g : Counts(g, t, S, X)
  BY WithinSteps
<1>4. PICK h : Counts(h, u, S, X)
  BY <1>1, WithinSteps
<1> DEFINE w == f[Len(s)]
<1>5. w \in Seq(X)
  BY <1>1, <1>2 DEF Counts
<1>6. h[Len(s)] = w
  <2> DEFINE G == {n \in 0 .. Len(s) : h[n] = f[n]}
  <2>1. 0 \in G
    BY <1>1, <1>2, <1>4 DEF Counts
  <2>2. ASSUME NEW n \in 0 .. Len(s), n < Len(s), n \in G
        PROVE  n + 1 \in G
    <3>1. /\ n \in 0 .. Len(u) /\ n < Len(u)
          /\ n + 1 \in 1 .. Len(s) /\ n + 1 \in 0 .. Len(s)
      BY <1>1, <2>2
    <3>2. u[n + 1] = s[n + 1]
      BY <1>1, <3>1
    <3>3. f[n + 1] = IF s[n + 1] \in S THEN Append(f[n], s[n + 1]) ELSE f[n]
      BY <1>2, <2>2 DEF Counts
    <3>4. h[n + 1] = IF u[n + 1] \in S THEN Append(h[n], u[n + 1]) ELSE h[n]
      BY <1>4, <3>1 DEF Counts
    <3> QED
      BY <2>2, <3>1, <3>2, <3>3, <3>4
  <2> HIDE DEF G
  <2>3. \A n \in 0 .. Len(s) : n \in G
    BY <1>1, <2>1, <2>2, UpTo
  <2> QED
    BY <1>1, <2>3 DEF G
<1> HIDE DEF w
<1>7. h[Len(s) + Len(t)] = w \o g[Len(t)]
  <2> DEFINE G == {n \in 0 .. Len(t) : h[Len(s) + n] = w \o g[n]}
  <2>1. 0 \in G
    <3>1. w \o << >> = w
      BY <1>5, ConcatEmptySeq
    <3>2. Len(s) + 0 = Len(s) /\ 0 \in 0 .. Len(t)
      BY <1>1
    <3> QED
      BY <1>3, <1>6, <3>1, <3>2 DEF Counts
  <2>2. ASSUME NEW n \in 0 .. Len(t), n < Len(t), n \in G
        PROVE  n + 1 \in G
    <3> DEFINE m == Len(s) + n
               e == t[n + 1]
    <3>1. /\ m \in 0 .. Len(u) /\ m < Len(u) /\ n + 1 \in 1 .. Len(t)
          /\ m + 1 = Len(s) + (n + 1) /\ n + 1 \in 0 .. Len(t)
      BY <1>1, <2>2
    <3>2. u[m + 1] = e /\ e \in X
      BY <1>1, <3>1, ElementOfSeq
    <3>3. g[n + 1] = IF e \in S THEN Append(g[n], e) ELSE g[n]
      BY <1>3, <2>2 DEF Counts
    <3> HIDE DEF m, e
    <3>4. h[m + 1] = IF e \in S THEN Append(h[m], e) ELSE h[m]
      BY <1>4, <3>1, <3>2 DEF Counts
    <3>5. h[m] = w \o g[n]
      BY <2>2 DEF m
    <3>6. g[n] \in Seq(X)
      BY <1>3, <2>2 DEF Counts
    <3>7. w \o Append(g[n], e) = Append(w \o g[n], e)
      BY <1>5, <3>2, <3>6, AppendAcross
    <3>8. h[m + 1] = w \o g[n + 1]
      BY <3>3, <3>4, <3>5, <3>7
    <3> QED
      BY <3>1, <3>8
  <2> HIDE DEF G
  <2>3. \A n \in 0 .. Len(t) : n \in G
    BY <1>1, <2>1, <2>2, UpTo
  <2> QED
    BY <1>1, <2>3 DEF G
<1> QED
  BY <1>1, <1>2, <1>3, <1>4, <1>7 DEF Counts, u, w

LEMMA WithinAll ==
  ASSUME NEW X, NEW s \in Seq(X), NEW S, \A e \in Elements(s) : e \in S
  PROVE  Within(s, S) = s
<1>1. Len(s) \in Nat /\ \A i \in 1 .. Len(s) : s[i] \in S /\ s[i] \in X
  BY LenProperties, ElementOfSeq DEF Elements
<1>2. PICK f : Counts(f, s, S, X)
  BY WithinSteps
<1> DEFINE G == {n \in 0 .. Len(s) : f[n] = SubSeq(s, 1, n)}
<1>3. 0 \in G
  <2>1. SubSeq(s, 1, 0) = << >>
    BY SubSeqEmpty
  <2> QED
    BY <1>1, <1>2, <2>1 DEF Counts
<1>4. ASSUME NEW n \in 0 .. Len(s), n < Len(s), n \in G
      PROVE  n + 1 \in G
  <2> DEFINE m == n + 1
  <2>1. m \in 1 .. Len(s) /\ m \in 0 .. Len(s) /\ m - 1 = n /\ 1 \in 1 .. Len(s) /\ m \in 1 .. Len(s)
    BY <1>1, <1>4
  <2>2. f[m] = Append(f[n], s[m])
    BY <1>1, <1>2, <1>4, <2>1 DEF Counts
  <2> HIDE DEF m
  <2>3. SubSeq(s, 1, m) = SubSeq(s, 1, n) \o <<s[m]>>
    BY <2>1, SubSeqRecursiveSecond
  <2>4. Append(f[n], s[m]) = f[n] \o <<s[m]>>
    BY <1>1, <1>4, <2>1, AppendIsConcat
  <2>5. f[m] = SubSeq(s, 1, m)
    BY <1>4, <2>2, <2>3, <2>4
  <2> QED
    BY <2>1, <2>5 DEF m
<1> HIDE DEF G
<1>5. \A n \in 0 .. Len(s) : n \in G
  BY <1>1, <1>3, <1>4, UpTo
<1>6. f[Len(s)] = SubSeq(s, 1, Len(s))
  BY <1>1, <1>5 DEF G
<1> QED
  BY <1>2, <1>6, SubSeqFull DEF Counts

LEMMA WithinNone ==
  ASSUME NEW X, NEW s \in Seq(X), NEW S, \A e \in Elements(s) : e \notin S
  PROVE  Within(s, S) = << >>
<1>1. Len(s) \in Nat /\ \A i \in 1 .. Len(s) : s[i] \notin S
  BY LenProperties DEF Elements
<1>2. PICK f : Counts(f, s, S, X)
  BY WithinSteps
<1> DEFINE G == {n \in 0 .. Len(s) : f[n] = << >>}
<1>3. 0 \in G
  BY <1>1, <1>2 DEF Counts
<1>4. ASSUME NEW n \in 0 .. Len(s), n < Len(s), n \in G
      PROVE  n + 1 \in G
  <2>1. n + 1 \in 1 .. Len(s) /\ n + 1 \in 0 .. Len(s)
    BY <1>1, <1>4
  <2>2. f[n + 1] = f[n]
    BY <1>1, <1>2, <1>4, <2>1 DEF Counts
  <2> QED
    BY <1>4, <2>1, <2>2
<1> HIDE DEF G
<1>5. \A n \in 0 .. Len(s) : n \in G
  BY <1>1, <1>3, <1>4, UpTo
<1> QED
  BY <1>1, <1>2, <1>5 DEF Counts, G

-----------------------------------------------------------------------------
(* The invariant. *)

(* What a queue may hold. *)
Item == Event \cup {EndMarker}

(***************************************************************************)
(* The log of a snapshot carries the ids of its epoch, in their order.     *)
(***************************************************************************)
LogAscends(s) ==
  /\ \A i \in 1 .. Len(s.log) :
       s.log[i].id[1] = s.epoch /\ s.log[i].id[2] \in 2 .. s.revision
  /\ \A i, j \in 1 .. Len(s.log) : i < j => Before(s.log[i].id, s.log[j].id)

(* The cursor of one who has heard the first k events. *)
IdAt(s, k) == IF k = 0 THEN BaselineCursor(s.epoch) ELSE s.log[k].id

Evicted(s) == Len(s.log) - Len(s.ring.events)

(* The ring is the end of the log; both its cursors are positions in it. *)
RingEndsLog(s) ==
  /\ Len(s.ring.events) <= Len(s.log)
  /\ \A i \in 1 .. Len(s.ring.events) : s.ring.events[i] = s.log[Evicted(s) + i]
  /\ s.ring.evictedThrough = IdAt(s, Evicted(s))
  /\ s.ring.streamCursor = IdAt(s, Len(s.log))

GoodStore(s) ==
  /\ s \in Store /\ s.epoch >= 1 /\ s.revision >= 1
  /\ LogAscends(s) /\ RingEndsLog(s)

(* The first log is the beginning of the second. *)
Begins(s, t) == Len(s) <= Len(t) /\ \A i \in 1 .. Len(s) : s[i] = t[i]

(***************************************************************************)
(* The file never falls behind the memory: it is of the same epoch and has *)
(* the same events, and perhaps those of one commit more, or it is the     *)
(* seed of a later epoch.                                                  *)
(***************************************************************************)
DiskIsAhead ==
  /\ mem.epoch <= disk.epoch /\ disk.epoch <= epochsIssued
  /\ IF disk.epoch = mem.epoch THEN Begins(mem.log, disk.log)
                               ELSE disk.log = << >>

StoreInv ==
  /\ GoodStore(mem) /\ GoodStore(disk)
  /\ epochsIssued \in Nat /\ requests \in Nat /\ resetters \in Nat
  /\ DiskIsAhead

(* All that one who was told t, and has the subscriber s, will be told. *)
StreamOf(t, s) == (t \o s.wire) \o s.queue

Stream(c) == StreamOf(told[c], sub[c])

GoodSubscriber(s) ==
  /\ s \in Subscriber
  /\ Len(s.queue) <= s.maxsize
  /\ s.state = "off" => s = NoSubscriber

ClientTypes(c) ==
  /\ GoodSubscriber(sub[c])
  /\ cursor[c] \in EventIds /\ told[c] \in Seq(Event)

(* Nothing that a client has or will be told is of a later epoch. *)
NothingAhead(c) ==
  /\ cursor[c][1] <= mem.epoch
  /\ \A e \in Elements(Stream(c)) : e.id[1] <= mem.epoch

(* A live stream is the log; one that ends is the beginning of it. *)
Streams(c) ==
  /\ sub[c].state = "open" => Current(Stream(c)) = mem.log
  /\ sub[c].state = "closed" => Begins(Current(Stream(c)), mem.log)

(* Whoever holds a cursor of this epoch has heard the log up to it. *)
CursorIsPlace(c) ==
  cursor[c][1] = mem.epoch =>
    \E k \in 0 .. Len(mem.log) :
      cursor[c] = IdAt(mem, k) /\ Current(told[c]) = SubSeq(mem.log, 1, k)

ClientInv(c) == ClientTypes(c) /\ NothingAhead(c) /\ Streams(c) /\ CursorIsPlace(c)

Maps ==
  /\ sub = [c \in Clients |-> sub[c]]
  /\ cursor = [c \in Clients |-> cursor[c]]
  /\ told = [c \in Clients |-> told[c]]

StreamInv == StoreInv /\ Maps /\ \A c \in Clients : ClientInv(c)

-----------------------------------------------------------------------------
(* Events, logs and rings. *)

LEMMA Capacities ==
  /\ RingCapacity \in Nat /\ RingCapacity > 0
  /\ QueueCapacity \in Nat /\ MaxBatch \in Nat
BY StreamAssumption

LEMMA EventParts ==
  ASSUME NEW e \in Event
  PROVE  /\ e.id \in EventIds
         /\ e.id[1] \in Nat /\ e.id[2] \in Nat /\ e.id[3] \in Nat
         /\ e.id = <<e.id[1], e.id[2], e.id[3]>>
BY DEF Event, EventIds

LEMMA NoEpochAtEnd ==
  /\ EndMarker \notin Event /\ EndMarker \in Item
  /\ EndMarker.id[1] = 0
BY DEF EndMarker, Event, NoCursor, Item

LEMMA ItemParts ==
  ASSUME NEW e \in Item
  PROVE  e.id[1] \in Nat
BY EventParts, NoEpochAtEnd DEF Item

LEMMA EventsAreItems == \A s \in Seq(Event) : s \in Seq(Item)
BY SeqMonotonic DEF Item

LEMMA StoreParts ==
  ASSUME NEW s \in Store
  PROVE  /\ s.epoch \in Nat /\ s.revision \in Nat
         /\ s.log \in Seq(Event) /\ s.log \in Seq(Item) /\ Len(s.log) \in Nat
         /\ \A i \in 1 .. Len(s.log) : s.log[i] \in Event
         /\ s.ring \in Ring
         /\ s.ring.events \in Seq(Event) /\ Len(s.ring.events) \in Nat
         /\ s.ring.streamCursor \in EventIds /\ s.ring.evictedThrough \in EventIds
<1>1. /\ s.epoch \in Nat /\ s.revision \in Nat
      /\ s.log \in Seq(Event) /\ s.ring \in Ring
  BY DEF Store
<1>2. /\ s.ring.events \in Seq(Event)
      /\ s.ring.streamCursor \in EventIds /\ s.ring.evictedThrough \in EventIds
  BY <1>1 DEF Ring
<1> QED
  BY <1>1, <1>2, EventsAreItems, LenProperties, ElementOfSeq

LEMMA FreshIsGood ==
  ASSUME NEW e \in Nat, e >= 1
  PROVE  /\ GoodStore(Fresh(e)) /\ Fresh(e).epoch = e /\ Fresh(e).log = << >>
<1> DEFINE s == Fresh(e)
<1>1. /\ s.epoch = e /\ s.revision = 1 /\ s.log = << >> /\ s.ring = EmptyRing(e)
      /\ s = [epoch |-> s.epoch, revision |-> s.revision, ring |-> s.ring, log |-> s.log]
  BY DEF Fresh
<1>2. << >> \in Seq(Event) /\ Len(<< >>) = 0
  BY EmptySeq
<1>3. BaselineCursor(e) \in EventIds
  BY DEF BaselineCursor, EventIds
<1>4. s.ring \in Ring
  BY <1>1, <1>2, <1>3 DEF EmptyRing, Ring
<1> HIDE DEF s
<1>5. s \in Store
  <2>1. s.epoch \in Nat /\ s.revision \in Nat /\ s.log \in Seq(Event)
    BY <1>1, <1>2
  <2> QED
    BY <1>1, <1>4, <2>1 DEF Store
<1>6. LogAscends(s)
  BY <1>1, <1>2 DEF LogAscends
<1>7. RingEndsLog(s)
  BY <1>1, <1>2 DEF RingEndsLog, EmptyRing, IdAt, Evicted
<1>8. GoodStore(s)
  BY <1>1, <1>5, <1>6, <1>7 DEF GoodStore
<1> QED
  BY <1>1, <1>8 DEF s

(* What a commit of n events stores. *)
Batch(n, write) ==
  StoredEvents(mem.epoch, mem.revision + 1,
    [i \in 1 .. n |-> [entity |-> write, version |-> i]])

LEMMA BatchTyped ==
  ASSUME GoodStore(mem), NEW n \in Nat, n >= 1, NEW write \in {"synced", "unsynced"}
  PROVE  /\ Batch(n, write) \in Seq(Event) /\ Len(Batch(n, write)) = n
         /\ Batch(n, write) # << >>
         /\ \A i \in 1 .. n :
              Batch(n, write)[i].id = <<mem.epoch, mem.revision + 1, i>>
<1> DEFINE drafts == [i \in 1 .. n |-> [entity |-> write, version |-> i]]
           b      == Batch(n, write)
<1>1. drafts \in Seq([entity : {"synced", "unsynced"}, version : Nat]) /\ Len(drafts) = n
  OBVIOUS
<1>2. b = [i \in 1 .. n |-> [id      |-> <<mem.epoch, mem.revision + 1, i>>,
                             entity  |-> write,
                             version |-> i]]
  BY <1>1 DEF Batch, StoredEvents
<1>3. mem.epoch \in Nat /\ mem.revision + 1 \in Nat
  BY StoreParts DEF GoodStore
<1>4. \A i \in 1 .. n : b[i] \in Event
  BY <1>2, <1>3 DEF Event, EventIds
<1>5. b \in Seq(Event) /\ Len(b) = n
  BY <1>2, <1>4
<1>6. b # << >>
  BY <1>5, EmptySeq
<1>7. \A i \in 1 .. n : b[i].id = <<mem.epoch, mem.revision + 1, i>>
  BY <1>2
<1> QED
  BY <1>5, <1>6, <1>7

(* If old is the end of log, it still is when both have grown. *)
(* The end of log, from d on, is old. *)
EndsWith(log, old, d) ==
  Len(log) = d + Len(old) /\ \A i \in 1 .. Len(old) : old[i] = log[d + i]

LEMMA EndsGrow ==
  ASSUME NEW log \in Seq(Event), NEW old \in Seq(Event), NEW stored \in Seq(Event),
         stored # << >>, NEW d \in Nat, EndsWith(log, old, d)
  PROVE  /\ old \o stored \in Seq(Event) /\ log \o stored \in Seq(Event)
         /\ Len(old \o stored) = Len(old) + Len(stored)
         /\ Begins(log, log \o stored)
         /\ EndsWith(log \o stored, old \o stored, d)
         /\ (log \o stored)[Len(log) + Len(stored)] = stored[Len(stored)]
<1> DEFINE combined == old \o stored
           grown    == log \o stored
<1>1. /\ Len(old) \in Nat /\ Len(stored) \in Nat /\ Len(log) \in Nat
      /\ combined \in Seq(Event) /\ Len(combined) = Len(old) + Len(stored)
      /\ \A i \in 1 .. Len(old) : combined[i] = old[i]
      /\ \A i \in 1 .. Len(stored) : combined[Len(old) + i] = stored[i]
  BY Joined
<1>2. /\ grown \in Seq(Event) /\ Len(grown) = Len(log) + Len(stored)
      /\ \A i \in 1 .. Len(log) : grown[i] = log[i]
      /\ \A i \in 1 .. Len(stored) : grown[Len(log) + i] = stored[i]
  BY Joined
<1>0. Len(log) = d + Len(old) /\ \A i \in 1 .. Len(old) : old[i] = log[d + i]
  BY DEF EndsWith
<1> HIDE DEF combined, grown
<1>3. ASSUME NEW i \in 1 .. Len(combined) PROVE combined[i] = grown[d + i]
  <2>1. CASE i <= Len(old)
    <3>1. i \in 1 .. Len(old) /\ d + i \in 1 .. Len(log)
      BY <1>0, <1>1, <2>1
    <3> QED
      BY <1>0, <1>1, <1>2, <3>1
  <2>2. CASE i > Len(old)
    <3> DEFINE k == i - Len(old)
    <3>1. k \in 1 .. Len(stored) /\ i = Len(old) + k /\ d + i = Len(log) + k
      BY <1>0, <1>1, <2>2
    <3> HIDE DEF k
    <3>2. combined[i] = stored[k] /\ grown[d + i] = stored[k]
      BY <1>0, <1>1, <1>2, <3>1
    <3> QED
      BY <3>2
  <2> QED
    BY <1>1, <2>1, <2>2
<1>4. grown[Len(log) + Len(stored)] = stored[Len(stored)]
  <2>1. Len(stored) \in 1 .. Len(stored)
    BY EmptySeq
  <2> QED
    BY <1>2, <2>1
<1>5. Len(grown) = d + Len(combined)
  BY <1>0, <1>1, <1>2
<1>6. Begins(log, grown) /\ EndsWith(grown, combined, d)
  BY <1>1, <1>2, <1>3, <1>5 DEF Begins, EndsWith
<1> QED
  BY <1>1, <1>2, <1>4, <1>6 DEF combined, grown

LEMMA RingStaysEnd ==
  ASSUME NEW s, GoodStore(s), NEW stored \in Seq(Event), stored # << >>,
         NEW t, t.epoch = s.epoch, t.log = s.log \o stored,
         t.ring = AppendEvents(s.ring, stored, RingCapacity)
  PROVE  t.ring \in Ring /\ RingEndsLog(t)
<1> DEFINE log      == s.log
           grown    == t.log
           old      == s.ring.events
           kept     == t.ring.events
           combined == old \o stored
           surplus  == Len(combined) - RingCapacity
           d        == Evicted(s)
           before   == s.ring.evictedThrough
           evicted  == t.ring.evictedThrough
           newest   == t.ring.streamCursor
<1>1. /\ log \in Seq(Event) /\ Len(log) \in Nat
      /\ old \in Seq(Event) /\ Len(old) \in Nat
      /\ before \in EventIds
  BY StoreParts DEF GoodStore
<1>2. /\ d = Len(log) - Len(old) /\ Len(old) <= Len(log)
      /\ \A i \in 1 .. Len(old) : old[i] = log[d + i]
      /\ before = IdAt(s, d)
  BY DEF GoodStore, RingEndsLog, Evicted
<1>3. grown = log \o stored
  OBVIOUS
<1>4. t.ring = [events         |-> IF surplus > 0
                                   THEN SubSeq(combined, surplus + 1, Len(combined))
                                   ELSE combined,
                streamCursor   |-> stored[Len(stored)].id,
                evictedThrough |-> IF surplus > 0 THEN combined[surplus].id ELSE before]
  BY DEF AppendEvents
<1>5. /\ newest = stored[Len(stored)].id
      /\ kept = IF surplus > 0 THEN SubSeq(combined, surplus + 1, Len(combined)) ELSE combined
      /\ evicted = IF surplus > 0 THEN combined[surplus].id ELSE before
      /\ t.ring = [events |-> kept, streamCursor |-> newest, evictedThrough |-> evicted]
  <2> HIDE DEF combined, surplus, before
  <2> QED
    BY <1>4
<1>6. /\ \A k : IdAt(t, k) = IF k = 0 THEN BaselineCursor(s.epoch) ELSE grown[k].id
      /\ \A k : IdAt(s, k) = IF k = 0 THEN BaselineCursor(s.epoch) ELSE log[k].id
  BY DEF IdAt
<1>7. Evicted(t) = Len(grown) - Len(kept)
  BY DEF Evicted
<1>8. SUFFICES /\ kept \in Seq(Event) /\ newest \in EventIds /\ evicted \in EventIds
               /\ Len(kept) <= Len(grown)
               /\ \A i \in 1 .. Len(kept) : kept[i] = grown[Len(grown) - Len(kept) + i]
               /\ evicted = IdAt(t, Len(grown) - Len(kept))
               /\ newest = IdAt(t, Len(grown))
  BY <1>5, <1>7 DEF RingEndsLog, Ring
<1>9. surplus = Len(combined) - RingCapacity
  OBVIOUS
<1>10. combined = old \o stored
  OBVIOUS
<1> HIDE DEF log, grown, old, kept, combined, surplus, d, before, evicted, newest
<1>11. d \in Nat /\ Len(log) = d + Len(old)
  BY <1>1, <1>2
<1>12. /\ combined \in Seq(Event) /\ grown \in Seq(Event)
       /\ Len(combined) = Len(old) + Len(stored)
       /\ Len(grown) = d + Len(combined)
       /\ \A i \in 1 .. Len(log) : grown[i] = log[i]
       /\ grown[Len(log) + Len(stored)] = stored[Len(stored)]
       /\ \A i \in 1 .. Len(combined) : combined[i] = grown[d + i]
  <2>1. EndsWith(log, old, d)
    BY <1>2, <1>11 DEF EndsWith
  <2>2. /\ combined \in Seq(Event) /\ grown \in Seq(Event)
        /\ Len(combined) = Len(old) + Len(stored)
        /\ Begins(log, grown) /\ EndsWith(grown, combined, d)
        /\ grown[Len(log) + Len(stored)] = stored[Len(stored)]
    BY <1>1, <1>3, <1>10, <1>11, <2>1, EndsGrow
  <2> QED
    BY <2>2 DEF Begins, EndsWith
<1>13. Len(stored) \in Nat /\ Len(stored) >= 1
  BY EmptySeq
<1>14. surplus \in Int /\ surplus < Len(combined) /\ Len(combined) \in Nat
  BY <1>1, <1>9, <1>12, <1>13, Capacities
<1>15. newest = IdAt(t, Len(grown)) /\ newest \in EventIds
  <2>1. Len(stored) \in 1 .. Len(stored) /\ Len(grown) # 0
    BY <1>1, <1>11, <1>12, <1>13
  <2>2. grown[Len(grown)] = stored[Len(stored)] /\ stored[Len(stored)] \in Event
    BY <1>11, <1>12, <2>1, ElementOfSeq
  <2> QED
    BY <1>5, <1>6, <2>1, <2>2, EventParts
<1>16. CASE surplus > 0
  <2>1. /\ kept \in Seq(Event)
        /\ Len(kept) = Len(combined) - surplus
        /\ \A i \in 1 .. Len(combined) - surplus : kept[i] = combined[surplus + i]
    <3>1. \A i \in surplus + 1 .. Len(combined) : combined[i] \in Event
      BY <1>12, <1>14, <1>16, ElementOfSeq
    <3>2. kept = SubSeq(combined, surplus + 1, Len(combined))
      BY <1>5, <1>16
    <3> QED
      BY <1>14, <3>1, <3>2, SubSeqProperties
  <2>2. Len(grown) - Len(kept) = d + surplus
    BY <1>11, <1>12, <1>14, <2>1
  <2>3. surplus \in 1 .. Len(combined) /\ d + surplus # 0
    BY <1>11, <1>14, <1>16
  <2>4. combined[surplus] = grown[d + surplus] /\ combined[surplus] \in Event
    BY <1>12, <2>3, ElementOfSeq
  <2>5. evicted = IdAt(t, d + surplus) /\ evicted \in EventIds
    BY <1>5, <1>6, <1>16, <2>3, <2>4, EventParts
  <2>6. ASSUME NEW i \in 1 .. Len(kept)
        PROVE  kept[i] = grown[d + surplus + i]
    <3> DEFINE k == surplus + i
    <3>1. k \in 1 .. Len(combined) /\ d + k = d + surplus + i
      BY <1>11, <1>14, <1>16, <2>1
    <3>2. kept[i] = combined[k]
      BY <2>1
    <3> HIDE DEF k
    <3> QED
      BY <1>12, <3>1, <3>2
  <2>7. Len(kept) <= Len(grown)
    BY <1>11, <1>12, <1>14, <1>16, <2>1
  <2> QED
    BY <1>15, <2>1, <2>2, <2>5, <2>6, <2>7
<1>17. CASE ~ surplus > 0
  <2>1. kept = combined /\ evicted = before
    BY <1>5, <1>17
  <2>2. Len(grown) - Len(kept) = d /\ Len(kept) <= Len(grown)
    <3>1. Len(kept) \in Nat /\ Len(grown) = d + Len(kept)
      BY <1>12, <1>14, <2>1
    <3> QED
      BY <1>11, <3>1
  <2>3. IdAt(t, d) = IdAt(s, d)
    <3>1. CASE d = 0
      BY <1>6, <3>1
    <3>2. CASE d # 0
      <4>1. d \in 1 .. Len(log)
        BY <1>1, <1>11, <3>2
      <4>2. grown[d] = log[d]
        BY <1>12, <4>1
      <4>3. IdAt(t, d) = grown[d].id /\ IdAt(s, d) = log[d].id
        BY <1>6, <3>2
      <4> QED
        BY <4>2, <4>3
    <3> QED
      BY <3>1, <3>2
  <2> QED
    BY <1>1, <1>2, <1>12, <1>15, <2>1, <2>2, <2>3
<1> QED
  BY <1>16, <1>17

LEMMA BeginsFacts ==
  ASSUME NEW X, NEW s \in Seq(X)
  PROVE  /\ Begins(s, s) /\ Begins(<< >>, s)
         /\ \A t \in Seq(X) : Begins(s, s \o t)
         /\ \A t \in Seq(X) : \A u : Begins(s, t) /\ Begins(t, u) => Begins(s, u)
<1>1. Len(s) \in Nat /\ Len(<< >>) = 0
  BY LenProperties, EmptySeq
<1>2. Begins(s, s) /\ Begins(<< >>, s)
  BY <1>1 DEF Begins
<1>3. ASSUME NEW t \in Seq(X) PROVE Begins(s, s \o t)
  <2>1. /\ Len(s \o t) = Len(s) + Len(t) /\ Len(t) \in Nat
        /\ \A i \in 1 .. Len(s) : (s \o t)[i] = s[i]
    BY Joined
  <2> QED
    BY <1>1, <2>1 DEF Begins
<1>4. ASSUME NEW t \in Seq(X), NEW u, Begins(s, t), Begins(t, u)
      PROVE  Begins(s, u)
  <2>1. Len(s) <= Len(t) /\ Len(t) <= Len(u) /\ Len(t) \in Nat
    BY <1>4, LenProperties DEF Begins
  <2>2. Len(s) <= Len(u)
    <3>1. CASE Len(u) \in Int
      BY <1>1, <2>1, <3>1
    <3>2. CASE Len(u) \notin Int
      BY <1>1, <2>1, <3>2
    <3> QED
      BY <3>1, <3>2
  <2> QED
    BY <1>1, <1>4, <2>1, <2>2 DEF Begins
<1> QED
  BY <1>2, <1>3, <1>4

LEMMA CommittedIsGood ==
  ASSUME GoodStore(mem), NEW n \in Nat, n >= 1, NEW write \in {"synced", "unsynced"}
  PROVE  /\ GoodStore(Committed(n, write))
         /\ Committed(n, write).epoch = mem.epoch
         /\ Committed(n, write).log = mem.log \o Batch(n, write)
         /\ NewEvents(Committed(n, write)) = Batch(n, write)
<1> DEFINE t     == Committed(n, write)
           b     == Batch(n, write)
           log   == mem.log
           grown == t.log
           r     == mem.revision
<1>1. /\ b \in Seq(Event) /\ Len(b) = n /\ b # << >>
      /\ \A i \in 1 .. n : b[i].id = <<mem.epoch, r + 1, i>>
  BY BatchTyped
<1>2. /\ mem \in Store /\ mem.epoch \in Nat /\ mem.epoch >= 1 /\ r \in Nat /\ r >= 1
      /\ log \in Seq(Event) /\ Len(log) \in Nat
  BY StoreParts DEF GoodStore
<1>3. /\ \A i \in 1 .. Len(log) : log[i].id[1] = mem.epoch /\ log[i].id[2] \in 2 .. r
      /\ \A i, j \in 1 .. Len(log) : i < j => Before(log[i].id, log[j].id)
  BY DEF GoodStore, LogAscends
<1>4. /\ t = [epoch |-> t.epoch, revision |-> t.revision, ring |-> t.ring, log |-> t.log]
      /\ t.epoch = mem.epoch /\ t.revision = r + 1
      /\ t.ring = AppendEvents(mem.ring, b, RingCapacity) /\ grown = log \o b
  BY DEF Committed, Batch
<1>5. NewEvents(t) = SubSeq(grown, Len(log) + 1, Len(grown))
  BY DEF NewEvents
<1> HIDE DEF t, b
<1>6. t.ring \in Ring /\ RingEndsLog(t)
  BY <1>1, <1>4, RingStaysEnd
<1> HIDE DEF log, grown, r
<1>7. /\ grown \in Seq(Event) /\ Len(grown) = Len(log) + n
      /\ \A i \in 1 .. Len(log) : grown[i] = log[i]
      /\ \A i \in 1 .. n : grown[Len(log) + i] = b[i]
  <2>1. /\ grown \in Seq(Event) /\ Len(grown) = Len(log) + Len(b)
        /\ \A i \in 1 .. Len(log) : grown[i] = log[i]
        /\ \A i \in 1 .. Len(b) : grown[Len(log) + i] = b[i]
    <3>1. b \in Seq(Event) /\ log \in Seq(Event) /\ grown = log \o b
      BY <1>1, <1>2, <1>4
    <3> QED
      BY <3>1, Joined
  <2> QED
    BY <1>1, <2>1
<1>8. t \in Store
  <2>1. t.epoch \in Nat /\ t.revision \in Nat /\ t.log \in Seq(Event)
    BY <1>2, <1>4, <1>7 DEF grown
  <2> QED
    BY <1>4, <1>6, <2>1 DEF Store
<1>9. \A i \in 1 .. Len(grown) :
        \/ i \in 1 .. Len(log) /\ grown[i].id = log[i].id
        \/ i \notin 1 .. Len(log) /\ grown[i].id = <<mem.epoch, r + 1, i - Len(log)>>
  <2> TAKE i \in 1 .. Len(grown)
  <2>1. CASE i <= Len(log)
    BY <1>2, <1>7, <2>1
  <2>2. CASE i > Len(log)
    <3> DEFINE k == i - Len(log)
    <3>1. k \in 1 .. n /\ i = Len(log) + k /\ i \notin 1 .. Len(log)
      BY <1>2, <1>7, <2>2
    <3> HIDE DEF k
    <3>2. grown[i].id = <<mem.epoch, r + 1, k>>
      BY <1>1, <1>7, <3>1
    <3> QED
      BY <3>1, <3>2 DEF k
  <2> QED
    BY <1>2, <1>7, <2>1, <2>2
<1>10. LogAscends(t)
  <2>1. ASSUME NEW i \in 1 .. Len(grown)
        PROVE  grown[i].id[1] = mem.epoch /\ grown[i].id[2] \in 2 .. r + 1
    <3>1. CASE i \in 1 .. Len(log)
      <4>1. grown[i].id = log[i].id
        BY <1>9, <3>1
      <4>2. log[i].id[1] = mem.epoch /\ log[i].id[2] \in 2 .. r
        BY <1>3, <3>1
      <4> QED
        BY <1>2, <4>1, <4>2
    <3>2. CASE i \notin 1 .. Len(log)
      <4>1. grown[i].id = <<mem.epoch, r + 1, i - Len(log)>>
        BY <1>9, <2>1, <3>2
      <4> QED
        BY <1>2, <4>1
    <3> QED
      BY <3>1, <3>2
  <2>2. ASSUME NEW i \in 1 .. Len(grown), NEW j \in 1 .. Len(grown), i < j
        PROVE  Before(grown[i].id, grown[j].id)
    <3>1. CASE j \in 1 .. Len(log)
      <4>1. i \in 1 .. Len(log)
        BY <1>2, <1>7, <2>2, <3>1
      <4> QED
        BY <1>3, <1>9, <2>2, <3>1, <4>1
    <3>2. CASE j \notin 1 .. Len(log) /\ i \in 1 .. Len(log)
      <4>1. grown[i].id[2] \in 2 .. r /\ grown[j].id[2] = r + 1
        BY <1>3, <1>9, <3>2
      <4> QED
        BY <1>2, <4>1 DEF Before
    <3>3. CASE j \notin 1 .. Len(log) /\ i \notin 1 .. Len(log)
      <4>1. /\ grown[i].id[2] = r + 1 /\ grown[i].id[3] = i - Len(log)
            /\ grown[j].id[2] = r + 1 /\ grown[j].id[3] = j - Len(log)
        BY <1>9, <3>3
      <4> QED
        BY <1>2, <1>7, <2>2, <4>1 DEF Before
    <3> QED
      BY <3>1, <3>2, <3>3
  <2> QED
    BY <1>4, <2>1, <2>2 DEF LogAscends, grown
<1>11. SubSeq(grown, Len(log) + 1, Len(grown)) = b
  <2>1. /\ Len(log) + 1 \in Len(log) + 1 .. Len(log) + Len(b)
        /\ Len(grown) \in Len(log) + 1 .. Len(log) + Len(b)
        /\ (Len(log) + 1) - Len(log) = 1 /\ Len(grown) - Len(log) = Len(b)
    BY <1>1, <1>2, <1>7
  <2>2. SubSeq(grown, Len(log) + 1, Len(grown)) = SubSeq(b, 1, Len(b))
    BY <1>1, <1>2, <1>4, <2>1, SubSeqOfConcat2
  <2> QED
    BY <1>1, <2>2, SubSeqFull
<1>12. GoodStore(t)
  BY <1>2, <1>4, <1>6, <1>8, <1>10 DEF GoodStore
<1> QED
  BY <1>4, <1>5, <1>11, <1>12 DEF t, b, log, grown

-----------------------------------------------------------------------------
(* Memory and file. *)

LogGoesOn == mem'.epoch = mem.epoch /\ Begins(mem.log, mem'.log)

EpochTurns == mem'.epoch > mem.epoch /\ mem'.log = << >>

LEMMA InitStore == Init => StoreInv
<1> SUFFICES ASSUME Init PROVE StoreInv
  OBVIOUS
<1>1. /\ mem = Fresh(1) /\ disk = Fresh(1)
      /\ epochsIssued = 1 /\ requests = 0 /\ resetters = 0
  BY DEF Init
<1>2. GoodStore(mem) /\ GoodStore(disk) /\ mem.epoch = 1 /\ disk.epoch = 1
  BY <1>1, FreshIsGood
<1>3. mem.log \in Seq(Event) /\ disk.log = mem.log
  BY <1>1, <1>2, StoreParts DEF GoodStore
<1>4. DiskIsAhead
  BY <1>1, <1>2, <1>3, BeginsFacts DEF DiskIsAhead
<1> QED
  BY <1>1, <1>2, <1>4 DEF StoreInv

LEMMA CommitStore == StoreInv /\ Commit => StoreInv' /\ LogGoesOn
<1> SUFFICES ASSUME StoreInv, Commit PROVE StoreInv' /\ LogGoesOn
  OBVIOUS
<1>1. /\ GoodStore(mem) /\ mem \in Store /\ mem.log \in Seq(Event)
      /\ UNCHANGED <<epochsIssued, requests, resetters>>
      /\ mem.epoch <= epochsIssued /\ mem.epoch \in Nat /\ epochsIssued \in Nat
  BY StoreParts DEF StoreInv, GoodStore, Commit, DiskIsAhead
<1>2. PICK n \in 1 .. MaxBatch :
        \/ mem' = Committed(n, "synced") /\ disk' = mem'
        \/ disk' = Committed(n, "unsynced") /\ mem' = mem
  BY DEF Commit
<1>3. n \in Nat /\ n >= 1
  BY Capacities
<1>4. \A w \in {"synced", "unsynced"} :
        /\ GoodStore(Committed(n, w)) /\ Committed(n, w).epoch = mem.epoch
        /\ Begins(mem.log, Committed(n, w).log) /\ Committed(n, w).log \in Seq(Event)
  <2> TAKE w \in {"synced", "unsynced"}
  <2>1. /\ GoodStore(Committed(n, w)) /\ Committed(n, w).epoch = mem.epoch
        /\ Committed(n, w).log = mem.log \o Batch(n, w)
    BY <1>1, <1>3, CommittedIsGood
  <2>2. Batch(n, w) \in Seq(Event)
    BY <1>1, <1>3, BatchTyped
  <2>3. Begins(mem.log, mem.log \o Batch(n, w))
    BY <1>1, <2>2, BeginsFacts
  <2>4. Committed(n, w) \in Store
    BY <2>1 DEF GoodStore
  <2> QED
    BY <2>1, <2>3, <2>4, StoreParts
<1>5. /\ GoodStore(mem') /\ GoodStore(disk')
      /\ mem'.epoch = mem.epoch /\ disk'.epoch = mem'.epoch
      /\ Begins(mem.log, mem'.log) /\ Begins(mem'.log, disk'.log)
  <2>1. CASE mem' = Committed(n, "synced") /\ disk' = mem'
    BY <1>4, <2>1, BeginsFacts
  <2>2. CASE disk' = Committed(n, "unsynced") /\ mem' = mem
    BY <1>1, <1>4, <2>2, BeginsFacts
  <2> QED
    BY <1>2, <2>1, <2>2
<1>6. StoreInv'
  BY <1>1, <1>5 DEF StoreInv, DiskIsAhead
<1> QED
  BY <1>5, <1>6 DEF LogGoesOn

LEMMA ReseedStore ==
  ASSUME StoreInv, Reseed, requests' \in Nat, resetters' \in Nat
  PROVE  StoreInv' /\ (mem' = mem \/ EpochTurns)
<1> DEFINE fresh == Fresh(epochsIssued + 1)
<1>1. /\ epochsIssued \in Nat /\ epochsIssued' = epochsIssued + 1
      /\ GoodStore(mem) /\ GoodStore(disk) /\ DiskIsAhead
      /\ mem.epoch \in Nat /\ disk.epoch \in Nat
      /\ mem.epoch <= disk.epoch /\ disk.epoch <= epochsIssued
  BY StoreParts DEF StoreInv, GoodStore, DiskIsAhead, Reseed
<1>2. GoodStore(fresh) /\ fresh.epoch = epochsIssued + 1 /\ fresh.log = << >>
  BY <1>1, FreshIsGood
<1>3. /\ fresh.log \in Seq(Event) /\ Begins(fresh.log, fresh.log)
  BY <1>2, BeginsFacts, StoreParts DEF GoodStore
<1>4. \/ mem' = fresh /\ disk' = fresh
      \/ disk' = fresh /\ mem' = mem
      \/ mem' = mem /\ disk' = disk
  BY DEF Reseed
<1> HIDE DEF fresh
<1>5. CASE mem' = fresh /\ disk' = fresh
  BY <1>1, <1>2, <1>3, <1>5 DEF StoreInv, DiskIsAhead, EpochTurns
<1>6. CASE disk' = fresh /\ mem' = mem
  <2>1. disk'.epoch # mem'.epoch /\ mem'.epoch <= disk'.epoch /\ disk'.epoch <= epochsIssued'
    BY <1>1, <1>2, <1>6
  <2> QED
    BY <1>1, <1>2, <1>6, <2>1 DEF StoreInv, DiskIsAhead
<1>7. CASE mem' = mem /\ disk' = disk
  <2>1. DiskIsAhead'
    BY <1>1, <1>7 DEF DiskIsAhead
  <2> QED
    BY <1>1, <1>7, <2>1 DEF StoreInv
<1> QED
  BY <1>4, <1>5, <1>6, <1>7

LEMMA RestartStore == StoreInv /\ Restart => StoreInv' /\ (LogGoesOn \/ EpochTurns)
<1> SUFFICES ASSUME StoreInv, Restart PROVE StoreInv' /\ (LogGoesOn \/ EpochTurns)
  OBVIOUS
<1>1. /\ mem' = disk /\ disk' = disk /\ epochsIssued' = epochsIssued
      /\ requests' = 0 /\ resetters' = 0
      /\ GoodStore(disk) /\ epochsIssued \in Nat /\ DiskIsAhead
  BY DEF Restart, StoreInv
<1>2. /\ mem.epoch \in Nat /\ disk.epoch \in Nat
      /\ mem.epoch <= disk.epoch /\ disk.epoch <= epochsIssued
      /\ disk.log \in Seq(Event)
  BY <1>1, StoreParts DEF StoreInv, GoodStore, DiskIsAhead
<1>3. Begins(disk.log, disk.log)
  BY <1>2, BeginsFacts
<1>4. StoreInv'
  BY <1>1, <1>2, <1>3 DEF StoreInv, DiskIsAhead
<1> QED
  BY <1>1, <1>2, <1>4 DEF DiskIsAhead, LogGoesOn, EpochTurns

LEMMA SameStore ==
  ASSUME StoreInv, UNCHANGED <<mem, disk, epochsIssued>>,
         requests' \in Nat, resetters' \in Nat
  PROVE  StoreInv' /\ LogGoesOn
<1>1. mem.log \in Seq(Event)
  BY StoreParts DEF StoreInv, GoodStore
<1>2. Begins(mem.log, mem.log)
  BY <1>1, BeginsFacts
<1>3. DiskIsAhead'
  BY DEF StoreInv, DiskIsAhead
<1> QED
  BY <1>2, <1>3 DEF StoreInv, LogGoesOn

-----------------------------------------------------------------------------
(* What a client has of an epoch. *)

OfEpoch(s, epoch) == Within(s, {e \in Event : e.id[1] = epoch})

LEMMA CurrentIsOfEpoch ==
  /\ \A s : Current(s) = OfEpoch(s, mem.epoch)
BY DEF Current, OfEpoch

LEMMA ElementsJoined ==
  ASSUME NEW X, NEW s \in Seq(X), NEW t \in Seq(X)
  PROVE  Elements(s \o t) = Elements(s) \cup Elements(t)
<1> DEFINE u == s \o t
<1>1. /\ Len(s) \in Nat /\ Len(t) \in Nat /\ Len(u) = Len(s) + Len(t)
      /\ \A i \in 1 .. Len(s) : u[i] = s[i]
      /\ \A i \in 1 .. Len(t) : u[Len(s) + i] = t[i]
  BY Joined
<1> HIDE DEF u
<1>2. ASSUME NEW x \in Elements(u) PROVE x \in Elements(s) \cup Elements(t)
  <2>1. PICK i \in 1 .. Len(u) : x = u[i]
    BY DEF Elements
  <2>2. CASE i <= Len(s)
    BY <1>1, <2>1, <2>2 DEF Elements
  <2>3. CASE i > Len(s)
    <3> DEFINE k == i - Len(s)
    <3>1. k \in 1 .. Len(t) /\ i = Len(s) + k
      BY <1>1, <2>3
    <3> HIDE DEF k
    <3> QED
      BY <1>1, <2>1, <3>1 DEF Elements
  <2> QED
    BY <1>1, <2>2, <2>3
<1>3. ASSUME NEW x \in Elements(s) PROVE x \in Elements(u)
  <2>1. PICK i \in 1 .. Len(s) : x = s[i]
    BY DEF Elements
  <2>2. i \in 1 .. Len(u) /\ x = u[i]
    BY <1>1, <2>1
  <2> QED
    BY <2>2 DEF Elements
<1>4. ASSUME NEW x \in Elements(t) PROVE x \in Elements(u)
  <2>1. PICK i \in 1 .. Len(t) : x = t[i]
    BY DEF Elements
  <2>2. Len(s) + i \in 1 .. Len(u) /\ x = u[Len(s) + i]
    BY <1>1, <2>1
  <2> QED
    BY <2>2 DEF Elements
<1> QED
  BY <1>2, <1>3, <1>4 DEF u

LEMMA ElementsOfPart ==
  ASSUME NEW X, NEW s \in Seq(X), NEW i \in Nat, i >= 1, NEW j \in Nat, j <= Len(s)
  PROVE  SubSeq(s, i, j) \in Seq(X) /\ Elements(SubSeq(s, i, j)) \subseteq Elements(s)
<1>1. Len(s) \in Nat /\ \A k \in i .. j : s[k] \in X
  BY LenProperties, ElementOfSeq
<1>2. /\ SubSeq(s, i, j) \in Seq(X)
      /\ Len(SubSeq(s, i, j)) = IF i <= j THEN j - i + 1 ELSE 0
      /\ \A k \in 1 .. j - i + 1 : SubSeq(s, i, j)[k] = s[i + k - 1]
  BY <1>1, SubSeqProperties
<1>3. ASSUME NEW x \in Elements(SubSeq(s, i, j)) PROVE x \in Elements(s)
  <2>1. PICK k \in 1 .. Len(SubSeq(s, i, j)) : x = SubSeq(s, i, j)[k]
    BY DEF Elements
  <2>2. k \in 1 .. j - i + 1 /\ i + k - 1 \in 1 .. Len(s)
    BY <1>1, <1>2
  <2>3. x = s[i + k - 1]
    BY <1>2, <2>1, <2>2
  <2> QED
    BY <2>2, <2>3 DEF Elements
<1> QED
  BY <1>2, <1>3

LEMMA OfEpochType ==
  ASSUME NEW s \in Seq(Item), NEW epoch
  PROVE  OfEpoch(s, epoch) \in Seq(Item)
BY WithinType DEF OfEpoch

LEMMA OfEpochJoined ==
  ASSUME NEW s \in Seq(Item), NEW t \in Seq(Item), NEW epoch
  PROVE  OfEpoch(s \o t, epoch) = OfEpoch(s, epoch) \o OfEpoch(t, epoch)
BY WithinConcat DEF OfEpoch

LEMMA OfEpochAll ==
  ASSUME NEW s \in Seq(Event), NEW epoch, \A e \in Elements(s) : e.id[1] = epoch
  PROVE  OfEpoch(s, epoch) = s
<1>1. Elements(s) \subseteq Event
  BY ElementOfSeq DEF Elements
<1>2. \A e \in Elements(s) : e \in {x \in Event : x.id[1] = epoch}
  BY <1>1
<1> QED
  BY <1>2, WithinAll DEF OfEpoch

LEMMA OfEpochNone ==
  ASSUME NEW s \in Seq(Item), NEW epoch, \A e \in Elements(s) : e.id[1] # epoch
  PROVE  OfEpoch(s, epoch) = << >>
<1>1. \A e \in Elements(s) : e \notin {x \in Event : x.id[1] = epoch}
  OBVIOUS
<1> QED
  BY <1>1, WithinNone DEF OfEpoch

(* The events of the log and of a commit are all of the epoch. *)
LEMMA LogOfEpoch ==
  ASSUME NEW s, GoodStore(s), NEW k \in 0 .. Len(s.log)
  PROVE  /\ s.log \in Seq(Event) /\ s.log \in Seq(Item)
         /\ SubSeq(s.log, 1, k) \in Seq(Event)
         /\ OfEpoch(s.log, s.epoch) = s.log
         /\ OfEpoch(SubSeq(s.log, 1, k), s.epoch) = SubSeq(s.log, 1, k)
<1>1. /\ s.log \in Seq(Event) /\ s.log \in Seq(Item) /\ Len(s.log) \in Nat
      /\ \A i \in 1 .. Len(s.log) : s.log[i].id[1] = s.epoch
  BY StoreParts DEF GoodStore, LogAscends
<1>2. \A e \in Elements(s.log) : e.id[1] = s.epoch
  BY <1>1 DEF Elements
<1>3. /\ SubSeq(s.log, 1, k) \in Seq(Event)
      /\ Elements(SubSeq(s.log, 1, k)) \subseteq Elements(s.log)
  BY <1>1, ElementsOfPart
<1> QED
  BY <1>1, <1>2, <1>3, OfEpochAll

LEMMA BatchOfEpoch ==
  ASSUME GoodStore(mem), NEW n \in Nat, n >= 1, NEW write \in {"synced", "unsynced"}
  PROVE  \A e \in Elements(Batch(n, write)) : e.id[1] = mem.epoch
BY BatchTyped DEF Elements

LEMMA SubscriberParts ==
  ASSUME NEW s \in Subscriber
  PROVE  /\ s.state \in {"off", "open", "closed"} /\ s.epoch \in Nat /\ s.maxsize \in Nat
         /\ s.queue \in Seq(Item) /\ Len(s.queue) \in Nat
         /\ s.wire \in Seq(Event) /\ s.wire \in Seq(Item) /\ Len(s.wire) \in Nat
         /\ s = [state |-> s.state, epoch |-> s.epoch, maxsize |-> s.maxsize,
                 queue |-> s.queue, wire |-> s.wire]
<1>1. /\ s.state \in {"off", "open", "closed"} /\ s.epoch \in Nat /\ s.maxsize \in Nat
      /\ s.queue \in Seq(Item) /\ s.wire \in Seq(Event)
      /\ s = [state |-> s.state, epoch |-> s.epoch, maxsize |-> s.maxsize,
              queue |-> s.queue, wire |-> s.wire]
  BY DEF Subscriber, Item
<1> QED
  BY <1>1, EventsAreItems, LenProperties

LEMMA ItemsAssociate ==
  \A p, q, r \in Seq(Item) : (p \o q) \o r = p \o (q \o r)
BY ConcatAssociative

LEMMA StreamParts ==
  ASSUME NEW t \in Seq(Event), NEW s \in Subscriber
  PROVE  /\ StreamOf(t, s) \in Seq(Item)
         /\ Elements(StreamOf(t, s)) = Elements(t) \cup Elements(s.wire) \cup Elements(s.queue)
         /\ \A epoch : OfEpoch(StreamOf(t, s), epoch)
              = (OfEpoch(t, epoch) \o OfEpoch(s.wire, epoch)) \o OfEpoch(s.queue, epoch)
<1>1. t \in Seq(Item) /\ s.wire \in Seq(Item) /\ s.queue \in Seq(Item)
  BY SubscriberParts, EventsAreItems
<1> DEFINE w    == s.wire
           head == t \o w
           tail == s.queue
<1> HIDE DEF w
<1>2. /\ head \in Seq(Item)
      /\ Elements(head) = Elements(t) \cup Elements(w)
      /\ \A epoch : OfEpoch(head, epoch) = OfEpoch(t, epoch) \o OfEpoch(w, epoch)
  <2>1. w \in Seq(Item)
    BY <1>1 DEF w
  <2>2. head \in Seq(Item)
    BY <1>1, <2>1, Joined
  <2>3. Elements(head) = Elements(t) \cup Elements(w)
    BY <1>1, <2>1, ElementsJoined
  <2>4. \A epoch : OfEpoch(head, epoch) = OfEpoch(t, epoch) \o OfEpoch(w, epoch)
    BY <1>1, <2>1, OfEpochJoined
  <2> QED
    BY <2>2, <2>3, <2>4
<1>3. StreamOf(t, s) = head \o tail /\ tail \in Seq(Item)
  BY <1>1 DEF StreamOf, w
<1> HIDE DEF head, tail
<1>4. /\ head \o tail \in Seq(Item)
      /\ Elements(head \o tail) = Elements(head) \cup Elements(tail)
      /\ \A epoch : OfEpoch(head \o tail, epoch) = OfEpoch(head, epoch) \o OfEpoch(tail, epoch)
  BY <1>2, <1>3, Joined, ElementsJoined, OfEpochJoined
<1> QED
  BY <1>2, <1>3, <1>4 DEF w, tail

(* Of an epoch that comes after all of them, a sequence has nothing. *)
LEMMA OlderIsGone ==
  ASSUME NEW s \in Seq(Item), NEW old \in Nat, NEW new \in Nat, new > old,
         \A e \in Elements(s) : e.id[1] <= old
  PROVE  OfEpoch(s, new) = << >>
<1>1. \A e \in Elements(s) : e \in Item
  BY ElementOfSeq DEF Elements
<1>2. ASSUME NEW e \in Elements(s) PROVE e.id[1] # new
  BY <1>1, ItemParts
<1> QED
  BY <1>2, OfEpochNone

(* The invariant's parts, before and after a step. *)
LEMMA ClientNow ==
  ASSUME NEW c
  PROVE  /\ Streams(c) =
              /\ sub[c].state = "open" => OfEpoch(Stream(c), mem.epoch) = mem.log
              /\ sub[c].state = "closed" =>
                   Begins(OfEpoch(Stream(c), mem.epoch), mem.log)
         /\ CursorIsPlace(c) =
              (cursor[c][1] = mem.epoch =>
                 \E k \in 0 .. Len(mem.log) :
                   /\ cursor[c] = IdAt(mem, k)
                   /\ OfEpoch(told[c], mem.epoch) = SubSeq(mem.log, 1, k))
BY DEF Streams, CursorIsPlace, Current, OfEpoch

LEMMA ClientThen ==
  ASSUME NEW c
  PROVE  /\ Streams(c)' =
              /\ sub'[c].state = "open" => OfEpoch(Stream(c)', mem'.epoch) = mem'.log
              /\ sub'[c].state = "closed" =>
                   Begins(OfEpoch(Stream(c)', mem'.epoch), mem'.log)
         /\ CursorIsPlace(c)' =
              (cursor'[c][1] = mem'.epoch =>
                 \E k \in 0 .. Len(mem'.log) :
                   /\ cursor'[c] = IdAt(mem', k)
                   /\ OfEpoch(told'[c], mem'.epoch) = SubSeq(mem'.log, 1, k))
BY DEF Streams, CursorIsPlace, Current, OfEpoch

LEMMA StreamThen == \A c : Stream(c)' = StreamOf(told'[c], sub'[c])
BY DEF Stream, StreamOf

LEMMA SamePart ==
  ASSUME NEW s \in Seq(Event), NEW t \in Seq(Event), Begins(s, t), NEW k \in 0 .. Len(s)
  PROVE  k \in 0 .. Len(t) /\ SubSeq(s, 1, k) = SubSeq(t, 1, k)
<1>1. Len(s) \in Nat /\ Len(t) \in Nat
  BY LenProperties
<1>2. \A i \in 1 .. k : s[i] = t[i] /\ s[i] \in Event /\ t[i] \in Event
  BY <1>1, ElementOfSeq DEF Begins
<1> DEFINE u == SubSeq(s, 1, k)
           v == SubSeq(t, 1, k)
<1>3. /\ u \in Seq(Event) /\ v \in Seq(Event) /\ Len(u) = k /\ Len(v) = k
      /\ \A i \in 1 .. k : u[i] = s[i] /\ v[i] = t[i]
  BY <1>1, <1>2, SubSeqProperties DEF Begins
<1> HIDE DEF u, v
<1>4. u = v
  BY <1>2, <1>3, SeqEqual
<1> QED
  BY <1>1, <1>4 DEF Begins, u, v

LEMMA StoreNow ==
  ASSUME StoreInv
  PROVE  /\ mem \in Store /\ mem.epoch \in Nat /\ mem.epoch >= 1
         /\ mem.log \in Seq(Event) /\ mem.log \in Seq(Item) /\ Len(mem.log) \in Nat
         /\ LogAscends(mem) /\ RingEndsLog(mem) /\ GoodStore(mem)
BY StoreParts DEF StoreInv, GoodStore

LEMMA StoreThen ==
  ASSUME StoreInv'
  PROVE  /\ mem' \in Store /\ mem'.epoch \in Nat /\ mem'.epoch >= 1
         /\ mem'.log \in Seq(Event) /\ mem'.log \in Seq(Item) /\ Len(mem'.log) \in Nat
         /\ GoodStore(mem')
BY StoreParts DEF StoreInv, GoodStore

LEMMA ClientParts ==
  ASSUME NEW c, ClientTypes(c)
  PROVE  /\ sub[c] \in Subscriber /\ told[c] \in Seq(Event) /\ told[c] \in Seq(Item)
         /\ cursor[c] \in EventIds /\ cursor[c][1] \in Nat
         /\ Stream(c) \in Seq(Item)
         /\ Elements(Stream(c))
              = Elements(told[c]) \cup Elements(sub[c].wire) \cup Elements(sub[c].queue)
<1>1. /\ sub[c] \in Subscriber /\ told[c] \in Seq(Event) /\ told[c] \in Seq(Item)
      /\ cursor[c] \in EventIds
  BY EventsAreItems DEF ClientTypes, GoodSubscriber
<1>2. cursor[c][1] \in Nat
  BY <1>1 DEF EventIds
<1> QED
  BY <1>1, <1>2, StreamParts DEF Stream

(* A position is one in every later log of the epoch, and none in a new epoch. *)
LEMMA PlaceStays ==
  ASSUME StoreInv, StoreInv', NEW c \in Clients, ClientInv(c), LogGoesOn \/ EpochTurns,
         cursor'[c] = cursor[c], told'[c] = told[c]
  PROVE  CursorIsPlace(c)'
<1>1. /\ mem.epoch \in Nat /\ mem'.epoch \in Nat
      /\ mem.log \in Seq(Event) /\ mem'.log \in Seq(Event)
  BY StoreNow, StoreThen
<1>2. cursor[c][1] \in Nat /\ cursor[c][1] <= mem.epoch
  BY ClientParts DEF ClientInv, NothingAhead
<1>3. CASE LogGoesOn
  <2> SUFFICES ASSUME cursor[c][1] = mem.epoch
               PROVE  \E k \in 0 .. Len(mem'.log) :
                        /\ cursor[c] = IdAt(mem', k)
                        /\ OfEpoch(told[c], mem.epoch) = SubSeq(mem'.log, 1, k)
    BY <1>3, ClientThen DEF LogGoesOn
  <2>1. PICK k \in 0 .. Len(mem.log) :
          /\ cursor[c] = IdAt(mem, k)
          /\ OfEpoch(told[c], mem.epoch) = SubSeq(mem.log, 1, k)
    BY ClientNow DEF ClientInv
  <2>2. k \in 0 .. Len(mem'.log) /\ SubSeq(mem.log, 1, k) = SubSeq(mem'.log, 1, k)
    BY <1>1, <1>3, SamePart DEF LogGoesOn
  <2>3. IdAt(mem', k) = IdAt(mem, k)
    <3>1. k = 0 \/ k \in 1 .. Len(mem.log)
      BY <1>1
    <3>2. mem'.epoch = mem.epoch /\ (k # 0 => mem'.log[k] = mem.log[k])
      BY <3>1, <1>3 DEF LogGoesOn, Begins
    <3> QED
      BY <3>2 DEF IdAt
  <2> QED
    BY <2>1, <2>2, <2>3
<1>4. CASE EpochTurns
  <2>1. cursor'[c][1] # mem'.epoch
    BY <1>1, <1>2, <1>4 DEF EpochTurns
  <2> QED
    BY <2>1, ClientThen
<1> QED
  BY <1>3, <1>4

(***************************************************************************)
(* What is left to show of a step that a client with its cursor and its    *)
(* knowledge sleeps through.                                               *)
(***************************************************************************)
LEMMA ClientAfter ==
  ASSUME StoreInv, StoreInv', NEW c \in Clients, ClientInv(c), LogGoesOn \/ EpochTurns,
         cursor'[c] = cursor[c], told'[c] = told[c], GoodSubscriber(sub'[c]),
         \A e \in Elements(Stream(c)') : e.id[1] <= mem'.epoch,
         Streams(c)'
  PROVE  ClientInv(c)'
<1>1. CursorIsPlace(c)'
  BY PlaceStays
<1>2. ClientTypes(c)'
  BY DEF ClientInv, ClientTypes
<1>3. cursor'[c][1] <= mem'.epoch
  <2>1. /\ mem.epoch \in Nat /\ mem'.epoch \in Nat
        /\ cursor[c][1] \in Nat /\ cursor[c][1] <= mem.epoch
    BY StoreNow, StoreThen, ClientParts DEF ClientInv, NothingAhead
  <2>2. mem.epoch <= mem'.epoch
    BY <2>1 DEF LogGoesOn, EpochTurns
  <2> QED
    BY <2>1, <2>2
<1> QED
  BY <1>1, <1>2, <1>3 DEF ClientInv, NothingAhead

(***************************************************************************)
(* A stream that loses some of its queue, and gains at most end markers,   *)
(* is still of epochs that have begun.                                     *)
(***************************************************************************)
LEMMA NothingAheadStays ==
  ASSUME StoreInv, StoreInv', NEW c \in Clients, ClientInv(c), LogGoesOn \/ EpochTurns,
         Elements(Stream(c)') \subseteq Elements(Stream(c)) \cup {EndMarker}
  PROVE  /\ \A e \in Elements(Stream(c)') : e.id[1] <= mem'.epoch
         /\ EpochTurns => \A e \in Elements(Stream(c)') : e.id[1] <= mem.epoch
<1>1. /\ mem.epoch \in Nat /\ mem'.epoch \in Nat /\ mem.epoch <= mem'.epoch
  BY StoreNow, StoreThen DEF LogGoesOn, EpochTurns
<1>2. Stream(c) \in Seq(Item)
  BY ClientParts DEF ClientInv
<1>3. ASSUME NEW e \in Elements(Stream(c)')
      PROVE  e.id[1] \in Nat /\ e.id[1] <= mem.epoch
  <2>1. CASE e = EndMarker
    BY <1>1, <2>1, NoEpochAtEnd
  <2>2. CASE e \in Elements(Stream(c))
    <3>1. e \in Item
      BY <1>2, <2>2, ElementOfSeq DEF Elements
    <3> QED
      BY <2>2, <3>1, ItemParts DEF ClientInv, NothingAhead
  <2> QED
    BY <2>1, <2>2
<1>4. \A e \in Elements(Stream(c)') : e.id[1] <= mem'.epoch
  <2> TAKE e \in Elements(Stream(c)')
  <2> QED
    BY <1>1, <1>3
<1> QED
  BY <1>3, <1>4

(* In a new epoch, a stream of the old one has nothing yet: nor has the log. *)
LEMMA StreamsTurn ==
  ASSUME StoreInv, StoreInv', NEW c \in Clients, EpochTurns,
         Stream(c)' \in Seq(Item),
         \A e \in Elements(Stream(c)') : e.id[1] <= mem.epoch
  PROVE  Streams(c)'
<1>1. mem.epoch \in Nat /\ mem'.epoch \in Nat /\ mem'.epoch > mem.epoch /\ mem'.log = << >>
  BY StoreNow, StoreThen DEF EpochTurns
<1>2. OfEpoch(Stream(c)', mem'.epoch) = << >>
  BY <1>1, OlderIsGone
<1>3. Begins(<< >>, << >>)
  BY BeginsFacts, EmptySeq
<1> QED
  BY <1>1, <1>2, <1>3, ClientThen

-----------------------------------------------------------------------------
(* What a step can do to one client. *)

LEMMA Untouched ==
  ASSUME StoreInv, StoreInv', NEW c \in Clients, ClientInv(c),
         UNCHANGED <<sub[c], cursor[c], told[c]>>,
         \/ LogGoesOn /\ (mem'.log = mem.log \/ sub[c].state # "open")
         \/ EpochTurns
  PROVE  ClientInv(c)'
<1>1. Stream(c)' = Stream(c) /\ Stream(c) \in Seq(Item) /\ GoodSubscriber(sub[c])
  BY ClientParts DEF ClientInv, Stream, ClientTypes
<1>2. /\ \A e \in Elements(Stream(c)') : e.id[1] <= mem'.epoch
      /\ EpochTurns => \A e \in Elements(Stream(c)') : e.id[1] <= mem.epoch
  BY <1>1, NothingAheadStays
<1>3. CASE LogGoesOn
  <2> DEFINE own == OfEpoch(Stream(c), mem.epoch)
  <2>1. /\ own \in Seq(Item) /\ mem.log \in Seq(Item) /\ mem'.epoch = mem.epoch
        /\ sub'[c].state = "open" => own = mem'.log
        /\ sub'[c].state = "closed" => Begins(own, mem.log)
        /\ Begins(mem.log, mem'.log)
    <3>1. /\ own \in Seq(Item) /\ mem.log \in Seq(Item) /\ mem.epoch \in Nat
          /\ Begins(mem.log, mem'.log) /\ mem'.epoch = mem.epoch
      BY <1>1, <1>3, StoreNow, OfEpochType DEF LogGoesOn
    <3>2. /\ sub[c].state = "open" => own = mem.log
          /\ sub[c].state = "closed" => Begins(own, mem.log)
      BY ClientNow DEF ClientInv
    <3>3. mem'.log = mem.log \/ sub[c].state # "open"
      BY <3>1 DEF EpochTurns
    <3> QED
      BY <3>1, <3>2, <3>3
  <2> HIDE DEF own
  <2>2. sub'[c].state = "closed" => Begins(own, mem'.log)
    BY <2>1, BeginsFacts
  <2>3. Streams(c)'
    BY <1>1, <2>1, <2>2, ClientThen DEF own
  <2> QED
    BY <1>1, <1>2, <1>3, <2>3, ClientAfter
<1>4. CASE EpochTurns
  <2>1. Streams(c)'
    BY <1>1, <1>2, <1>4, StreamsTurn
  <2> QED
    BY <1>1, <1>2, <1>4, <2>1, ClientAfter
<1> QED
  BY <1>3, <1>4

LEMMA NoSubscriberIsGood ==
  /\ GoodSubscriber(NoSubscriber) /\ NoSubscriber.state = "off"
  /\ NoSubscriber.queue = << >> /\ NoSubscriber.wire = << >>
<1>1. << >> \in Seq(Event) /\ << >> \in Seq(Item) /\ Len(<< >>) = 0
  BY EmptySeq
<1>2. NoSubscriber \in Subscriber
  BY <1>1 DEF NoSubscriber, Subscriber, Item
<1> QED
  BY <1>1, <1>2 DEF NoSubscriber, GoodSubscriber

LEMMA NothingIn == Elements(<< >>) = {}
BY EmptySeq DEF Elements

LEMMA CutOff ==
  ASSUME StoreInv, StoreInv', NEW c \in Clients, ClientInv(c), LogGoesOn \/ EpochTurns,
         sub'[c] = NoSubscriber, UNCHANGED <<cursor[c], told[c]>>
  PROVE  ClientInv(c)'
<1>1. /\ Elements(Stream(c)) = Elements(told[c]) \cup Elements(sub[c].wire) \cup Elements(sub[c].queue)
      /\ told[c] \in Seq(Event)
  BY ClientParts DEF ClientInv
<1>2. /\ Stream(c)' = StreamOf(told[c], NoSubscriber)
      /\ Elements(Stream(c)') = Elements(told[c])
  <2>1. NoSubscriber \in Subscriber /\ Elements(NoSubscriber.queue) = {} /\ Elements(NoSubscriber.wire) = {}
    BY NoSubscriberIsGood, NothingIn DEF GoodSubscriber
  <2>2. Stream(c)' = StreamOf(told[c], NoSubscriber)
    BY StreamThen
  <2>3. Elements(StreamOf(told[c], NoSubscriber)) = (Elements(told[c]) \cup {}) \cup {}
    BY <1>1, <2>1, StreamParts
  <2> QED
    BY <2>2, <2>3
<1>3. \A e \in Elements(Stream(c)') : e.id[1] <= mem'.epoch
  BY <1>1, <1>2, NothingAheadStays
<1>4. Streams(c)'
  BY NoSubscriberIsGood, ClientThen
<1> QED
  BY <1>3, <1>4, NoSubscriberIsGood, ClientAfter

(* A queue that takes more makes the stream longer by as much. *)
LEMMA Queued ==
  ASSUME NEW t \in Seq(Event), NEW s \in Subscriber, NEW r \in Subscriber,
         NEW more \in Seq(Item), r.queue = s.queue \o more, r.wire = s.wire
  PROVE  /\ StreamOf(t, r) \in Seq(Item)
         /\ Elements(StreamOf(t, r)) \subseteq Elements(StreamOf(t, s)) \cup Elements(more)
         /\ \A epoch : OfEpoch(StreamOf(t, r), epoch)
                         = OfEpoch(StreamOf(t, s), epoch) \o OfEpoch(more, epoch)
<1>1. /\ t \in Seq(Item) /\ s.wire \in Seq(Item) /\ s.queue \in Seq(Item)
      /\ StreamOf(t, s) \in Seq(Item)
  BY SubscriberParts, EventsAreItems, StreamParts
<1> DEFINE w    == s.wire
           head == t \o w
           tail == s.queue
           old  == StreamOf(t, s)
<1> HIDE DEF w
<1>2. head \in Seq(Item)
  BY <1>1, Joined DEF w
<1>3. old = head \o tail /\ StreamOf(t, r) = head \o (tail \o more)
  BY DEF StreamOf, w
<1>4. tail \in Seq(Item) /\ old \in Seq(Item)
  BY <1>1
<1> HIDE DEF head, tail, old
<1>5. StreamOf(t, r) = old \o more
  BY <1>2, <1>3, <1>4, ItemsAssociate
<1>6. /\ old \o more \in Seq(Item)
      /\ Elements(old \o more) = Elements(old) \cup Elements(more)
      /\ \A epoch : OfEpoch(old \o more, epoch) = OfEpoch(old, epoch) \o OfEpoch(more, epoch)
  <2>1. old \o more \in Seq(Item)
    BY <1>4, Joined
  <2>2. Elements(old \o more) = Elements(old) \cup Elements(more)
    BY <1>4, ElementsJoined
  <2>3. \A epoch : OfEpoch(old \o more, epoch) = OfEpoch(old, epoch) \o OfEpoch(more, epoch)
    BY <1>4, OfEpochJoined
  <2> QED
    BY <2>1, <2>2, <2>3
<1> QED
  BY <1>5, <1>6 DEF old

LEMMA ClosedKeepsStream ==
  ASSUME NEW t \in Seq(Event), NEW s, GoodSubscriber(s)
  PROVE  /\ GoodSubscriber(Closed(s)) /\ Closed(s).state # "open"
         /\ s.state \in {"off", "closed"} => Closed(s) = s
         /\ StreamOf(t, Closed(s)) \in Seq(Item)
         /\ Elements(StreamOf(t, Closed(s))) \subseteq Elements(StreamOf(t, s)) \cup {EndMarker}
         /\ \A epoch : OfEpoch(StreamOf(t, Closed(s)), epoch) = OfEpoch(StreamOf(t, s), epoch)
<1> DEFINE r == Closed(s)
<1>1. /\ s \in Subscriber /\ s.state \in {"off", "open", "closed"} /\ s.epoch \in Nat
      /\ s.maxsize \in Nat /\ s.queue \in Seq(Item) /\ Len(s.queue) \in Nat
      /\ s.wire \in Seq(Event) /\ Len(s.queue) <= s.maxsize
      /\ s = [state |-> s.state, epoch |-> s.epoch, maxsize |-> s.maxsize,
              queue |-> s.queue, wire |-> s.wire]
  BY SubscriberParts DEF GoodSubscriber
<1>2. CASE s.state # "open"
  <2>1. r = s
    BY <1>2 DEF Closed
  <2> QED
    BY <1>1, <1>2, <2>1, StreamParts
<1>3. CASE s.state = "open"
  <2> DEFINE more == IF Room(s) > 0 THEN <<EndMarker>> ELSE << >>
  <2>1. more \in Seq(Item) /\ Elements(more) \subseteq {EndMarker}
    BY NoEpochAtEnd, EmptySeq DEF Elements
  <2>2. /\ s.queue \o more = IF Room(s) > 0 THEN Append(s.queue, EndMarker) ELSE s.queue
        /\ Len(s.queue \o more) <= s.maxsize /\ s.queue \o more \in Seq(Item)
    <3> DEFINE q == s.queue
    <3>1. q \in Seq(Item) /\ Len(q) \in Nat /\ Room(s) = s.maxsize - Len(q)
      BY <1>1 DEF Room
    <3> HIDE DEF q
    <3>2. /\ Append(q, EndMarker) \in Seq(Item) /\ Len(Append(q, EndMarker)) = Len(q) + 1
          /\ Append(q, EndMarker) = q \o <<EndMarker>> /\ q \o << >> = q
      BY <3>1, NoEpochAtEnd, AppendProperties, AppendIsConcat, ConcatEmptySeq
    <3> QED
      BY <1>1, <3>1, <3>2 DEF q
  <2>3. r = [s EXCEPT !.state = "closed", !.queue = s.queue \o more]
    BY <1>3, <2>2 DEF Closed
  <2> HIDE DEF more
  <2>4. /\ r.state = "closed" /\ r.epoch = s.epoch /\ r.maxsize = s.maxsize
        /\ r.queue = s.queue \o more /\ r.wire = s.wire
        /\ r = [state |-> r.state, epoch |-> r.epoch, maxsize |-> r.maxsize,
                queue |-> r.queue, wire |-> r.wire]
    BY <1>1, <2>3
  <2> HIDE DEF r
  <2>5. r \in Subscriber
    BY <1>1, <2>2, <2>4 DEF Subscriber, Item
  <2>6. GoodSubscriber(r)
    BY <2>2, <2>4, <2>5 DEF GoodSubscriber
  <2>7. \A e \in Elements(more) : e \notin Event
    BY <2>1, NoEpochAtEnd
  <2>8. \A epoch : OfEpoch(more, epoch) = << >>
    BY <2>1, <2>7, WithinNone DEF OfEpoch
  <2> DEFINE old == StreamOf(t, s)
             new == StreamOf(t, r)
  <2>9. old \in Seq(Item) /\ \A epoch : OfEpoch(old, epoch) \in Seq(Item)
    BY <1>1, StreamParts, OfEpochType
  <2>10. /\ new \in Seq(Item) /\ Elements(new) \subseteq Elements(old) \cup Elements(more)
         /\ \A epoch : OfEpoch(new, epoch) = OfEpoch(old, epoch) \o OfEpoch(more, epoch)
    <3>1. s \in Subscriber /\ more \in Seq(Item) /\ r.queue = s.queue \o more /\ r.wire = s.wire
      BY <1>1, <2>1, <2>4
    <3> QED
      BY <2>5, <3>1, Queued
  <2> HIDE DEF old, new
  <2>11. \A epoch : OfEpoch(new, epoch) = OfEpoch(old, epoch)
    <3> TAKE epoch
    <3>1. OfEpoch(old, epoch) \o << >> = OfEpoch(old, epoch)
      BY <2>9, ConcatEmptySeq
    <3> QED
      BY <2>8, <2>10, <3>1
  <2> QED
    BY <1>3, <2>1, <2>4, <2>6, <2>10, <2>11 DEF r, old, new
<1> QED
  BY <1>2, <1>3

LEMMA Closing ==
  ASSUME StoreInv, StoreInv', NEW c \in Clients, ClientInv(c), mem' = mem \/ EpochTurns,
         sub'[c] = Closed(sub[c]), UNCHANGED <<cursor[c], told[c]>>
  PROVE  ClientInv(c)'
<1>1. GoodSubscriber(sub[c]) /\ sub[c] \in Subscriber /\ told[c] \in Seq(Event)
  BY ClientParts DEF ClientInv, ClientTypes
<1>2. mem.log \in Seq(Event) /\ mem.epoch \in Nat
  BY StoreNow
<1>3. LogGoesOn \/ EpochTurns
  BY <1>2, BeginsFacts DEF LogGoesOn
<1>4. /\ GoodSubscriber(sub'[c]) /\ sub'[c].state # "open"
      /\ sub[c].state \in {"off", "closed"} => sub'[c] = sub[c]
      /\ Stream(c)' \in Seq(Item)
      /\ Elements(Stream(c)') \subseteq Elements(Stream(c)) \cup {EndMarker}
      /\ \A epoch : OfEpoch(Stream(c)', epoch) = OfEpoch(Stream(c), epoch)
  <2>1. Stream(c)' = StreamOf(told[c], Closed(sub[c])) /\ Stream(c) = StreamOf(told[c], sub[c])
    BY StreamThen DEF Stream
  <2> QED
    BY <1>1, <2>1, ClosedKeepsStream
<1>5. /\ \A e \in Elements(Stream(c)') : e.id[1] <= mem'.epoch
      /\ EpochTurns => \A e \in Elements(Stream(c)') : e.id[1] <= mem.epoch
  BY <1>3, <1>4, NothingAheadStays
<1>6. CASE mem' = mem
  <2>1. sub'[c].state = "closed" => sub[c].state \in {"open", "closed"}
    BY <1>1, <1>4, SubscriberParts
  <2>2. Begins(mem.log, mem.log)
    BY <1>2, BeginsFacts
  <2>3. sub'[c].state = "closed" => Begins(OfEpoch(Stream(c), mem.epoch), mem.log)
    BY <2>1, <2>2, ClientNow DEF ClientInv
  <2>4. Streams(c)'
    BY <1>4, <1>6, <2>3, ClientThen
  <2> QED
    BY <1>3, <1>4, <1>5, <2>4, ClientAfter
<1>7. CASE EpochTurns
  <2>1. Streams(c)'
    BY <1>4, <1>5, <1>7, StreamsTurn
  <2> QED
    BY <1>4, <1>5, <1>7, <2>1, ClientAfter
<1> QED
  BY <1>6, <1>7

LEMMA PartBegins ==
  ASSUME NEW s \in Seq(Event), NEW b \in Seq(Event), NEW k \in 0 .. Len(b)
  PROVE  /\ SubSeq(b, 1, k) \in Seq(Event)
         /\ Begins(s \o SubSeq(b, 1, k), s \o b)
<1> DEFINE part == SubSeq(b, 1, k)
<1>1. Len(b) \in Nat /\ \A i \in 1 .. k : b[i] \in Event
  BY LenProperties, ElementOfSeq
<1>2. /\ part \in Seq(Event) /\ Len(part) = k
      /\ \A i \in 1 .. k : part[i] = b[i]
  BY <1>1, SubSeqProperties
<1> HIDE DEF part
<1> DEFINE u == s \o part
           v == s \o b
<1>3. /\ Len(s) \in Nat /\ Len(u) = Len(s) + Len(part) /\ Len(v) = Len(s) + Len(b)
      /\ \A i \in 1 .. Len(s) : u[i] = s[i] /\ v[i] = s[i]
      /\ \A i \in 1 .. Len(part) : u[Len(s) + i] = part[i]
      /\ \A i \in 1 .. Len(b) : v[Len(s) + i] = b[i]
  <2>1. part \in Seq(Event)
    BY <1>2
  <2> QED
    BY <2>1, Joined
<1> HIDE DEF u, v
<1>4. \A i \in 1 .. Len(u) : u[i] = v[i]
  <2> TAKE i \in 1 .. Len(u)
  <2>1. CASE i <= Len(s)
    BY <1>3, <2>1
  <2>2. CASE i > Len(s)
    <3> DEFINE j == i - Len(s)
    <3>1. j \in 1 .. k /\ j \in 1 .. Len(b) /\ j \in 1 .. Len(part) /\ i = Len(s) + j
      BY <1>1, <1>2, <1>3, <2>2
    <3> HIDE DEF j
    <3> QED
      BY <1>2, <1>3, <3>1
  <2> QED
    BY <1>3, <2>1, <2>2
<1>5. Len(u) <= Len(v)
  BY <1>1, <1>2, <1>3
<1> QED
  BY <1>2, <1>4, <1>5 DEF Begins, part, u, v

(* Fan-out: the queue takes the whole batch, or its beginning and no more. *)
Took(s, r, b, k) ==
  /\ GoodSubscriber(r) /\ r \in Subscriber
  /\ r.queue = s.queue \o SubSeq(b, 1, k) /\ r.wire = s.wire
  /\ (r.state = "open" /\ SubSeq(b, 1, k) = b) \/ r.state = "closed"

LEMMA DeliveredTakes ==
  ASSUME NEW s, GoodSubscriber(s), s.state = "open", NEW b \in Seq(Event)
  PROVE  \E k \in 0 .. Len(b) : Took(s, Delivered(s, b), b, k)
<1>1. /\ s \in Subscriber /\ s.epoch \in Nat
      /\ s.maxsize \in Nat /\ s.queue \in Seq(Item) /\ Len(s.queue) \in Nat
      /\ s.wire \in Seq(Event) /\ Len(s.queue) <= s.maxsize
      /\ s = [state |-> s.state, epoch |-> s.epoch, maxsize |-> s.maxsize,
              queue |-> s.queue, wire |-> s.wire]
  BY SubscriberParts DEF GoodSubscriber
<1>2. Len(b) \in Nat /\ Room(s) \in Nat /\ SubSeq(b, 1, Len(b)) = b
  BY <1>1, LenProperties, SubSeqFull DEF Room
<1> DEFINE fits == Len(b) <= Room(s)
           k    == IF fits THEN Len(b) ELSE Room(s)
           part == SubSeq(b, 1, k)
           q    == s.queue
           grown == q \o part
           r    == Delivered(s, b)
<1>3. k \in 0 .. Len(b) /\ k <= Room(s)
  BY <1>2
<1>4. part \in Seq(Event) /\ Len(part) = k
  <2>1. \A i \in 1 .. k : b[i] \in Event
    BY <1>2, ElementOfSeq
  <2> QED
    BY <1>2, <1>3, <2>1, SubSeqProperties
<1>5. r = [s EXCEPT !.state = IF fits THEN "open" ELSE "closed", !.queue = grown]
  BY <1>1, <1>2 DEF Delivered
<1>6. Room(s) = s.maxsize - Len(q) /\ q \in Seq(Item) /\ Len(q) \in Nat
  BY <1>1 DEF Room
<1>7. (r.state = "open" /\ part = b) \/ r.state = "closed"
  BY <1>1, <1>2, <1>5
<1>8. /\ r.state \in {"open", "closed"} /\ r.epoch = s.epoch /\ r.maxsize = s.maxsize
      /\ r.queue = grown /\ r.wire = s.wire
      /\ r = [state |-> r.state, epoch |-> r.epoch, maxsize |-> r.maxsize,
              queue |-> r.queue, wire |-> r.wire]
  BY <1>1, <1>5
<1> HIDE DEF k, part, q, r
<1>9. grown \in Seq(Item) /\ Len(grown) = Len(q) + Len(part)
  BY <1>4, <1>6, Joined, EventsAreItems
<1> HIDE DEF grown
<1>10. Len(grown) <= s.maxsize
  <2>1. /\ s.maxsize \in Nat /\ Len(q) \in Nat /\ Room(s) = s.maxsize - Len(q)
        /\ k \in 0 .. Len(b) /\ Len(b) \in Nat /\ k <= Room(s)
        /\ Len(grown) = Len(q) + k
    BY <1>1, <1>2, <1>3, <1>4, <1>6, <1>9
  <2> HIDE DEF fits
  <2> QED
    BY <2>1
<1>11. r \in Subscriber
  BY <1>1, <1>8, <1>9 DEF Subscriber, Item
<1>12. GoodSubscriber(r)
  BY <1>8, <1>10, <1>11 DEF GoodSubscriber
<1> QED
  <2>1. Took(s, r, b, k)
    BY <1>7, <1>8, <1>11, <1>12 DEF Took, part, q, grown
  <2> QED
    BY <1>3, <2>1 DEF r

LEMMA Delivering ==
  ASSUME StoreInv, StoreInv', NEW c \in Clients, ClientInv(c),
         NEW b \in Seq(Event), \A e \in Elements(b) : e.id[1] = mem.epoch,
         mem'.epoch = mem.epoch, mem'.log = mem.log \o b,
         sub'[c] = Delivered(sub[c], b), UNCHANGED <<cursor[c], told[c]>>
  PROVE  ClientInv(c)'
<1>1. /\ GoodSubscriber(sub[c]) /\ sub[c] \in Subscriber /\ told[c] \in Seq(Event)
      /\ mem.log \in Seq(Event) /\ mem.epoch \in Nat
  BY StoreNow, ClientParts DEF ClientInv, ClientTypes
<1>2. LogGoesOn
  BY <1>1, BeginsFacts DEF LogGoesOn
<1>3. CASE sub[c].state # "open"
  <2>1. sub'[c] = sub[c]
    BY <1>3 DEF Delivered
  <2> QED
    BY <1>2, <1>3, <2>1, Untouched
<1>4. CASE sub[c].state = "open"
  <2> DEFINE s == sub[c]
             r == sub'[c]
  <2>0. PICK k \in 0 .. Len(b) : Took(s, r, b, k)
    BY <1>1, <1>4, DeliveredTakes
  <2>1. /\ GoodSubscriber(r) /\ r \in Subscriber
        /\ r.queue = s.queue \o SubSeq(b, 1, k) /\ r.wire = s.wire
        /\ (r.state = "open" /\ SubSeq(b, 1, k) = b) \/ r.state = "closed"
    BY <2>0 DEF Took
  <2> DEFINE part == SubSeq(b, 1, k)
             old  == Stream(c)
             new  == Stream(c)'
  <2>2. /\ part \in Seq(Event) /\ part \in Seq(Item)
        /\ Begins(mem.log \o part, mem.log \o b)
    BY <1>1, PartBegins, EventsAreItems
  <2>3. Elements(part) \subseteq Elements(b)
    <3>1. Len(b) \in Nat
      BY LenProperties
    <3> QED
      BY <3>1, ElementsOfPart
  <2>4. OfEpoch(part, mem.epoch) = part
    BY <2>2, <2>3, OfEpochAll
  <2>5. /\ new = StreamOf(told[c], r) /\ old = StreamOf(told[c], s)
        /\ r.queue = s.queue \o part
    BY <2>1, StreamThen DEF Stream
  <2> HIDE DEF part, s, r, old, new
  <2>6. /\ Elements(new) \subseteq Elements(old) \cup Elements(part)
        /\ OfEpoch(new, mem.epoch) = OfEpoch(old, mem.epoch) \o OfEpoch(part, mem.epoch)
    <3>1. s \in Subscriber /\ r \in Subscriber /\ r.wire = s.wire
      BY <1>1, <2>1 DEF s
    <3>2. told[c] \in Seq(Event) /\ part \in Seq(Item) /\ r.queue = s.queue \o part
      BY <1>1, <2>2, <2>5
    <3>3. Elements(StreamOf(told[c], r))
            \subseteq Elements(StreamOf(told[c], s)) \cup Elements(part)
      BY <3>1, <3>2, Queued
    <3>4. \A epoch : OfEpoch(StreamOf(told[c], r), epoch)
                       = OfEpoch(StreamOf(told[c], s), epoch) \o OfEpoch(part, epoch)
      BY <3>1, <3>2, Queued
    <3> QED
      BY <2>5, <3>3, <3>4
  <2>7. OfEpoch(old, mem.epoch) = mem.log
    BY <1>4, ClientNow DEF ClientInv, old
  <2>8. OfEpoch(new, mem.epoch) = mem.log \o part
    BY <2>4, <2>6, <2>7
  <2>9. Streams(c)'
    <3>1. r.state = "open" => OfEpoch(new, mem'.epoch) = mem'.log
      BY <2>1, <2>8 DEF part
    <3>2. r.state = "closed" => Begins(OfEpoch(new, mem'.epoch), mem'.log)
      BY <2>2, <2>8
    <3> QED
      BY <3>1, <3>2, ClientThen DEF r, new
  <2>10. \A e \in Elements(new) : e.id[1] <= mem'.epoch
    <3> TAKE e \in Elements(new)
    <3>1. CASE e \in Elements(old)
      BY <3>1 DEF ClientInv, NothingAhead, old
    <3>2. CASE e \in Elements(part)
      BY <1>1, <2>3, <3>2
    <3> QED
      BY <2>6, <3>1, <3>2
  <2> QED
    BY <1>2, <2>1, <2>9, <2>10, ClientAfter DEF r, new
<1> QED
  BY <1>3, <1>4

LEMMA PlaceHasEpoch ==
  ASSUME NEW s, GoodStore(s), NEW k \in 0 .. Len(s.log)
  PROVE  IdAt(s, k) \in EventIds /\ IdAt(s, k)[1] = s.epoch
<1>1. /\ s.epoch \in Nat /\ Len(s.log) \in Nat
      /\ \A i \in 1 .. Len(s.log) : s.log[i] \in Event /\ s.log[i].id[1] = s.epoch
  BY StoreParts DEF GoodStore, LogAscends
<1>2. CASE k = 0
  BY <1>1, <1>2 DEF IdAt, BaselineCursor, EventIds
<1>3. CASE k # 0
  <2>1. k \in 1 .. Len(s.log)
    BY <1>1, <1>3
  <2>2. s.log[k].id \in EventIds /\ s.log[k].id[1] = s.epoch
    BY <1>1, <2>1, EventParts
  <2> QED
    BY <1>3, <2>2 DEF IdAt
<1> QED
  BY <1>2, <1>3

LEMMA Syncing ==
  ASSUME StoreInv, StoreInv', NEW c \in Clients, ClientInv(c), mem' = mem, Off(c),
         cursor'[c] = mem.ring.streamCursor, told'[c] = mem.log, sub'[c] = sub[c]
  PROVE  ClientInv(c)'
<1>1. /\ mem.log \in Seq(Event) /\ Len(mem.log) \in Nat /\ mem.epoch \in Nat
      /\ GoodStore(mem) /\ mem.ring.streamCursor = IdAt(mem, Len(mem.log))
  BY StoreNow DEF RingEndsLog
<1>2. /\ sub[c] = NoSubscriber /\ sub[c].state = "off" /\ GoodSubscriber(sub[c])
      /\ NoSubscriber \in Subscriber
  BY NoSubscriberIsGood DEF ClientInv, ClientTypes, GoodSubscriber, Off
<1> DEFINE k == Len(mem.log)
<1>3. /\ k \in 0 .. Len(mem.log)
      /\ cursor'[c] \in EventIds /\ cursor'[c][1] = mem.epoch
      /\ OfEpoch(mem.log, mem.epoch) = mem.log /\ SubSeq(mem.log, 1, k) = mem.log
  BY <1>1, PlaceHasEpoch, LogOfEpoch, SubSeqFull
<1>4. \A e \in Elements(Stream(c)') : e.id[1] <= mem.epoch
  <2>1. Stream(c)' = StreamOf(mem.log, NoSubscriber)
    BY <1>2, StreamThen
  <2>2. Elements(StreamOf(mem.log, NoSubscriber)) = (Elements(mem.log) \cup {}) \cup {}
    BY <1>1, <1>2, StreamParts, NoSubscriberIsGood, NothingIn
  <2>3. \A i \in 1 .. Len(mem.log) : mem.log[i].id[1] = mem.epoch
    BY StoreNow DEF LogAscends
  <2>4. \A e \in Elements(mem.log) : e.id[1] <= mem.epoch
    BY <1>1, <2>3 DEF Elements
  <2> QED
    BY <2>1, <2>2, <2>4
<1>5. Streams(c)'
  BY <1>2, ClientThen
<1>6. CursorIsPlace(c)'
  BY <1>1, <1>3, ClientThen
<1>7. cursor'[c][1] <= mem'.epoch
  BY <1>1, <1>3
<1> QED
  BY <1>1, <1>2, <1>3, <1>4, <1>5, <1>6, <1>7 DEF ClientInv, ClientTypes, NothingAhead

(* A frame that moves on is still in the stream, at its place. *)
LEMMA Moved ==
  ASSUME NEW s \in Seq(Item), NEW q \in Seq(Item), q # << >>
  PROVE  /\ Head(q) \in Item /\ Tail(q) \in Seq(Item) /\ Len(Tail(q)) = Len(q) - 1
         /\ Append(s, Head(q)) \in Seq(Item)
         /\ Append(s, Head(q)) \o Tail(q) = s \o q
         /\ Head(q) \in Elements(q) /\ Elements(Tail(q)) \subseteq Elements(q)
<1>1. Len(q) \in Nat \ {0}
  BY EmptySeq
<1> DEFINE h == Head(q)
           t == Tail(q)
<1>2. h \in Item /\ t \in Seq(Item) /\ Len(t) = Len(q) - 1 /\ q[1] = h
  BY HeadTailProperties, <1>1, ElementOfSeq
<1>3. q = <<h>> \o t
  <2>1. SubSeq(q, 1, Len(q)) = q /\ t = SubSeq(q, 2, Len(q))
    BY SubSeqFull, TailIsSubSeq
  <2>2. SubSeq(q, 1, Len(q)) = <<q[1]>> \o SubSeq(q, 1 + 1, Len(q))
    <3> DEFINE n == Len(q)
    <3>1. 1 \in 1 .. Len(q) /\ n \in 1 .. Len(q)
      BY <1>1
    <3> HIDE DEF n
    <3>2. SubSeq(q, 1, n) = <<q[1]>> \o SubSeq(q, 1 + 1, n)
      BY <3>1, SubSeqRecursiveFirst
    <3> QED
      BY <3>2 DEF n
  <2> QED
    BY <1>2, <2>1, <2>2
<1> HIDE DEF h, t
<1>4. Append(s, h) = s \o <<h>> /\ <<h>> \in Seq(Item) /\ s \o <<h>> \in Seq(Item)
  BY <1>2, AppendIsConcat, Joined
<1>5. (s \o <<h>>) \o t = s \o (<<h>> \o t)
  BY <1>2, <1>4, ConcatAssociative
<1>6. h \in Elements(q)
  BY <1>1, <1>2 DEF Elements
<1>7. Elements(t) \subseteq Elements(q)
  <2> DEFINE one == <<h>>
  <2>1. one \in Seq(Item) /\ t \in Seq(Item) /\ q = one \o t
    BY <1>2, <1>3, <1>4
  <2> HIDE DEF one
  <2>2. Elements(one \o t) = Elements(one) \cup Elements(t)
    BY <2>1, ElementsJoined
  <2> QED
    BY <2>1, <2>2
<1> QED
  BY <1>2, <1>3, <1>4, <1>5, <1>6, <1>7 DEF h, t

Sent(s) == [s EXCEPT !.wire = Append(s.wire, Head(s.queue)), !.queue = Tail(s.queue)]

LEMMA SendingKeepsStream ==
  ASSUME NEW t \in Seq(Event), NEW s, GoodSubscriber(s),
         s.queue # << >>, Head(s.queue) # EndMarker
  PROVE  /\ GoodSubscriber(Sent(s)) /\ Sent(s).state = s.state
         /\ StreamOf(t, Sent(s)) = StreamOf(t, s)
<1>1. /\ s \in Subscriber /\ s.state \in {"off", "open", "closed"} /\ s.epoch \in Nat
      /\ s.maxsize \in Nat /\ s.queue \in Seq(Item) /\ Len(s.queue) \in Nat
      /\ s.wire \in Seq(Event) /\ s.wire \in Seq(Item) /\ Len(s.queue) <= s.maxsize
      /\ s.state # "off" /\ t \in Seq(Item)
      /\ s = [state |-> s.state, epoch |-> s.epoch, maxsize |-> s.maxsize,
              queue |-> s.queue, wire |-> s.wire]
  BY SubscriberParts, NoSubscriberIsGood, EventsAreItems DEF GoodSubscriber
<1> DEFINE q    == s.queue
           w    == s.wire
           h    == Head(q)
           next == Append(w, h)
           rest == Tail(q)
           r    == Sent(s)
<1>2. /\ r.state = s.state /\ r.epoch = s.epoch /\ r.maxsize = s.maxsize
      /\ r.queue = rest /\ r.wire = next
      /\ r = [state |-> r.state, epoch |-> r.epoch, maxsize |-> r.maxsize,
              queue |-> r.queue, wire |-> r.wire]
  <2>1. r = [s EXCEPT !.wire = next, !.queue = rest]
    BY DEF Sent
  <2> HIDE DEF r, next, rest, h, q, w
  <2> QED
    BY <1>1, <2>1
<1>3. q \in Seq(Item) /\ q # << >> /\ w \in Seq(Event) /\ w \in Seq(Item) /\ Len(q) <= s.maxsize
  BY <1>1
<1>4. StreamOf(t, r) = (t \o next) \o rest /\ StreamOf(t, s) = (t \o w) \o q
  BY <1>2 DEF StreamOf
<1> HIDE DEF q, w, next, rest, r
<1>5. h \in Item /\ rest \in Seq(Item) /\ Len(rest) = Len(q) - 1 /\ Len(q) \in Nat
  BY <1>3, Moved, LenProperties DEF rest
<1>6. h \in Event
  BY <1>5 DEF Item, q
<1> HIDE DEF h
<1>7. next \in Seq(Event) /\ t \o next = Append(t \o w, h)
  <2>1. Append(w, h) \in Seq(Event) /\ t \o Append(w, h) = Append(t \o w, h)
    BY <1>3, <1>6, AppendProperties, AppendAcross
  <2> QED
    BY <2>1 DEF next
<1>8. Append(t \o w, h) \o rest = (t \o w) \o q
  <2> DEFINE head == t \o w
  <2>1. head \in Seq(Item)
    BY <1>1, <1>3, Joined
  <2> HIDE DEF head
  <2>2. Append(head, h) \o rest = head \o q
    BY <1>3, <2>1, Moved DEF h, rest
  <2> QED
    BY <2>2 DEF head
<1>9. StreamOf(t, r) = StreamOf(t, s)
  BY <1>4, <1>7, <1>8
<1>10. Len(rest) <= s.maxsize
  BY <1>1, <1>3, <1>5
<1>11. r \in Subscriber
  <2>1. rest \in Seq(Item) /\ next \in Seq(Event)
    BY <1>5, <1>7
  <2> QED
    BY <1>1, <1>2, <2>1 DEF Subscriber, Item
<1>12. GoodSubscriber(r)
  BY <1>1, <1>2, <1>10, <1>11 DEF GoodSubscriber
<1> QED
  BY <1>2, <1>9, <1>12 DEF r

LEMMA Sending ==
  ASSUME StoreInv, StoreInv', NEW c \in Clients, ClientInv(c), mem' = mem,
         sub[c].queue # << >>, Head(sub[c].queue) # EndMarker,
         sub'[c] = Sent(sub[c]),
         UNCHANGED <<cursor[c], told[c]>>
  PROVE  ClientInv(c)'
<1>1. /\ GoodSubscriber(sub[c]) /\ told[c] \in Seq(Event)
      /\ mem.log \in Seq(Event)
  BY StoreNow DEF ClientInv, ClientTypes
<1>2. /\ GoodSubscriber(sub'[c]) /\ sub'[c].state = sub[c].state
      /\ StreamOf(told[c], sub'[c]) = StreamOf(told[c], sub[c])
  BY <1>1, SendingKeepsStream
<1>3. Stream(c)' = Stream(c)
  BY <1>2, StreamThen DEF Stream
<1>4. \A e \in Elements(Stream(c)') : e.id[1] <= mem'.epoch
  BY <1>3 DEF ClientInv, NothingAhead
<1>5. Streams(c)'
  BY <1>2, <1>3, ClientNow, ClientThen DEF ClientInv
<1>6. LogGoesOn
  BY <1>1, BeginsFacts DEF LogGoesOn
<1> QED
  BY <1>2, <1>4, <1>5, <1>6, ClientAfter

LEMMA ReceivingKeepsStream ==
  ASSUME NEW t \in Seq(Event), NEW s, GoodSubscriber(s), s.wire # << >>,
         NEW r, r = [s EXCEPT !.wire = Tail(s.wire)]
  PROVE  /\ GoodSubscriber(r) /\ r.state = s.state /\ s.state \in {"open", "closed"}
         /\ Head(s.wire) \in Event /\ Append(t, Head(s.wire)) \in Seq(Event)
         /\ Head(s.wire) \in Elements(StreamOf(t, s))
         /\ StreamOf(Append(t, Head(s.wire)), r) = StreamOf(t, s)
<1>1. /\ s \in Subscriber /\ s.state \in {"off", "open", "closed"} /\ s.epoch \in Nat
      /\ s.maxsize \in Nat /\ s.queue \in Seq(Item) /\ Len(s.queue) \in Nat
      /\ s.wire \in Seq(Event) /\ s.wire \in Seq(Item) /\ Len(s.queue) <= s.maxsize
      /\ s.state # "off" /\ t \in Seq(Item)
      /\ s = [state |-> s.state, epoch |-> s.epoch, maxsize |-> s.maxsize,
              queue |-> s.queue, wire |-> s.wire]
  BY SubscriberParts, NoSubscriberIsGood, EventsAreItems DEF GoodSubscriber
<1> DEFINE q    == s.queue
           w    == s.wire
           h    == Head(w)
           more == Append(t, h)
           rest == Tail(w)
<1>2. /\ r.state = s.state /\ r.epoch = s.epoch /\ r.maxsize = s.maxsize
      /\ r.queue = q /\ r.wire = rest
      /\ r = [state |-> r.state, epoch |-> r.epoch, maxsize |-> r.maxsize,
              queue |-> r.queue, wire |-> r.wire]
  BY <1>1
<1>3. q \in Seq(Item) /\ w # << >> /\ w \in Seq(Event) /\ w \in Seq(Item) /\ Len(q) <= s.maxsize
  BY <1>1
<1>4. StreamOf(more, r) = (more \o rest) \o q /\ StreamOf(t, s) = (t \o w) \o q
  BY <1>2 DEF StreamOf
<1>5. Elements(w) \subseteq Elements(StreamOf(t, s))
  BY <1>1, StreamParts DEF w
<1> HIDE DEF q, w, more, rest
<1>6. h \in Event /\ rest \in Seq(Event)
  BY <1>3, HeadTailProperties DEF rest
<1>7. h \in Elements(w) /\ Append(t, h) \o Tail(w) = t \o w
  BY <1>1, <1>3, Moved
<1> HIDE DEF h
<1>8. more \in Seq(Event)
  BY <1>6, AppendProperties DEF more
<1>9. StreamOf(more, r) = StreamOf(t, s)
  BY <1>4, <1>7 DEF more, rest
<1>10. r \in Subscriber
  <2>1. q \in Seq(Item)
    BY <1>3
  <2> QED
    BY <1>1, <1>2, <1>6, <2>1 DEF Subscriber, Item
<1>11. GoodSubscriber(r)
  BY <1>1, <1>2, <1>3, <1>10 DEF GoodSubscriber
<1> QED
  BY <1>1, <1>2, <1>5, <1>6, <1>7, <1>8, <1>9, <1>11 DEF h, w, more

(* The next event of the epoch that a client is told is the log's next. *)
LEMMA TellingFollowsLog ==
  ASSUME GoodStore(mem), NEW old \in Seq(Item), NEW e \in Event, e.id[1] = mem.epoch,
         NEW later \in Seq(Item), Begins(Append(old, e) \o later, mem.log)
  PROVE  \E k \in 0 .. Len(mem.log) :
           e.id = IdAt(mem, k) /\ Append(old, e) = SubSeq(mem.log, 1, k)
<1> DEFINE x == Append(old, e)
           k == Len(x)
           l == mem.log
<1>1. l \in Seq(Item) /\ Len(l) \in Nat
  BY StoreParts DEF GoodStore
<1>2. /\ x \in Seq(Item) /\ k = Len(old) + 1 /\ x[k] = e /\ k \in Nat /\ k # 0
  <2>1. e \in Item /\ Len(old) \in Nat
    BY LenProperties DEF Item
  <2>2. /\ Append(old, e) \in Seq(Item) /\ Len(Append(old, e)) = Len(old) + 1
        /\ Append(old, e)[Len(old) + 1] = e
    BY <2>1, AppendProperties
  <2> QED
    BY <2>1, <2>2
<1> HIDE DEF x, l
<1>3. Begins(x, l)
  <2>1. x \o later \in Seq(Item) /\ Begins(x, x \o later)
    BY <1>2, BeginsFacts, Joined
  <2> QED
    BY <1>2, <2>1, BeginsFacts DEF x, l
<1>4. k \in 1 .. Len(l) /\ l[k] = e
  BY <1>1, <1>2, <1>3 DEF Begins
<1>5. x = SubSeq(l, 1, k)
  <2> DEFINE p == SubSeq(l, 1, k)
  <2>1. \A i \in 1 .. k : l[i] \in Item /\ x[i] = l[i]
    BY <1>1, <1>2, <1>3, <1>4, ElementOfSeq DEF Begins
  <2>2. p \in Seq(Item) /\ Len(p) = k /\ \A i \in 1 .. k : p[i] = l[i]
    BY <1>2, <2>1, SubSeqProperties
  <2> HIDE DEF p
  <2>3. x = p
    BY <1>2, <2>1, <2>2, SeqEqual
  <2> QED
    BY <2>3 DEF p
<1>6. e.id = IdAt(mem, k)
  BY <1>2, <1>4 DEF IdAt, l
<1> QED
  BY <1>2, <1>4, <1>5, <1>6 DEF x, l

LEMMA Receiving ==
  ASSUME StoreInv, StoreInv', NEW c \in Clients, ClientInv(c), mem' = mem,
         sub[c].wire # << >>,
         sub'[c] = [sub[c] EXCEPT !.wire = Tail(sub[c].wire)],
         cursor'[c] = Head(sub[c].wire).id,
         told'[c] = Append(told[c], Head(sub[c].wire))
  PROVE  ClientInv(c)'
<1> DEFINE s == sub[c]
           r == sub'[c]
           t == told[c]
           e == Head(s.wire)
<1>1. /\ GoodSubscriber(s) /\ t \in Seq(Event) /\ t \in Seq(Item) /\ mem.log \in Seq(Event)
      /\ GoodStore(mem) /\ s.wire # << >> /\ r = [s EXCEPT !.wire = Tail(s.wire)]
      /\ told'[c] = Append(t, e) /\ cursor'[c] = e.id
      /\ Stream(c) = StreamOf(t, s) /\ Stream(c)' = StreamOf(Append(t, e), r)
      /\ mem.epoch \in Nat
  BY StoreNow, EventsAreItems, StreamThen DEF ClientInv, ClientTypes, Stream
<1>2. /\ s.state = "open" => OfEpoch(StreamOf(t, s), mem.epoch) = mem.log
      /\ s.state = "closed" => Begins(OfEpoch(StreamOf(t, s), mem.epoch), mem.log)
      /\ \A x \in Elements(StreamOf(t, s)) : x.id[1] <= mem.epoch
  BY ClientNow DEF ClientInv, NothingAhead, Stream
<1> HIDE DEF s, r, t
<1>3. /\ GoodSubscriber(r) /\ r.state = s.state /\ s.state \in {"open", "closed"}
      /\ e \in Event /\ Append(t, e) \in Seq(Event)
      /\ e \in Elements(StreamOf(t, s))
      /\ StreamOf(Append(t, e), r) = StreamOf(t, s)
  BY <1>1, ReceivingKeepsStream
<1> HIDE DEF e
<1>4. e.id \in EventIds /\ e.id[1] <= mem.epoch
  BY <1>2, <1>3, EventParts
<1>5. Streams(c)'
  <2>1. OfEpoch(Stream(c)', mem'.epoch) = OfEpoch(StreamOf(t, s), mem.epoch)
    BY <1>1, <1>3
  <2>2. sub'[c].state = s.state
    BY <1>3 DEF r
  <2> QED
    BY <1>2, <2>1, <2>2, ClientThen
<1>6. NothingAhead(c)'
  BY <1>1, <1>2, <1>3, <1>4 DEF NothingAhead
<1>7. ClientTypes(c)'
  BY <1>1, <1>3, <1>4 DEF ClientTypes, r
<1>8. CursorIsPlace(c)'
  <2> SUFFICES ASSUME e.id[1] = mem.epoch
               PROVE  \E k \in 0 .. Len(mem.log) :
                        /\ e.id = IdAt(mem, k)
                        /\ OfEpoch(Append(t, e), mem.epoch) = SubSeq(mem.log, 1, k)
    <3> SUFFICES ASSUME cursor'[c][1] = mem'.epoch
                 PROVE  \E k \in 0 .. Len(mem'.log) :
                          /\ cursor'[c] = IdAt(mem', k)
                          /\ OfEpoch(told'[c], mem'.epoch) = SubSeq(mem'.log, 1, k)
      BY ClientThen
    <3> QED
      BY <1>1
  <2> DEFINE old   == OfEpoch(t, mem.epoch)
             more  == Append(t, e)
             one   == <<e>>
             sent  == OfEpoch(r.wire, mem.epoch)
             kept  == OfEpoch(r.queue, mem.epoch)
             whole == OfEpoch(StreamOf(more, r), mem.epoch)
  <2>1. old \in Seq(Item) /\ sent \in Seq(Item) /\ kept \in Seq(Item)
    <3>1. r.wire \in Seq(Item) /\ r.queue \in Seq(Item)
      BY <1>3, SubscriberParts DEF GoodSubscriber
    <3> QED
      BY <1>1, <3>1, OfEpochType
  <2>2. Begins(whole, mem.log)
    BY <1>1, <1>2, <1>3, BeginsFacts
  <2>3. OfEpoch(more, mem.epoch) = Append(old, e)
    <3>1. one \in Seq(Event) /\ one \in Seq(Item) /\ e \in Item /\ more = t \o one
      BY <1>1, <1>3, AppendIsConcat, EventsAreItems DEF Item
    <3>2. \A x \in Elements(one) : x.id[1] = mem.epoch
      BY DEF Elements
    <3> HIDE DEF one, more, old
    <3>3. OfEpoch(one, mem.epoch) = one
      BY <3>1, <3>2, OfEpochAll
    <3>4. OfEpoch(more, mem.epoch) = OfEpoch(t, mem.epoch) \o OfEpoch(one, mem.epoch)
      BY <1>1, <3>1, OfEpochJoined
    <3>5. Append(old, e) = old \o one
      BY <2>1, <3>1, AppendIsConcat DEF one
    <3> QED
      BY <3>3, <3>4, <3>5 DEF old
  <2>4. whole = (OfEpoch(more, mem.epoch) \o sent) \o kept
    <3>1. more \in Seq(Event) /\ r \in Subscriber
      BY <1>3 DEF GoodSubscriber
    <3> HIDE DEF more
    <3> QED
      BY <3>1, StreamParts
  <2> DEFINE x     == Append(old, e)
             later == sent \o kept
  <2> HIDE DEF old, more, sent, kept, whole
  <2>5. /\ x \in Seq(Item) /\ later \in Seq(Item)
        /\ whole = (x \o sent) \o kept
    <3>1. e \in Item
      BY <1>3 DEF Item
    <3>2. x \in Seq(Item)
      BY <2>1, <3>1, AppendProperties
    <3>3. later \in Seq(Item)
      BY <2>1, Joined
    <3>4. whole = (x \o sent) \o kept
      BY <2>3, <2>4
    <3> QED
      BY <3>2, <3>3, <3>4
  <2> HIDE DEF x
  <2>6. whole = x \o later
    <3>1. x \in Seq(Item)
      BY <2>5
    <3>2. (x \o sent) \o kept = x \o (sent \o kept)
      BY <2>1, <3>1, ItemsAssociate
    <3> QED
      BY <2>5, <3>2
  <2>7. Begins(Append(old, e) \o later, mem.log)
    BY <2>2, <2>6 DEF x
  <2> HIDE DEF later
  <2>8. \E k \in 0 .. Len(mem.log) :
          e.id = IdAt(mem, k) /\ Append(old, e) = SubSeq(mem.log, 1, k)
    BY <1>1, <1>3, <2>1, <2>5, <2>7, TellingFollowsLog
  <2> QED
    BY <2>3, <2>8 DEF more
<1> QED
  BY <1>5, <1>6, <1>7, <1>8 DEF ClientInv

LEMMA RegisteredIsGood ==
  ASSUME NEW replay \in Seq(Event), mem.epoch \in Nat
  PROVE  /\ GoodSubscriber(Registered(replay)) /\ Registered(replay) \in Subscriber
         /\ Registered(replay).state = "open"
         /\ Registered(replay).queue = replay /\ Registered(replay).wire = << >>
<1> DEFINE n == Len(replay)
           m == IF QueueCapacity > n + 1 THEN QueueCapacity ELSE n + 1
           r == Registered(replay)
<1>1. n \in Nat /\ replay \in Seq(Item) /\ << >> \in Seq(Event)
  BY LenProperties, EventsAreItems, EmptySeq
<1>2. m \in Nat /\ n <= m
  BY <1>1, Capacities
<1>3. r = [state |-> "open", epoch |-> mem.epoch, maxsize |-> m, queue |-> replay,
           wire |-> << >>]
  BY DEF Registered
<1> HIDE DEF m
<1>4. r \in Subscriber
  <2> HIDE DEF r
  <2> QED
    BY <1>1, <1>2, <1>3 DEF Subscriber, Item
<1> QED
  BY <1>2, <1>3, <1>4 DEF GoodSubscriber

LEMMA BeforeIsStrict ==
  ASSUME NEW m \in Nat, NEW n \in Nat, NEW p \in Nat, NEW q \in Nat
  PROVE  ~ ((m < p \/ (m = p /\ n < q)) /\ (p < m \/ (p = m /\ q < n)))
OBVIOUS

LEMMA Difference ==
  ASSUME NEW m \in Nat, NEW n \in Nat, n <= m
  PROVE  m - n \in 0 .. m /\ m = (m - n) + n
OBVIOUS

(* Of two positions in the log, the earlier has the smaller id. *)
LEMMA PlacesAscend ==
  ASSUME NEW s, GoodStore(s), NEW j \in 0 .. Len(s.log), NEW k \in 1 .. Len(s.log)
  PROVE  Before(IdAt(s, j), s.log[k].id) <=> j < k
<1>1. /\ Len(s.log) \in Nat
      /\ \A i \in 1 .. Len(s.log) :
           s.log[i].id[2] \in Nat /\ s.log[i].id[3] \in Nat /\ s.log[i].id[2] >= 2
      /\ \A a, b \in 1 .. Len(s.log) : a < b => Before(s.log[a].id, s.log[b].id)
  <2>1. /\ s \in Store /\ s.revision \in Nat
        /\ \A i \in 1 .. Len(s.log) : s.log[i] \in Event
        /\ \A i \in 1 .. Len(s.log) : s.log[i].id[2] \in 2 .. s.revision
        /\ \A a, b \in 1 .. Len(s.log) : a < b => Before(s.log[a].id, s.log[b].id)
    BY StoreParts DEF GoodStore, LogAscends
  <2>2. \A i \in 1 .. Len(s.log) : s.log[i].id[2] \in Nat /\ s.log[i].id[3] \in Nat
    BY <2>1, EventParts
  <2> QED
    BY <2>1, <2>2, StoreParts
<1>2. CASE j = 0
  BY <1>1, <1>2 DEF IdAt, BaselineCursor, Before
<1>3. CASE j # 0
  <2>1. j \in 1 .. Len(s.log) /\ IdAt(s, j) = s.log[j].id
    BY <1>1, <1>3 DEF IdAt
  <2>2. CASE j < k
    BY <1>1, <2>1, <2>2
  <2>3. CASE j = k
    BY <1>1, <2>1, <2>3 DEF Before
  <2>4. CASE j > k
    <3>1. Before(s.log[k].id, s.log[j].id)
      BY <1>1, <2>1, <2>4
    <3>2. ~ Before(s.log[j].id, s.log[k].id)
      <4> DEFINE a == s.log[j].id
                 b == s.log[k].id
      <4>1. a[2] \in Nat /\ a[3] \in Nat /\ b[2] \in Nat /\ b[3] \in Nat /\ Before(b, a)
        BY <1>1, <2>1, <3>1
      <4> HIDE DEF a, b
      <4>2. ~ Before(a, b)
        BY <4>1, BeforeIsStrict DEF Before
      <4> QED
        BY <4>2 DEF a, b
    <3> QED
      BY <2>1, <2>4, <3>2
  <2> QED
    BY <1>1, <2>1, <2>2, <2>3, <2>4
<1> QED
  BY <1>2, <1>3

(* A servable cursor is no further back than the oldest event retained. *)
LEMMA ServableIsRetained ==
  ASSUME NEW s, GoodStore(s), NEW k \in 0 .. Len(s.log),
         Servable(s.ring, s.epoch, IdAt(s, k))
  PROVE  Evicted(s) \in 0 .. k
<1> DEFINE d == Evicted(s)
<1>1. /\ Len(s.log) \in Nat /\ Len(s.ring.events) \in Nat
      /\ Len(s.ring.events) <= Len(s.log) /\ s.ring.evictedThrough = IdAt(s, d)
  BY StoreParts DEF GoodStore, RingEndsLog
<1>2. d \in 0 .. Len(s.log)
  BY <1>1, Difference DEF Evicted
<1> HIDE DEF d
<1>3. ~ Before(IdAt(s, k), IdAt(s, d))
  BY <1>1 DEF Servable
<1>4. d > k => d \in 1 .. Len(s.log) /\ IdAt(s, d) = s.log[d].id
  BY <1>1, <1>2 DEF IdAt
<1> QED
  <2>1. d > k => FALSE
    BY <1>3, <1>4, PlacesAscend
  <2> QED
    BY <1>1, <1>2, <2>1 DEF d

LEMMA JoinedIs ==
  ASSUME NEW X, NEW s \in Seq(X), NEW a \in Seq(X), NEW b \in Seq(X),
         Len(s) = Len(a) + Len(b),
         \A i \in 1 .. Len(a) : s[i] = a[i],
         \A i \in 1 .. Len(b) : s[Len(a) + i] = b[i]
  PROVE  s = a \o b
<1> DEFINE u == a \o b
<1>1. /\ Len(a) \in Nat /\ Len(b) \in Nat /\ u \in Seq(X) /\ Len(u) = Len(a) + Len(b)
      /\ \A i \in 1 .. Len(a) : u[i] = a[i]
      /\ \A i \in 1 .. Len(b) : u[Len(a) + i] = b[i]
  BY Joined
<1> HIDE DEF u
<1>2. \A i \in 1 .. Len(s) : s[i] = u[i]
  <2> TAKE i \in 1 .. Len(s)
  <2>1. CASE i <= Len(a)
    BY <1>1, <2>1
  <2>2. CASE i > Len(a)
    <3> DEFINE j == i - Len(a)
    <3>1. j \in 1 .. Len(b) /\ i = Len(a) + j
      BY <1>1, <2>2
    <3> HIDE DEF j
    <3> QED
      BY <1>1, <3>1
  <2> QED
    BY <1>1, <2>1, <2>2
<1>3. s = u
  BY <1>1, <1>2, SeqEqual
<1> QED
  BY <1>3 DEF u

(* l from m + 1 on. *)
Rest(l, m, r, X) ==
  r \in Seq(X) /\ Len(l) = m + Len(r) /\ \A i \in 1 .. Len(r) : r[i] = l[m + i]

LEMMA RestExists ==
  ASSUME NEW X, NEW l \in Seq(X), NEW m \in 0 .. Len(l)
  PROVE  \E r : Rest(l, m, r, X)
<1> DEFINE n == Len(l) - m
           r == [i \in 1 .. n |-> l[m + i]]
<1>1. Len(l) \in Nat /\ m \in Nat /\ n \in Nat /\ Len(l) = m + n
  BY LenProperties
<1> HIDE DEF n
<1>2. \A i \in 1 .. n : m + i \in 1 .. Len(l)
  BY <1>1
<1>3. \A i \in 1 .. n : l[m + i] \in X
  BY <1>2, ElementOfSeq
<1>4. r \in Seq(X) /\ Len(r) = n /\ \A i \in 1 .. n : r[i] = l[m + i]
  BY <1>1, <1>3
<1> HIDE DEF r
<1>5. Rest(l, m, r, X)
  BY <1>1, <1>4 DEF Rest
<1> QED
  BY <1>5

LEMMA RestCompletes ==
  ASSUME NEW X, NEW l \in Seq(X), NEW m \in 0 .. Len(l), NEW r, Rest(l, m, r, X)
  PROVE  l = SubSeq(l, 1, m) \o r
<1> DEFINE p == SubSeq(l, 1, m)
<1>1. Len(l) \in Nat /\ m \in Nat
  BY LenProperties
<1>2. \A i \in 1 .. m : l[i] \in X
  BY <1>1, ElementOfSeq
<1>3. p \in Seq(X) /\ Len(p) = m /\ \A i \in 1 .. m : p[i] = l[i]
  BY <1>1, <1>2, SubSeqProperties
<1> HIDE DEF p
<1>4. r \in Seq(X) /\ Len(l) = Len(p) + Len(r) /\ \A i \in 1 .. Len(r) : l[Len(p) + i] = r[i]
  BY <1>3 DEF Rest
<1>5. l = p \o r
  BY <1>3, <1>4, JoinedIs
<1> QED
  BY <1>5 DEF p

(* Of the end of the log, those behind a position are the rest of the log. *)
LEMMA RestOfEnd ==
  ASSUME NEW X, NEW l \in Seq(X), NEW d \in Nat, NEW e, Rest(l, d, e, X),
         NEW k \in Nat, d <= k, k <= Len(l),
         NEW S, \A i \in 1 .. Len(e) : e[i] \in S <=> k < d + i
  PROVE  Rest(l, k, Within(e, S), X)
<1>1. /\ Len(l) \in Nat /\ e \in Seq(X) /\ Len(e) \in Nat /\ Len(l) = d + Len(e)
      /\ \A i \in 1 .. Len(e) : e[i] = l[d + i]
  BY LenProperties DEF Rest
<1>2. PICK g \in 0 .. Len(e) : k = d + g
  <2> DEFINE g == k - d
  <2>1. g \in 0 .. Len(e) /\ k = d + g
    BY <1>1
  <2> QED
    BY <2>1
<1>3. PICK b : Rest(e, g, b, X)
  BY <1>1, RestExists
<1> DEFINE a == SubSeq(e, 1, g)
<1>4. e = a \o b /\ a \in Seq(X) /\ Len(a) = g /\ \A i \in 1 .. g : a[i] = e[i]
  <2>1. e = a \o b
    BY <1>1, <1>3, RestCompletes
  <2>2. g \in Nat /\ \A i \in 1 .. g : e[i] \in X
    BY <1>1, ElementOfSeq
  <2> QED
    BY <2>1, <2>2, SubSeqProperties
<1>5. /\ b \in Seq(X) /\ Len(b) \in Nat /\ Len(e) = g + Len(b)
      /\ \A i \in 1 .. Len(b) : b[i] = e[g + i]
  BY <1>3, LenProperties DEF Rest
<1> HIDE DEF a
<1>6. Within(a, S) = << >>
  <2>1. ASSUME NEW i \in 1 .. Len(a) PROVE a[i] \notin S
    <3>1. i \in 1 .. Len(e) /\ ~ (k < d + i) /\ a[i] = e[i]
      BY <1>1, <1>2, <1>4
    <3> QED
      BY <3>1
  <2>2. \A x \in Elements(a) : x \notin S
    BY <2>1 DEF Elements
  <2> QED
    BY <1>4, <2>2, WithinNone
<1>7. Within(b, S) = b
  <2>1. ASSUME NEW i \in 1 .. Len(b) PROVE b[i] \in S
    <3>1. g + i \in 1 .. Len(e) /\ k < d + (g + i) /\ b[i] = e[g + i]
      BY <1>1, <1>2, <1>5
    <3> QED
      BY <3>1
  <2>2. \A x \in Elements(b) : x \in S
    BY <2>1 DEF Elements
  <2> QED
    BY <1>5, <2>2, WithinAll
<1>8. Within(e, S) = b
  <2>1. Within(a \o b, S) = Within(a, S) \o Within(b, S)
    <3>1. a \in Seq(X) /\ b \in Seq(X)
      BY <1>4, <1>5
    <3> QED
      BY <3>1, WithinConcat
  <2>2. << >> \o b = b
    BY <1>5, ConcatEmptySeq
  <2> QED
    BY <1>4, <1>6, <1>7, <2>1, <2>2
<1>9. Rest(l, k, b, X)
  <2>1. ASSUME NEW i \in 1 .. Len(b) PROVE b[i] = l[k + i]
    <3>1. g + i \in 1 .. Len(e) /\ b[i] = e[g + i] /\ k + i = d + (g + i)
      BY <1>1, <1>2, <1>5
    <3>2. e[g + i] = l[d + (g + i)]
      BY <1>1, <3>1
    <3> QED
      BY <3>1, <3>2
  <2>2. Len(l) = k + Len(b)
    BY <1>1, <1>2, <1>5
  <2> QED
    BY <1>5, <2>1, <2>2 DEF Rest
<1> QED
  BY <1>8, <1>9

(* The replay from a position is the rest of the log. *)
LEMMA ReplayIsTheRest ==
  ASSUME NEW s, GoodStore(s), NEW k \in 0 .. Len(s.log), Evicted(s) \in 0 .. k
  PROVE  Rest(s.log, k, ReplayFrom(s.ring, IdAt(s, k)), Event)
<1> DEFINE l == s.log
           e == s.ring.events
           d == Evicted(s)
           S == {x \in Elements(e) : Before(IdAt(s, k), x.id)}
<1>1. /\ l \in Seq(Event) /\ Len(l) \in Nat /\ e \in Seq(Event) /\ Len(e) \in Nat
      /\ d = Len(l) - Len(e) /\ d \in 0 .. k /\ k \in 0 .. Len(l)
      /\ \A i \in 1 .. Len(e) : e[i] = l[d + i]
  BY StoreParts DEF GoodStore, RingEndsLog, Evicted
<1>2. ReplayFrom(s.ring, IdAt(s, k)) = Within(e, S)
  BY DEF ReplayFrom
<1>3. \A i \in 1 .. Len(e) : e[i] \in S <=> Before(IdAt(s, k), e[i].id)
  BY DEF Elements
<1>4. \A i \in 1 .. Len(l) : Before(IdAt(s, k), l[i].id) <=> k < i
  BY PlacesAscend
<1> HIDE DEF S, d, l, e
<1>5. d \in Nat /\ k \in Nat /\ d <= k /\ k <= Len(l) /\ Len(l) = d + Len(e)
  BY <1>1
<1>6. ASSUME NEW i \in 1 .. Len(e) PROVE e[i] \in S <=> k < d + i
  <2>1. d + i \in 1 .. Len(l) /\ e[i] = l[d + i]
    BY <1>1, <1>5
  <2>2. Before(IdAt(s, k), l[d + i].id) <=> k < d + i
    BY <1>4, <2>1
  <2> QED
    BY <1>3, <2>1, <2>2
<1>7. Rest(l, d, e, Event)
  BY <1>1, <1>5 DEF Rest
<1>8. Rest(l, k, Within(e, S), Event)
  BY <1>1, <1>5, <1>6, <1>7, RestOfEnd
<1> QED
  BY <1>2, <1>8 DEF l

(* Before anything is sent, a stream is what was told and the replay. *)
LEMMA RegisteredStream ==
  ASSUME NEW t \in Seq(Event), NEW replay \in Seq(Event), mem.epoch \in Nat
  PROVE  /\ Elements(StreamOf(t, Registered(replay)))
              \subseteq Elements(t) \cup Elements(replay)
         /\ \A epoch : OfEpoch(StreamOf(t, Registered(replay)), epoch)
                         = OfEpoch(t, epoch) \o OfEpoch(replay, epoch)
<1> DEFINE r == Registered(replay)
<1>1. r \in Subscriber /\ r.queue = replay /\ r.wire = << >>
  BY RegisteredIsGood
<1> HIDE DEF r
<1>2. Elements(StreamOf(t, r)) \subseteq Elements(t) \cup Elements(replay)
  <2>1. Elements(StreamOf(t, r)) = Elements(t) \cup Elements(<< >>) \cup Elements(replay)
    BY <1>1, StreamParts
  <2> QED
    BY <2>1, NothingIn
<1>3. \A epoch : OfEpoch(StreamOf(t, r), epoch) = OfEpoch(t, epoch) \o OfEpoch(replay, epoch)
  <2> TAKE epoch
  <2>1. OfEpoch(StreamOf(t, r), epoch)
          = (OfEpoch(t, epoch) \o OfEpoch(<< >>, epoch)) \o OfEpoch(replay, epoch)
    BY <1>1, StreamParts
  <2>2. OfEpoch(<< >>, epoch) = << >>
    BY EmptySeq, NothingIn, OfEpochNone
  <2>3. OfEpoch(t, epoch) \o << >> = OfEpoch(t, epoch)
    BY EventsAreItems, OfEpochType, ConcatEmptySeq
  <2> QED
    BY <2>1, <2>2, <2>3
<1> QED
  BY <1>2, <1>3 DEF r

LEMMA Connecting ==
  ASSUME StoreInv, StoreInv', NEW c \in Clients, ClientInv(c), mem' = mem, CanResume(c),
         NEW replay, replay = IF cursor[c] = NoCursor THEN << >>
                                                      ELSE ReplayFrom(mem.ring, cursor[c]),
         sub'[c] = Registered(replay),
         told'[c] = IF cursor[c] = NoCursor THEN mem.log ELSE told[c],
         cursor'[c] = cursor[c]
  PROVE  ClientInv(c)'
<1> DEFINE l == mem.log
           r == Registered(replay)
           t == told'[c]
<1>1. /\ GoodStore(mem) /\ l \in Seq(Event) /\ l \in Seq(Item) /\ Len(l) \in Nat
      /\ mem.epoch \in Nat /\ mem.epoch >= 1
      /\ \A i \in 1 .. Len(l) : l[i].id[1] = mem.epoch
      /\ told[c] \in Seq(Event) /\ cursor[c] \in EventIds /\ cursor[c][1] \in Nat
      /\ cursor[c][1] <= mem.epoch
  BY StoreNow, ClientParts DEF LogAscends, ClientInv, NothingAhead
<1>2. \A e \in Elements(l) : e.id[1] = mem.epoch
  BY <1>1 DEF Elements
<1>3. \A e \in Elements(told[c]) : e.id[1] <= mem.epoch
  BY ClientParts DEF ClientInv, NothingAhead
<1>4. /\ t \in Seq(Event) /\ replay \in Seq(Event)
      /\ \A e \in Elements(t) : e.id[1] <= mem.epoch
      /\ \A e \in Elements(replay) : e.id[1] = mem.epoch
      /\ OfEpoch(t, mem.epoch) \o replay = l
      /\ CursorIsPlace(c)'
  <2>1. CASE cursor[c] = NoCursor
    <3>1. t = l /\ replay = << >> /\ Elements(replay) = {}
      BY <2>1, NothingIn
    <3>2. OfEpoch(l, mem.epoch) = l /\ l \o << >> = l /\ << >> \in Seq(Event)
      BY <1>1, <1>2, OfEpochAll, ConcatEmptySeq, EmptySeq
    <3>3. cursor'[c][1] # mem'.epoch
      BY <1>1, <2>1 DEF NoCursor
    <3>4. CursorIsPlace(c)'
      BY <3>3, ClientThen
    <3>5. \A e \in Elements(l) : e.id[1] <= mem.epoch
      BY <1>1, <1>2
    <3> QED
      BY <1>1, <3>1, <3>2, <3>4, <3>5
  <2>2. CASE cursor[c] # NoCursor
    <3>1. t = told[c] /\ replay = ReplayFrom(mem.ring, cursor[c])
      BY <2>2
    <3>2. Servable(mem.ring, mem.epoch, cursor[c]) /\ cursor[c][1] = mem.epoch
      BY <2>2 DEF CanResume, Servable
    <3>3. PICK k \in 0 .. Len(l) :
            /\ cursor[c] = IdAt(mem, k)
            /\ OfEpoch(told[c], mem.epoch) = SubSeq(l, 1, k)
      BY <3>2, ClientNow DEF ClientInv
    <3>4. Rest(l, k, replay, Event)
      <4>1. Evicted(mem) \in 0 .. k
        BY <1>1, <3>2, <3>3, ServableIsRetained
      <4> QED
        BY <1>1, <3>1, <3>3, <4>1, ReplayIsTheRest
    <3>5. OfEpoch(t, mem.epoch) \o replay = l
      <4>1. l = SubSeq(l, 1, k) \o replay
        BY <1>1, <3>4, RestCompletes
      <4> QED
        BY <3>1, <3>3, <4>1
    <3>6. /\ replay \in Seq(Event) /\ Len(replay) \in Nat /\ Len(l) = k + Len(replay)
          /\ \A i \in 1 .. Len(replay) : replay[i] = l[k + i]
      BY <3>4, LenProperties DEF Rest
    <3>7. ASSUME NEW i \in 1 .. Len(replay) PROVE replay[i].id[1] = mem.epoch
      <4>1. k + i \in 1 .. Len(l)
        BY <1>1, <3>6
      <4> QED
        BY <1>1, <3>6, <4>1
    <3>8. \A e \in Elements(replay) : e.id[1] = mem.epoch
      BY <3>7 DEF Elements
    <3>9. CursorIsPlace(c)'
      <4>1. t = told[c] /\ Len(mem'.log) = Len(l)
        BY <3>1
      <4> QED
        BY <3>3, <4>1, ClientThen
    <3> QED
      BY <1>1, <1>3, <3>1, <3>5, <3>6, <3>8, <3>9
  <2> QED
    BY <2>1, <2>2
<1>5. GoodSubscriber(r) /\ r.state = "open"
  BY <1>1, <1>4, RegisteredIsGood
<1>6. Stream(c)' = StreamOf(t, r)
  BY StreamThen
<1> HIDE DEF t, r, l
<1>7. /\ Elements(StreamOf(t, r)) \subseteq Elements(t) \cup Elements(replay)
      /\ \A epoch : OfEpoch(StreamOf(t, r), epoch) = OfEpoch(t, epoch) \o OfEpoch(replay, epoch)
  BY <1>1, <1>4, RegisteredStream DEF r
<1>8. OfEpoch(replay, mem.epoch) = replay
  BY <1>4, OfEpochAll
<1>9. OfEpoch(StreamOf(t, r), mem.epoch) = l
  BY <1>4, <1>7, <1>8
<1>10. Streams(c)'
  <2>1. sub'[c].state = "open"
    BY <1>5 DEF r
  <2>2. OfEpoch(Stream(c)', mem'.epoch) = mem'.log
    BY <1>6, <1>9 DEF l
  <2> QED
    BY <2>1, <2>2, ClientThen
<1>11. \A e \in Elements(Stream(c)') : e.id[1] <= mem'.epoch
  <2> TAKE e \in Elements(Stream(c)')
  <2>1. e \in Elements(t) \/ e \in Elements(replay)
    BY <1>6, <1>7
  <2> QED
    BY <1>1, <1>4, <2>1
<1>12. ClientTypes(c)'
  BY <1>1, <1>4, <1>5 DEF ClientTypes, t, r
<1> QED
  BY <1>1, <1>4, <1>10, <1>11, <1>12 DEF ClientInv, NothingAhead

-----------------------------------------------------------------------------
(* The invariant, at the start and after every step. *)

LEMMA StreamStarts == Init => StreamInv
<1> SUFFICES ASSUME Init PROVE StreamInv
  OBVIOUS
<1>1. StoreInv
  BY InitStore
<1>2. Maps
  BY DEF Init, Maps
<1>3. mem.epoch = 1 /\ mem.log = << >> /\ Len(mem.log) = 0
  BY EmptySeq DEF Init, Fresh
<1>4. ASSUME NEW c \in Clients PROVE ClientInv(c)
  <2>1. sub[c] = NoSubscriber /\ cursor[c] = NoCursor /\ told[c] = << >>
    BY DEF Init
  <2>2. << >> \in Seq(Event) /\ NoCursor \in EventIds /\ NoCursor[1] = 0
    BY EmptySeq DEF NoCursor, EventIds
  <2>3. ClientTypes(c)
    BY <2>1, <2>2, NoSubscriberIsGood DEF ClientTypes
  <2>4. Elements(Stream(c)) = {}
    <3>1. Elements(Stream(c)) = Elements(<< >>) \cup Elements(<< >>) \cup Elements(<< >>)
      BY <2>1, <2>3, ClientParts, NoSubscriberIsGood
    <3> QED
      BY <3>1, NothingIn
  <2>5. NothingAhead(c)
    BY <1>3, <2>1, <2>2, <2>4 DEF NothingAhead
  <2>6. Streams(c)
    BY <2>1, NoSubscriberIsGood DEF Streams
  <2>7. CursorIsPlace(c)
    BY <1>3, <2>1, <2>2 DEF CursorIsPlace
  <2> QED
    BY <2>3, <2>5, <2>6, <2>7 DEF ClientInv
<1> QED
  BY <1>1, <1>2, <1>4 DEF StreamInv

(* A step of one client leaves the store, and the others, alone. *)
LEMMA OneClient ==
  ASSUME StreamInv, NEW c \in Clients,
         UNCHANGED <<mem, disk, epochsIssued, requests, resetters>>,
         Maps', \A d \in Clients \ {c} : UNCHANGED <<sub[d], cursor[d], told[d]>>
  PROVE  StoreInv' /\ (ClientInv(c)' => StreamInv')
<1>1. StoreInv' /\ LogGoesOn
  BY SameStore DEF StreamInv, StoreInv
<1>2. ASSUME NEW d \in Clients \ {c} PROVE ClientInv(d)'
  <2>1. ClientInv(d) /\ UNCHANGED <<sub[d], cursor[d], told[d]>> /\ mem'.log = mem.log
    BY DEF StreamInv
  <2> QED
    BY <1>1, <2>1, Untouched DEF StreamInv
<1> QED
  BY <1>1, <1>2 DEF StreamInv

LEMMA CommitKeepsStreams == StreamInv /\ Commit => StreamInv'
<1> SUFFICES ASSUME StreamInv, Commit PROVE StreamInv'
  OBVIOUS
<1>1. StoreInv' /\ LogGoesOn /\ GoodStore(mem) /\ StoreInv
  BY CommitStore, StoreNow DEF StreamInv
<1>2. UNCHANGED <<cursor, told>>
  BY DEF Commit
<1>3. PICK n \in 1 .. MaxBatch :
        \/ mem' = Committed(n, "synced") /\ Publish(NewEvents(mem'))
        \/ UNCHANGED <<mem, sub>>
  BY DEF Commit
<1>4. CASE mem' = Committed(n, "synced") /\ Publish(NewEvents(mem'))
  <2> DEFINE b == Batch(n, "synced")
  <2>1. n \in Nat /\ n >= 1
    BY Capacities
  <2>2. /\ b \in Seq(Event) /\ \A e \in Elements(b) : e.id[1] = mem.epoch
        /\ mem'.epoch = mem.epoch /\ mem'.log = mem.log \o b /\ NewEvents(mem') = b
    BY <1>1, <1>4, <2>1, BatchTyped, BatchOfEpoch, CommittedIsGood
  <2> HIDE DEF b
  <2>3. sub' = [c \in Clients |-> Delivered(sub[c], b)]
    BY <1>4, <2>2 DEF Publish
  <2>4. Maps'
    BY <1>2, <2>3 DEF StreamInv, Maps
  <2>5. ASSUME NEW c \in Clients PROVE ClientInv(c)'
    <3>1. sub'[c] = Delivered(sub[c], b) /\ UNCHANGED <<cursor[c], told[c]>> /\ ClientInv(c)
      BY <1>2, <2>3 DEF StreamInv
    <3> QED
      BY <1>1, <2>2, <3>1, Delivering
  <2> QED
    BY <1>1, <2>4, <2>5 DEF StreamInv
<1>5. CASE UNCHANGED <<mem, sub>>
  <2>1. Maps'
    BY <1>2, <1>5 DEF StreamInv, Maps
  <2>2. ASSUME NEW c \in Clients PROVE ClientInv(c)'
    <3>1. ClientInv(c) /\ UNCHANGED <<sub[c], cursor[c], told[c]>> /\ mem'.log = mem.log
      BY <1>2, <1>5 DEF StreamInv
    <3> QED
      BY <1>1, <3>1, Untouched
  <2> QED
    BY <1>1, <2>1, <2>2 DEF StreamInv
<1> QED
  BY <1>3, <1>4, <1>5

(* Requests and resets. *)
LEMMA LeasesKeepStreams ==
  StreamInv /\ (RequestBegins \/ RequestEnds \/ ResetAtOnce \/ ResetWaits \/ ResetGranted)
    => StreamInv'
<1> SUFFICES ASSUME StreamInv,
                    RequestBegins \/ RequestEnds \/ ResetAtOnce \/ ResetWaits \/ ResetGranted
             PROVE  StreamInv'
  OBVIOUS
<1>1. /\ StoreInv /\ UNCHANGED <<cursor, told>>
      /\ requests \in Nat /\ resetters \in Nat /\ mem.log \in Seq(Event)
      /\ requests' \in Nat /\ resetters' \in Nat
  <2>1. StoreInv /\ requests \in Nat /\ resetters \in Nat
    BY DEF StreamInv, StoreInv
  <2>2. UNCHANGED <<cursor, told>>
    BY DEF RequestBegins, RequestEnds, ResetAtOnce, ResetWaits, ResetGranted
  <2>3. requests' \in Nat /\ resetters' \in Nat
    BY <2>1 DEF RequestBegins, RequestEnds, ResetAtOnce, ResetWaits, ResetGranted
  <2> QED
    BY <2>1, <2>2, <2>3, StoreNow
<1>2. StoreInv' /\ (mem' = mem \/ EpochTurns)
  <2>1. Reseed \/ UNCHANGED <<mem, disk, epochsIssued>>
    BY DEF RequestBegins, RequestEnds, ResetAtOnce, ResetWaits, ResetGranted
  <2> QED
    BY <1>1, <2>1, ReseedStore, SameStore
<1>3. (LogGoesOn /\ mem'.log = mem.log) \/ EpochTurns
  BY <1>1, <1>2, BeginsFacts DEF LogGoesOn
<1>4. sub' = sub \/ sub' = [c \in Clients |-> Closed(sub[c])]
  BY DEF RequestBegins, RequestEnds, ResetAtOnce, ResetWaits, ResetGranted, CloseAll
<1>5. Maps'
  BY <1>1, <1>4 DEF StreamInv, Maps
<1>6. ASSUME NEW c \in Clients PROVE ClientInv(c)'
  <2>1. ClientInv(c) /\ UNCHANGED <<cursor[c], told[c]>>
    BY <1>1 DEF StreamInv
  <2>2. sub'[c] = sub[c] \/ sub'[c] = Closed(sub[c])
    BY <1>4
  <2> QED
    BY <1>1, <1>2, <1>3, <2>1, <2>2, Untouched, Closing
<1> QED
  BY <1>2, <1>5, <1>6 DEF StreamInv

LEMMA RestartKeepsStreams == StreamInv /\ Restart => StreamInv'
<1> SUFFICES ASSUME StreamInv, Restart PROVE StreamInv'
  OBVIOUS
<1>1. StoreInv /\ StoreInv' /\ (LogGoesOn \/ EpochTurns)
  BY RestartStore DEF StreamInv
<1>2. sub' = [c \in Clients |-> NoSubscriber] /\ UNCHANGED <<cursor, told>>
  BY DEF Restart
<1>3. Maps'
  BY <1>2 DEF StreamInv, Maps
<1>4. ASSUME NEW c \in Clients PROVE ClientInv(c)'
  <2>1. ClientInv(c) /\ sub'[c] = NoSubscriber /\ UNCHANGED <<cursor[c], told[c]>>
    BY <1>2 DEF StreamInv
  <2> QED
    BY <1>1, <2>1, CutOff
<1> QED
  BY <1>1, <1>3, <1>4 DEF StreamInv

LEMMA ConnectKeepsStreams ==
  ASSUME NEW c \in Clients PROVE StreamInv /\ Connect(c) => StreamInv'
<1> SUFFICES ASSUME StreamInv, Connect(c) PROVE StreamInv'
  OBVIOUS
<1> DEFINE replay == IF cursor[c] = NoCursor THEN << >> ELSE ReplayFrom(mem.ring, cursor[c])
<1>1. /\ UNCHANGED <<mem, disk, epochsIssued, requests, resetters>>
      /\ CanResume(c) /\ cursor' = cursor
      /\ sub' = [sub EXCEPT ![c] = Registered(replay)]
      /\ told' = IF cursor[c] = NoCursor THEN [told EXCEPT ![c] = mem.log] ELSE told
  BY DEF Connect
<1> HIDE DEF replay
<1>2. Maps
  BY DEF StreamInv
<1>3. /\ Maps' /\ \A d \in Clients \ {c} : UNCHANGED <<sub[d], cursor[d], told[d]>>
      /\ sub'[c] = Registered(replay) /\ cursor'[c] = cursor[c]
      /\ told'[c] = IF cursor[c] = NoCursor THEN mem.log ELSE told[c]
  BY <1>1, <1>2 DEF Maps
<1>4. StoreInv' /\ (ClientInv(c)' => StreamInv')
  BY <1>1, <1>3, OneClient
<1>5. ClientInv(c)'
  BY <1>1, <1>3, <1>4, Connecting DEF StreamInv, replay
<1> QED
  BY <1>4, <1>5

LEMMA SyncKeepsStreams ==
  ASSUME NEW c \in Clients PROVE StreamInv /\ Sync(c) => StreamInv'
<1> SUFFICES ASSUME StreamInv, Sync(c) PROVE StreamInv'
  OBVIOUS
<1>1. /\ UNCHANGED <<mem, disk, epochsIssued, requests, resetters>> /\ Off(c)
      /\ sub' = sub
      /\ cursor' = [cursor EXCEPT ![c] = mem.ring.streamCursor]
      /\ told' = [told EXCEPT ![c] = mem.log]
  BY DEF Sync
<1>2. Maps
  BY DEF StreamInv
<1>3. /\ Maps' /\ \A d \in Clients \ {c} : UNCHANGED <<sub[d], cursor[d], told[d]>>
      /\ sub'[c] = sub[c] /\ cursor'[c] = mem.ring.streamCursor /\ told'[c] = mem.log
  BY <1>1, <1>2 DEF Maps
<1>4. StoreInv' /\ (ClientInv(c)' => StreamInv')
  BY <1>1, <1>3, OneClient
<1>5. ClientInv(c)'
  BY <1>1, <1>3, <1>4, Syncing DEF StreamInv
<1> QED
  BY <1>4, <1>5

LEMMA SendKeepsStreams ==
  ASSUME NEW c \in Clients PROVE StreamInv /\ Send(c) => StreamInv'
<1> SUFFICES ASSUME StreamInv, Send(c) PROVE StreamInv'
  OBVIOUS
<1>1. /\ UNCHANGED <<mem, disk, epochsIssued, requests, resetters, cursor, told>>
      /\ sub[c].queue # << >> /\ Head(sub[c].queue) # EndMarker
      /\ sub' = [sub EXCEPT ![c] = Sent(sub[c])]
  BY DEF Send, Sent
<1>2. Maps
  BY DEF StreamInv
<1>3. /\ Maps' /\ \A d \in Clients \ {c} : UNCHANGED <<sub[d], cursor[d], told[d]>>
      /\ sub'[c] = Sent(sub[c]) /\ UNCHANGED <<cursor[c], told[c]>>
  BY <1>1, <1>2 DEF Maps
<1>4. StoreInv' /\ (ClientInv(c)' => StreamInv')
  BY <1>1, <1>3, OneClient
<1>5. ClientInv(c)'
  BY <1>1, <1>3, <1>4, Sending DEF StreamInv
<1> QED
  BY <1>4, <1>5

LEMMA ReceiveKeepsStreams ==
  ASSUME NEW c \in Clients PROVE StreamInv /\ Receive(c) => StreamInv'
<1> SUFFICES ASSUME StreamInv, Receive(c) PROVE StreamInv'
  OBVIOUS
<1> DEFINE e == Head(sub[c].wire)
           r == [sub[c] EXCEPT !.wire = Tail(sub[c].wire)]
<1>1. /\ UNCHANGED <<mem, disk, epochsIssued, requests, resetters>>
      /\ sub[c].wire # << >>
      /\ cursor' = [cursor EXCEPT ![c] = e.id]
      /\ told' = [told EXCEPT ![c] = Append(told[c], e)]
      /\ sub' = [sub EXCEPT ![c] = r]
  BY DEF Receive
<1> HIDE DEF e, r
<1>2. Maps
  BY DEF StreamInv
<1>3. /\ Maps' /\ \A d \in Clients \ {c} : UNCHANGED <<sub[d], cursor[d], told[d]>>
      /\ sub'[c] = r /\ cursor'[c] = e.id /\ told'[c] = Append(told[c], e)
  BY <1>1, <1>2 DEF Maps
<1>4. StoreInv' /\ (ClientInv(c)' => StreamInv')
  BY <1>1, <1>3, OneClient
<1>5. ClientInv(c)'
  BY <1>1, <1>3, <1>4, Receiving DEF StreamInv, e, r
<1> QED
  BY <1>4, <1>5

LEMMA LeavingKeepsStreams ==
  ASSUME NEW c \in Clients PROVE StreamInv /\ (StreamEnds(c) \/ Drop(c)) => StreamInv'
<1> SUFFICES ASSUME StreamInv, StreamEnds(c) \/ Drop(c) PROVE StreamInv'
  OBVIOUS
<1>1. /\ UNCHANGED <<mem, disk, epochsIssued, requests, resetters, cursor, told>>
      /\ sub' = [sub EXCEPT ![c] = NoSubscriber]
  BY DEF StreamEnds, Drop
<1>2. Maps
  BY DEF StreamInv
<1>3. /\ Maps' /\ \A d \in Clients \ {c} : UNCHANGED <<sub[d], cursor[d], told[d]>>
      /\ sub'[c] = NoSubscriber /\ UNCHANGED <<cursor[c], told[c]>>
  BY <1>1, <1>2 DEF Maps
<1>4. StoreInv' /\ (ClientInv(c)' => StreamInv')
  BY <1>1, <1>3, OneClient
<1>5. LogGoesOn
  BY <1>1, StoreNow, BeginsFacts DEF StreamInv, LogGoesOn
<1>6. ClientInv(c)'
  BY <1>3, <1>4, <1>5, CutOff DEF StreamInv
<1> QED
  BY <1>4, <1>6

LEMMA StandingStill == StreamInv /\ UNCHANGED vars => StreamInv'
<1> SUFFICES ASSUME StreamInv, UNCHANGED vars PROVE StreamInv'
  OBVIOUS
<1>1. StoreInv' /\ LogGoesOn
  BY SameStore DEF StreamInv, StoreInv, vars
<1>2. Maps'
  BY DEF StreamInv, Maps, vars
<1>3. ASSUME NEW c \in Clients PROVE ClientInv(c)'
  <2>1. ClientInv(c) /\ UNCHANGED <<sub[c], cursor[c], told[c]>> /\ mem'.log = mem.log
    BY DEF StreamInv, vars
  <2> QED
    BY <1>1, <2>1, Untouched DEF StreamInv
<1> QED
  BY <1>1, <1>2, <1>3 DEF StreamInv

LEMMA StreamsHold == Spec => []StreamInv
<1>1. StreamInv /\ [Next]_vars => StreamInv'
  <2> SUFFICES ASSUME StreamInv, [Next]_vars PROVE StreamInv'
    OBVIOUS
  <2>1. CASE Commit
    BY <2>1, CommitKeepsStreams
  <2>2. CASE RequestBegins \/ RequestEnds \/ ResetAtOnce \/ ResetWaits \/ ResetGranted
    BY <2>2, LeasesKeepStreams
  <2>3. CASE Restart
    BY <2>3, RestartKeepsStreams
  <2>4. ASSUME NEW c \in Clients,
               \/ Connect(c) \/ Sync(c) \/ Send(c) \/ Receive(c)
               \/ StreamEnds(c) \/ Drop(c)
        PROVE  StreamInv'
    BY <2>4, ConnectKeepsStreams, SyncKeepsStreams, SendKeepsStreams,
       ReceiveKeepsStreams, LeavingKeepsStreams
  <2>5. CASE UNCHANGED vars
    BY <2>5, StandingStill
  <2> QED
    BY <2>1, <2>2, <2>3, <2>4, <2>5 DEF Next
<1> QED
  BY <1>1, StreamStarts, PTL DEF Spec

-----------------------------------------------------------------------------
(* The theorems. *)

(***************************************************************************)
(* Snapshots, subscribers and cursors are always well formed, and no queue *)
(* outgrows the size its subscriber was registered with.                   *)
(***************************************************************************)
THEOREM StreamTyped == Spec => []TypeOK
<1>1. StreamInv => TypeOK
  <2> SUFFICES ASSUME StreamInv PROVE TypeOK
    OBVIOUS
  <2>1. /\ mem \in Store /\ disk \in Store
        /\ epochsIssued \in Nat /\ requests \in Nat /\ resetters \in Nat
    BY DEF StreamInv, StoreInv, GoodStore
  <2>2. \A c \in Clients :
          /\ sub[c] \in Subscriber /\ Len(sub[c].queue) <= sub[c].maxsize
          /\ cursor[c] \in EventIds /\ told[c] \in Seq(Event)
    BY DEF StreamInv, ClientInv, ClientTypes, GoodSubscriber
  <2>3. Maps
    BY DEF StreamInv
  <2>4. sub \in [Clients -> Subscriber]
    BY <2>2, <2>3 DEF Maps
  <2>5. cursor \in [Clients -> EventIds]
    BY <2>2, <2>3 DEF Maps
  <2>6. told \in [Clients -> Seq(Event)]
    BY <2>2, <2>3 DEF Maps
  <2> QED
    BY <2>1, <2>2, <2>4, <2>5, <2>6 DEF TypeOK
<1> QED
  BY <1>1, StreamsHold, PTL

(***************************************************************************)
(* What a client has been told, what is on its wire and what is queued for *)
(* it make up the log of the epoch, each event once and in order: all of   *)
(* it while the stream is live, its beginning once it has been closed.     *)
(***************************************************************************)
THEOREM StreamsCarryTheLog == Spec => []StreamIsTheLog
<1>1. StreamInv => StreamIsTheLog
  <2> SUFFICES ASSUME StreamInv, NEW c \in Clients
               PROVE  /\ sub[c].state = "open" => Current(Stream(c)) = mem.log
                      /\ sub[c].state = "closed" => IsPrefix(Current(Stream(c)), mem.log)
    BY DEF StreamIsTheLog, Stream, StreamOf
  <2>1. /\ sub[c].state = "open" => Current(Stream(c)) = mem.log
        /\ sub[c].state = "closed" => Begins(Current(Stream(c)), mem.log)
    BY DEF StreamInv, ClientInv, Streams
  <2> DEFINE s == Current(Stream(c))
  <2>2. s \in Seq(Item) /\ mem.log \in Seq(Item)
    BY StoreNow, ClientParts, CurrentIsOfEpoch, OfEpochType DEF StreamInv, ClientInv
  <2> HIDE DEF s
  <2>3. Begins(s, mem.log) => IsPrefix(s, mem.log)
    <3>1. Len(s) \in Nat /\ Len(mem.log) \in Nat
      BY <2>2, LenProperties
    <3>2. ASSUME Begins(s, mem.log) PROVE s = SubSeq(mem.log, 1, Len(s))
      <4> DEFINE p == SubSeq(mem.log, 1, Len(s))
      <4>1. \A i \in 1 .. Len(s) : mem.log[i] \in Item
        BY <2>2, <3>1, <3>2, ElementOfSeq DEF Begins
      <4>2. /\ p \in Seq(Item) /\ Len(p) = Len(s)
            /\ \A i \in 1 .. Len(s) : p[i] = mem.log[i]
        BY <3>1, <4>1, SubSeqProperties
      <4> HIDE DEF p
      <4>3. s = p
        BY <2>2, <3>1, <3>2, <4>2, SeqEqual DEF Begins
      <4> QED
        BY <4>3 DEF p
    <3> QED
      BY <3>1, <3>2 DEF Begins, IsPrefix
  <2> QED
    BY <2>1, <2>3 DEF s
<1> QED
  BY <1>1, StreamsHold, PTL

-----------------------------------------------------------------------------
(* The feed that one client sees. *)

Heard(c) == OfEpoch(told[c], mem.epoch)

Rests(c)    == mem'.epoch = mem.epoch /\ mem'.log = mem.log /\ Heard(c)' = Heard(c)
Grows(c)    == /\ mem'.epoch = mem.epoch /\ Heard(c)' = Heard(c)
               /\ Len(mem.log) < Len(mem'.log)
               /\ mem.log = SubSeq(mem'.log, 1, Len(mem.log))
Hears(c)    == /\ mem'.epoch = mem.epoch /\ mem'.log = mem.log
               /\ Heard(c) # mem.log
               /\ Heard(c)' = SubSeq(mem.log, 1, Len(Heard(c)) + 1)
Jumps(c)    == mem'.epoch = mem.epoch /\ mem'.log = mem.log /\ Heard(c)' = mem.log
Restarts(c) == mem'.epoch > mem.epoch /\ mem'.log = << >> /\ Heard(c)' = << >>

FeedMoves(c) == Rests(c) \/ Grows(c) \/ Hears(c) \/ Jumps(c) \/ Restarts(c)

LEMMA FeedMovesAreSteps ==
  ASSUME NEW c, FeedMoves(c)
  PROVE  [Feed(c)!FNext]_(Feed(c)!fvars)
<1>1. Current(told[c]) = Heard(c)
  BY DEF Heard, Current, OfEpoch
<1>2. Current(told[c])' = Heard(c)'
  BY DEF Heard, Current, OfEpoch
<1>3. CASE Rests(c)
  BY <1>1, <1>2, <1>3 DEF Rests, Feed!fvars
<1>4. CASE Grows(c)
  BY <1>1, <1>2, <1>4 DEF Grows, Feed!FNext, Feed!LogGrows
<1>5. CASE Hears(c)
  BY <1>1, <1>2, <1>5 DEF Hears, Feed!FNext, Feed!HearNext
<1>6. CASE Jumps(c)
  BY <1>1, <1>2, <1>6 DEF Jumps, Feed!FNext, Feed!TakeSnapshot
<1>7. CASE Restarts(c)
  BY <1>1, <1>2, <1>7 DEF Restarts, Feed!FNext, Feed!NewEpoch
<1> QED
  BY <1>3, <1>4, <1>5, <1>6, <1>7 DEF FeedMoves

LEMMA FeedStarts ==
  ASSUME NEW c \in Clients, Init
  PROVE  Feed(c)!FInit
<1>1. mem.epoch = 1 /\ mem.log = << >> /\ told[c] = << >>
  BY DEF Init, Fresh
<1>2. OfEpoch(<< >>, mem.epoch) = << >>
  BY EmptySeq, NothingIn, OfEpochNone
<1> QED
  BY <1>1, <1>2 DEF Feed!FInit, Current, OfEpoch

(* While its client is told nothing, only the store can move the feed. *)
LEMMA FeedFollowsStore ==
  ASSUME StoreInv, StoreInv', NEW c \in Clients, ClientInv(c), told'[c] = told[c],
         LogGoesOn \/ EpochTurns
  PROVE  FeedMoves(c)
<1>1. /\ mem.log \in Seq(Event) /\ mem'.log \in Seq(Event)
      /\ Len(mem.log) \in Nat /\ Len(mem'.log) \in Nat
      /\ mem.epoch \in Nat /\ mem'.epoch \in Nat
  BY StoreNow, StoreThen
<1>2. Heard(c)' = OfEpoch(told'[c], mem'.epoch)
  BY DEF Heard, OfEpoch
<1>3. CASE LogGoesOn
  <2>1. mem'.epoch = mem.epoch /\ Heard(c)' = Heard(c) /\ Begins(mem.log, mem'.log)
    BY <1>2, <1>3 DEF LogGoesOn, Heard
  <2>2. mem.log = SubSeq(mem'.log, 1, Len(mem.log))
    <3>1. Len(mem.log) \in 0 .. Len(mem.log)
      BY <1>1
    <3>2. SubSeq(mem.log, 1, Len(mem.log)) = SubSeq(mem'.log, 1, Len(mem.log))
      BY <1>1, <2>1, <3>1, SamePart
    <3> QED
      BY <1>1, <3>2, SubSeqFull
  <2>3. CASE Len(mem.log) < Len(mem'.log)
    BY <2>1, <2>2, <2>3 DEF FeedMoves, Grows
  <2>4. CASE Len(mem.log) = Len(mem'.log)
    <3>1. mem'.log = mem.log
      BY <1>1, <2>2, <2>4, SubSeqFull
    <3> QED
      BY <2>1, <3>1 DEF FeedMoves, Rests
  <2> QED
    BY <1>1, <2>1, <2>3, <2>4 DEF Begins
<1>4. CASE EpochTurns
  <2>1. told[c] \in Seq(Item) /\ \A e \in Elements(told[c]) : e.id[1] <= mem.epoch
    BY ClientParts DEF ClientInv, NothingAhead
  <2>2. OfEpoch(told[c], mem'.epoch) = << >>
    BY <1>1, <1>4, <2>1, OlderIsGone DEF EpochTurns
  <2> QED
    BY <1>2, <1>4, <2>2 DEF FeedMoves, Restarts, EpochTurns
<1> QED
  BY <1>3, <1>4

(* The store in a step: it goes on, or starts a new epoch. *)
LEMMA StoreMoves ==
  StreamInv /\ [Next]_vars => LogGoesOn \/ EpochTurns
<1> SUFFICES ASSUME StreamInv, [Next]_vars PROVE LogGoesOn \/ EpochTurns
  OBVIOUS
<1>1. StoreInv /\ mem.log \in Seq(Event) /\ requests \in Nat /\ resetters \in Nat
  BY StoreNow DEF StreamInv, StoreInv
<1>2. mem' = mem => LogGoesOn
  BY <1>1, BeginsFacts DEF LogGoesOn
<1>3. CASE Commit
  BY <1>1, <1>3, CommitStore
<1>4. CASE Restart
  BY <1>1, <1>4, RestartStore
<1>5. CASE RequestBegins \/ RequestEnds \/ ResetAtOnce \/ ResetWaits \/ ResetGranted
  <2>1. Reseed \/ mem' = mem
    BY <1>5 DEF RequestBegins, RequestEnds, ResetAtOnce, ResetWaits, ResetGranted
  <2>2. requests' \in Nat /\ resetters' \in Nat
    BY <1>1, <1>5 DEF RequestBegins, RequestEnds, ResetAtOnce, ResetWaits, ResetGranted
  <2> QED
    BY <1>1, <1>2, <2>1, <2>2, ReseedStore
<1>6. ASSUME NEW c \in Clients,
             \/ Connect(c) \/ Sync(c) \/ Send(c) \/ Receive(c)
             \/ StreamEnds(c) \/ Drop(c)
      PROVE  LogGoesOn \/ EpochTurns
  BY <1>2, <1>6 DEF Connect, Sync, Send, Receive, StreamEnds, Drop
<1>7. CASE UNCHANGED vars
  BY <1>2, <1>7 DEF vars
<1> QED
  BY <1>3, <1>4, <1>5, <1>6, <1>7 DEF Next

LEMMA ReceivingIsHearing ==
  ASSUME StreamInv, StreamInv', NEW c \in Clients, mem' = mem, sub[c].wire # << >>,
         cursor'[c] = Head(sub[c].wire).id,
         told'[c] = Append(told[c], Head(sub[c].wire))
  PROVE  FeedMoves(c)
<1> DEFINE e     == Head(sub[c].wire)
           t     == told[c]
           one   == <<e>>
           more  == Append(t, e)
           heard == Heard(c)
           l     == mem.log
<1>1. /\ t \in Seq(Event) /\ t \in Seq(Item) /\ l \in Seq(Event) /\ Len(l) \in Nat
      /\ sub[c].wire \in Seq(Event) /\ told'[c] = more /\ cursor'[c] = e.id
      /\ heard = OfEpoch(t, mem.epoch)
  BY StoreNow, ClientParts, SubscriberParts DEF StreamInv, ClientInv, Heard
<1>2. e \in Event /\ e \in Item
  BY <1>1, HeadTailProperties DEF Item
<1>3. heard \in Seq(Item) /\ Len(heard) \in Nat
  BY <1>1, OfEpochType, LenProperties
<1>4. Heard(c)' = OfEpoch(more, mem.epoch)
  <2>1. Heard(c)' = OfEpoch(told'[c], mem'.epoch)
    BY DEF Heard, OfEpoch
  <2> QED
    BY <1>1, <2>1
<1> HIDE DEF e, t, heard, l
<1>5. one \in Seq(Event) /\ one \in Seq(Item) /\ more = t \o one
  <2>1. <<e>> \in Seq(Event)
    BY <1>2
  <2>2. Append(t, e) = t \o <<e>>
    BY <1>1, <1>2, AppendIsConcat
  <2> QED
    BY <2>1, <2>2, EventsAreItems
<1>6. \A x \in Elements(one) : x = e
  BY DEF Elements
<1> HIDE DEF one, more
<1>7. Heard(c)' = heard \o OfEpoch(one, mem.epoch)
  BY <1>1, <1>4, <1>5, OfEpochJoined
<1>8. CASE e.id[1] # mem.epoch
  <2>1. OfEpoch(one, mem.epoch) = << >>
    BY <1>5, <1>6, <1>8, OfEpochNone
  <2>2. Heard(c)' = heard
    BY <1>3, <1>7, <2>1, ConcatEmptySeq
  <2> QED
    BY <2>2 DEF FeedMoves, Rests, heard
<1>9. CASE e.id[1] = mem.epoch
  <2>1. OfEpoch(one, mem.epoch) = one
    BY <1>5, <1>6, <1>9, OfEpochAll
  <2> DEFINE now == Heard(c)'
  <2>2. now \in Seq(Item) /\ Len(now) = Len(heard) + 1
    <3>1. now = heard \o one /\ Len(one) = 1
      BY <1>7, <2>1 DEF one
    <3>2. heard \o one \in Seq(Item) /\ Len(heard \o one) = Len(heard) + Len(one)
      BY <1>3, <1>5, Joined
    <3> QED
      BY <3>1, <3>2
  <2>3. PICK k \in 0 .. Len(l) : now = SubSeq(l, 1, k)
    <3>1. CursorIsPlace(c)'
      BY DEF StreamInv, ClientInv
    <3>2. now = OfEpoch(told'[c], mem'.epoch)
      BY DEF Heard, OfEpoch
    <3>3. cursor'[c][1] = mem'.epoch
      BY <1>1, <1>9
    <3>4. \E k \in 0 .. Len(mem'.log) :
            OfEpoch(told'[c], mem'.epoch) = SubSeq(mem'.log, 1, k)
      BY <3>1, <3>3, ClientThen
    <3> QED
      BY <3>2, <3>4 DEF l
  <2> HIDE DEF now
  <2>4. Len(SubSeq(l, 1, k)) = k
    <3>1. k \in Nat /\ \A i \in 1 .. k : l[i] \in Event
      BY <1>1, ElementOfSeq
    <3> QED
      BY <3>1, SubSeqProperties
  <2>5. k = Len(heard) + 1
    BY <2>2, <2>3, <2>4
  <2>6. heard # l
    BY <1>1, <1>3, <2>5
  <2> QED
    BY <2>3, <2>5, <2>6 DEF FeedMoves, Hears, now, heard, l
<1> QED
  BY <1>8, <1>9

(***************************************************************************)
(* Every step is, for every client, a step of its feed or none: commits    *)
(* and restarts grow it, resets start it over, a frame that arrives is the *)
(* next event, and only a snapshot or a first connection jumps ahead.      *)
(***************************************************************************)
THEOREM StreamIsAFeed == Spec => RefinesFeed
<1>1. ASSUME Init PROVE \A c \in Clients : Feed(c)!FInit
  BY <1>1, FeedStarts
<1>2. ASSUME StreamInv, StreamInv', [Next]_vars, NEW c \in Clients
      PROVE  [Feed(c)!FNext]_(Feed(c)!fvars)
  <2>1. StoreInv /\ StoreInv' /\ ClientInv(c) /\ Maps
    BY <1>2 DEF StreamInv
  <2>2. ASSUME told'[c] = told[c] PROVE FeedMoves(c)
    BY <1>2, <2>1, <2>2, StoreMoves, FeedFollowsStore
  <2>3. ASSUME mem' = mem, told'[c] = mem.log PROVE FeedMoves(c)
    <3>1. GoodStore(mem) /\ Len(mem.log) \in 0 .. Len(mem.log)
      BY <2>1, StoreNow
    <3>2. OfEpoch(mem.log, mem.epoch) = mem.log
      BY <3>1, LogOfEpoch
    <3>3. Heard(c)' = OfEpoch(told'[c], mem'.epoch)
      BY DEF Heard, OfEpoch
    <3>4. Heard(c)' = mem.log
      BY <2>3, <3>2, <3>3
    <3> QED
      BY <2>3, <3>4 DEF FeedMoves, Jumps
  <2>4. told = [d \in Clients |-> told[d]] /\ cursor = [d \in Clients |-> cursor[d]]
    BY <2>1 DEF Maps
  <2>5. FeedMoves(c)
    <3>1. CASE \/ Commit \/ RequestBegins \/ RequestEnds
               \/ ResetAtOnce \/ ResetWaits \/ ResetGranted \/ Restart
      BY <2>2, <3>1 DEF Commit, RequestBegins, RequestEnds, ResetAtOnce, ResetWaits,
                        ResetGranted, Restart
    <3>2. ASSUME NEW d \in Clients, Connect(d) PROVE FeedMoves(c)
      <4>1. mem' = mem /\ told' \in {told, [told EXCEPT ![d] = mem.log]}
        BY <3>2 DEF Connect
      <4>2. told'[c] = told[c] \/ told'[c] = mem.log
        BY <2>4, <4>1
      <4> QED
        BY <2>2, <2>3, <4>1, <4>2
    <3>3. ASSUME NEW d \in Clients, Sync(d) PROVE FeedMoves(c)
      <4>1. mem' = mem /\ told' = [told EXCEPT ![d] = mem.log]
        BY <3>3 DEF Sync
      <4>2. told'[c] = told[c] \/ told'[c] = mem.log
        BY <2>4, <4>1
      <4> QED
        BY <2>2, <2>3, <4>1, <4>2
    <3>4. ASSUME NEW d \in Clients, Send(d) \/ StreamEnds(d) \/ Drop(d) PROVE FeedMoves(c)
      BY <2>2, <3>4 DEF Send, StreamEnds, Drop
    <3>5. ASSUME NEW d \in Clients, Receive(d) PROVE FeedMoves(c)
      <4> DEFINE e == Head(sub[d].wire)
      <4>1. /\ mem' = mem /\ sub[d].wire # << >>
            /\ cursor' = [cursor EXCEPT ![d] = e.id]
            /\ told' = [told EXCEPT ![d] = Append(told[d], e)]
        BY <3>5 DEF Receive
      <4>2. CASE d = c
        <5>1. cursor'[c] = e.id /\ told'[c] = Append(told[c], e)
          BY <2>4, <4>1, <4>2
        <5> QED
          BY <1>2, <4>1, <4>2, <5>1, ReceivingIsHearing
      <4>3. CASE d # c
        BY <2>2, <2>4, <4>1, <4>3
      <4> QED
        BY <4>2, <4>3
    <3>6. CASE UNCHANGED vars
      BY <2>2, <3>6 DEF vars
    <3> QED
      BY <1>2, <3>1, <3>2, <3>3, <3>4, <3>5, <3>6 DEF Next
  <2> QED
    BY <2>5, FeedMovesAreSteps
<1>3. StreamInv /\ StreamInv' /\ [Next]_vars =>
        [\A c \in Clients : [Feed(c)!FNext]_(Feed(c)!fvars)]_vars
  BY <1>2
<1> QED
  BY <1>1, <1>3, StreamsHold, PTL DEF Spec, RefinesFeed
=============================================================================
