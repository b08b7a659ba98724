----------------------- MODULE ComputeResourcesProofs -----------------------
(***************************************************************************)
(* Proofs about ComputeResources for any number of processes, connections  *)
(* and threads: the pool is not starved by runs and reports, whoever ends  *)
(* has nothing in hand, the turns exclude each other, and the waiters form *)
(* no circle.  The argument is one invariant per process, Hands: what it   *)
(* holds is what the rest of its program gives back.  The first part shows *)
(* that the programs are written so, from their pieces.                    *)
(***************************************************************************)
EXTENDS ComputeResources, SequenceTheorems, FiniteSetTheorems, TLAPS

USE SizesAssumption

-----------------------------------------------------------------------------
(* The shape of a program: which operations follow which.                  *)

Ops == {"db", "free", "cpu", "enter", "leave", "sem", "unsem", "fit", "guard", "stream"}

Ahead(s, op) == \E i \in DOMAIN s : s[i] = op

\* The statement's connection is given back by the very next operation.
Paired(s) ==
  \A i \in DOMAIN s : s[i] = "db" => i + 1 \in DOMAIN s /\ s[i + 1] = "free"

\* Each take is followed by its give, with nothing but ops in between.
Opens(s, take, give, ops) ==
  \A i \in DOMAIN s : s[i] = take =>
    \E k \in DOMAIN s : i < k /\ s[k] = give /\ \A j \in (i + 1)..(k - 1) : s[j] \in ops

\* Each give follows its take ...
Led(s, take, give, ops) ==
  \A k \in DOMAIN s : s[k] = give =>
    \E i \in 1..(k - 1) : s[i] = take /\ \A j \in (i + 1)..(k - 1) : s[j] \in ops

\* ... or a take that is already behind.
Closes(s, take, give, ops) ==
  \A k \in DOMAIN s : s[k] = give =>
    \/ \A j \in 1..(k - 1) : s[j] \in ops
    \/ \E i \in 1..(k - 1) : s[i] = take /\ \A j \in (i + 1)..(k - 1) : s[j] \in ops

Attributing == {"cpu"}
Fitting == {"db", "fit", "free"}

\* A program from its beginning, and from anywhere.
Whole(s) ==
  /\ s \in Seq(Ops)
  /\ Opens(s, "db", "free", Ops)
  /\ Opens(s, "enter", "leave", Attributing) /\ Led(s, "enter", "leave", Attributing)
  /\ Opens(s, "sem", "unsem", Fitting) /\ Led(s, "sem", "unsem", Fitting)

Formed(s) ==
  /\ s \in Seq(Ops)
  /\ Opens(s, "db", "free", Ops)
  /\ Opens(s, "enter", "leave", Attributing) /\ Closes(s, "enter", "leave", Attributing)
  /\ Opens(s, "sem", "unsem", Fitting) /\ Closes(s, "sem", "unsem", Fitting)

\* The export asks the guard once, then decodes, then streams.
Exporting(s) ==
  /\ Opens(s, "guard", "fit", Ops) /\ Opens(s, "fit", "stream", Ops)
  /\ \A i, j \in DOMAIN s :
       i < j /\ s[i] \in {"guard", "fit", "stream"} => s[j] # "guard"

\* What the rest of a process of a kind looks like.
Suits(k, s) ==
  /\ Formed(s)
  /\ k = "none" => s = <<>>
  /\ k \in {"run", "report", "failed"} => Paired(s)
  /\ k \in {"finalize", "readout", "export"} => ~Ahead(s, "cpu") /\ ~Ahead(s, "enter")
  /\ k = "export" => Exporting(s)
  /\ k # "export" => ~Ahead(s, "guard") /\ ~Ahead(s, "stream")

-----------------------------------------------------------------------------
(* What a process has in hand, its program gives back.                     *)

Hands(p) ==
  /\ Suits(kind[p], todo[p])
  /\ p \in conns => Ahead(todo[p], "free")
  /\ p \in conns /\ kind[p] \in {"run", "report", "failed"} => At(p, "free")
  /\ p \in workers => At(p, "cpu")
  /\ Contains(slot, p) => At(p, "enter") \/ Attributes(p)
  /\ Attributes(p) => Holds(slot, p)
  /\ Contains(sem, p) => At(p, "sem") \/ Fits(p)
  /\ Fits(p) => Holds(sem, p)

\* The permit of an export, from its guard to a release of its hooks.
Permit(p) ==
  /\ kind[p] = "none" => hold[p] = "none" /\ hooks[p] = 0
  /\ Ahead(todo[p], "guard") => hold[p] = "none" /\ hooks[p] = 0
  /\ Owes(p) => hooks[p] > 0 \/ (kind[p] = "export" /\ Ahead(todo[p], "fit"))
  /\ (kind[p] = "export" /\ Ahead(todo[p], "stream") /\ ~Ahead(todo[p], "guard")) => Owes(p)

IInv == \A p \in Procs : Hands(p) /\ Permit(p)

-----------------------------------------------------------------------------
(* Lemmas about programs.                                                  *)

\* The rest of a sequence, element by element.
LEMMA RestOf ==
  ASSUME NEW S, NEW s \in Seq(S), s # <<>>
  PROVE  /\ Tail(s) \in Seq(S)
         /\ 1 \in DOMAIN s /\ Head(s) = s[1] /\ Head(s) \in S
         /\ Len(s) \in Nat /\ DOMAIN s = 1..Len(s)
         /\ DOMAIN Tail(s) = 1..(Len(s) - 1)
         /\ \A i \in DOMAIN Tail(s) : i + 1 \in DOMAIN s /\ Tail(s)[i] = s[i + 1]
         /\ \A i \in DOMAIN s : i # 1 => i - 1 \in DOMAIN Tail(s) /\ Tail(s)[i - 1] = s[i]
<1>1. /\ Tail(s) \in Seq(S) /\ Len(Tail(s)) = Len(s) - 1
      /\ \A i \in 1..Len(Tail(s)) : Tail(s)[i] = s[i + 1]
  BY HeadTailProperties
<1>2. Len(s) \in Nat /\ DOMAIN s = 1..Len(s) /\ Len(s) # 0
  BY LenProperties, EmptySeq
<1>3. DOMAIN Tail(s) = 1..(Len(s) - 1)
  BY <1>1, LenProperties
<1>4. Head(s) = s[1] /\ s[1] \in S
  BY <1>2, ElementOfSeq
<1> QED
  BY <1>1, <1>2, <1>3, <1>4

LEMMA PairedRest ==
  ASSUME NEW s \in Seq(Ops), s # <<>>, Paired(s)
  PROVE  /\ Paired(Tail(s))
         /\ Head(s) = "db" => Tail(s) # <<>> /\ Head(Tail(s)) = "free"
<1>1. Paired(Tail(s))
  BY RestOf DEF Paired
<1>2. Head(s) = "db" => Tail(s) # <<>> /\ Head(Tail(s)) = "free"
  <2> HAVE Head(s) = "db"
  <2>1. 2 \in DOMAIN s /\ s[2] = "free"
    BY RestOf DEF Paired
  <2>2. 1 \in DOMAIN Tail(s) /\ Tail(s)[1] = "free"
    BY <2>1, RestOf
  <2>3. Tail(s) # <<>>
    <3>1. Tail(s) \in Seq(Ops) /\ Len(Tail(s)) # 0
      BY <2>2, RestOf, LenProperties
    <3> QED
      BY <3>1, EmptySeq
  <2> QED
    BY <2>2, <2>3, RestOf
<1> QED
  BY <1>1, <1>2

LEMMA OpensRest ==
  ASSUME NEW s \in Seq(Ops), s # <<>>, NEW take, NEW give, NEW ops,
         Opens(s, take, give, ops)
  PROVE  /\ Opens(Tail(s), take, give, ops)
         /\ Head(s) = take => Within(Tail(s), give, ops)
<1> DEFINE t == Tail(s)
<1>1. ASSUME NEW i \in DOMAIN t, t[i] = take
      PROVE  \E k \in DOMAIN t : i < k /\ t[k] = give /\ \A j \in (i + 1)..(k - 1) : t[j] \in ops
  <2>1. i + 1 \in DOMAIN s /\ s[i + 1] = take
    BY <1>1, RestOf
  <2>2. PICK k \in DOMAIN s : /\ i + 1 < k /\ s[k] = give
                              /\ \A j \in (i + 2)..(k - 1) : s[j] \in ops
    BY <2>1, RestOf DEF Opens
  <2>3. k - 1 \in DOMAIN t /\ t[k - 1] = give /\ i < k - 1
    BY <2>2, RestOf
  <2>4. ASSUME NEW j \in (i + 1)..((k - 1) - 1)
        PROVE  t[j] \in ops
    <3>1. i \in Nat /\ k \in Nat /\ k <= Len(s) /\ Len(s) \in Nat
      BY RestOf
    <3>2. j + 1 \in (i + 2)..(k - 1) /\ j \in 1..(Len(s) - 1)
      BY <3>1
    <3>3. t[j] = s[j + 1]
      BY <3>2, RestOf
    <3> QED
      BY <2>2, <3>2, <3>3
  <2> QED
    BY <2>3, <2>4
<1>2. ASSUME Head(s) = take
      PROVE  \E k \in DOMAIN t : t[k] = give /\ \A j \in 1..(k - 1) : t[j] \in ops
  <2>1. PICK k \in DOMAIN s : /\ 1 < k /\ s[k] = give
                              /\ \A j \in 2..(k - 1) : s[j] \in ops
    BY <1>2, RestOf DEF Opens
  <2>2. k - 1 \in DOMAIN t /\ t[k - 1] = give
    BY <2>1, RestOf
  <2>3. \A j \in 1..((k - 1) - 1) : t[j] \in ops
    BY <2>1, <2>2, RestOf, SMTT(30)
  <2> QED
    BY <2>2, <2>3
<1> QED
  BY <1>1, <1>2 DEF Opens, Within

LEMMA WithinRest ==
  ASSUME NEW s \in Seq(Ops), s # <<>>, NEW give, NEW ops,
         Within(s, give, ops), Head(s) # give
  PROVE  Head(s) \in ops /\ Within(Tail(s), give, ops)
<1>1. PICK k \in DOMAIN s : s[k] = give /\ \A j \in 1..(k - 1) : s[j] \in ops
  BY DEF Within
<1>2. k # 1 /\ k - 1 \in DOMAIN Tail(s) /\ Tail(s)[k - 1] = give
  BY <1>1, RestOf
<1>3. \A j \in 1..((k - 1) - 1) : Tail(s)[j] \in ops
  BY <1>1, <1>2, RestOf, SMTT(30)
<1>4. Head(s) \in ops
  BY <1>1, <1>2, RestOf
<1> QED
  BY <1>2, <1>3, <1>4 DEF Within

\* A turn is entered by its take only.
LEMMA ClosesRest ==
  ASSUME NEW s \in Seq(Ops), s # <<>>, NEW take, NEW give, NEW ops,
         take \notin ops, Closes(s, take, give, ops)
  PROVE  /\ Closes(Tail(s), take, give, ops)
         /\ Within(Tail(s), give, ops) =>
              Head(s) = take \/ (Head(s) \in ops /\ Within(s, give, ops))
<1> DEFINE t == Tail(s)
<1>1. ASSUME NEW k \in DOMAIN t, t[k] = give
      PROVE  \/ \A j \in 1..(k - 1) : t[j] \in ops
             \/ \E i \in 1..(k - 1) : t[i] = take /\ \A j \in (i + 1)..(k - 1) : t[j] \in ops
  <2>1. k + 1 \in DOMAIN s /\ s[k + 1] = give /\ k \in Nat
    BY <1>1, RestOf
  <2>2. CASE \A j \in 1..k : s[j] \in ops
    BY <2>1, <2>2, RestOf
  <2>3. CASE \E i \in 1..k : s[i] = take /\ \A j \in (i + 1)..k : s[j] \in ops
    <3>1. PICK i \in 1..k : s[i] = take /\ \A j \in (i + 1)..k : s[j] \in ops
      BY <2>3
    <3>2. \A j \in i..(k - 1) : t[j] \in ops
      BY <3>1, <2>1, RestOf
    <3>3. i # 1 => i - 1 \in 1..(k - 1) /\ t[i - 1] = take
      BY <3>1, <2>1, RestOf
    <3>4. CASE i = 1
      BY <3>2, <3>4
    <3>5. CASE i # 1
      <4>1. (i - 1) + 1 = i
        OBVIOUS
      <4>2. i - 1 \in 1..(k - 1) /\ t[i - 1] = take /\ \A j \in ((i - 1) + 1)..(k - 1) : t[j] \in ops
        BY <3>2, <3>3, <3>5, <4>1
      <4> QED
        BY <4>2
    <3> QED
      BY <3>4, <3>5
  <2>4. \/ \A j \in 1..k : s[j] \in ops
        \/ \E i \in 1..k : s[i] = take /\ \A j \in (i + 1)..k : s[j] \in ops
    <3>1. (k + 1) - 1 = k
      BY <2>1
    <3>2. \/ \A j \in 1..((k + 1) - 1) : s[j] \in ops
          \/ \E i \in 1..((k + 1) - 1) : s[i] = take /\ \A j \in (i + 1)..((k + 1) - 1) : s[j] \in ops
      BY <2>1, Zenon DEF Closes
    <3> QED
      BY <3>1, <3>2, Zenon
  <2> QED
    BY <2>2, <2>3, <2>4
<1>2. ASSUME NEW k \in DOMAIN t, t[k] = give, \A j \in 1..(k - 1) : t[j] \in ops
      PROVE  Head(s) = take \/ (Head(s) \in ops /\ Within(s, give, ops))
  <2>1. k + 1 \in DOMAIN s /\ s[k + 1] = give /\ k \in Nat
    BY <1>2, RestOf
  <2>2. \A j \in 2..k : s[j] \in ops
    BY <1>2, <2>1, RestOf
  <2>3. CASE \A j \in 1..k : s[j] \in ops
    <3>1. 1 \in DOMAIN s /\ s[1] \in ops /\ Head(s) = s[1]
      BY <2>1, <2>3, <1>2, RestOf
    <3> QED
      BY <2>1, <2>3, <3>1 DEF Within
  <2>4. CASE \E i \in 1..k : s[i] = take /\ \A j \in (i + 1)..k : s[j] \in ops
    <3>1. PICK i \in 1..k : s[i] = take /\ \A j \in (i + 1)..k : s[j] \in ops
      BY <2>4
    <3>2. CASE i = 1
      BY <3>1, <3>2, RestOf
    <3>3. CASE i # 1
      <4>1. i \in 2..k
        BY <2>1, <3>1, <3>3
      <4> QED
        BY <2>2, <3>1, <4>1
    <3> QED
      BY <3>2, <3>3
  <2>5. \/ \A j \in 1..k : s[j] \in ops
        \/ \E i \in 1..k : s[i] = take /\ \A j \in (i + 1)..k : s[j] \in ops
    <3>1. (k + 1) - 1 = k
      BY <2>1
    <3>2. \/ \A j \in 1..((k + 1) - 1) : s[j] \in ops
          \/ \E i \in 1..((k + 1) - 1) : s[i] = take /\ \A j \in (i + 1)..((k + 1) - 1) : s[j] \in ops
      BY <2>1, Zenon DEF Closes
    <3> QED
      BY <3>1, <3>2, Zenon
  <2> QED
    BY <2>3, <2>4, <2>5
<1> QED
  BY <1>1, <1>2 DEF Closes, Within

\* What a run or a report does, whole.
Serving(s) ==
  Whole(s) /\ Paired(s) /\ ~Ahead(s, "guard") /\ ~Ahead(s, "stream")

\* One sequence after another, element by element.
LEMMA Joined ==
  ASSUME NEW S, NEW s \in Seq(S), NEW t \in Seq(S)
  PROVE  /\ s \o t \in Seq(S)
         /\ Len(s) \in Nat /\ Len(t) \in Nat
         /\ DOMAIN s = 1..Len(s) /\ DOMAIN t = 1..Len(t)
         /\ DOMAIN (s \o t) = 1..(Len(s) + Len(t))
         /\ \A i \in DOMAIN s : i \in DOMAIN (s \o t) /\ (s \o t)[i] = s[i]
         /\ \A i \in DOMAIN t : i + Len(s) \in DOMAIN (s \o t) /\ (s \o t)[i + Len(s)] = t[i]
         /\ \A i \in DOMAIN (s \o t) :
              \/ i \in DOMAIN s /\ (s \o t)[i] = s[i]
              \/ i - Len(s) \in DOMAIN t /\ (s \o t)[i] = t[i - Len(s)]
<1>1. /\ s \o t \in Seq(S) /\ Len(s \o t) = Len(s) + Len(t)
      /\ \A i \in 1..(Len(s) + Len(t)) :
           (s \o t)[i] = IF i <= Len(s) THEN s[i] ELSE t[i - Len(s)]
  BY ConcatProperties
<1>2. /\ Len(s) \in Nat /\ Len(t) \in Nat
      /\ DOMAIN s = 1..Len(s) /\ DOMAIN t = 1..Len(t)
      /\ DOMAIN (s \o t) = 1..(Len(s) + Len(t))
  BY <1>1, LenProperties
<1> QED
  BY <1>1, <1>2

\* An element of the second, found from its place in the whole.
LEMMA JoinedRight ==
  ASSUME NEW S, NEW s \in Seq(S), NEW t \in Seq(S), NEW j \in Int, j - Len(s) \in DOMAIN t
  PROVE  j \in DOMAIN (s \o t) /\ (s \o t)[j] = t[j - Len(s)]
<1> DEFINE m == j - Len(s)
<1>1. m \in DOMAIN t /\ Len(s) \in Nat
  BY LenProperties
<1>2. m + Len(s) = j
  BY <1>1
<1>3. m + Len(s) \in DOMAIN (s \o t) /\ (s \o t)[m + Len(s)] = t[m]
  <2> HIDE DEF m
  <2> QED
    BY <1>1, Joined
<1> QED
  BY <1>2, <1>3

LEMMA PairedJoined ==
  ASSUME NEW s \in Seq(Ops), NEW t \in Seq(Ops), Paired(s), Paired(t)
  PROVE  Paired(s \o t)
<1> DEFINE u == s \o t
<1> SUFFICES ASSUME NEW i \in DOMAIN u, u[i] = "db"
             PROVE  i + 1 \in DOMAIN u /\ u[i + 1] = "free"
  BY DEF Paired
<1>1. CASE i \in DOMAIN s /\ u[i] = s[i]
  <2>1. i + 1 \in DOMAIN s /\ s[i + 1] = "free"
    BY <1>1 DEF Paired
  <2> QED
    BY <2>1, Joined
<1>2. CASE i - Len(s) \in DOMAIN t /\ u[i] = t[i - Len(s)]
  <2>1. (i - Len(s)) + 1 \in DOMAIN t /\ t[(i - Len(s)) + 1] = "free"
    BY <1>2 DEF Paired
  <2>2. ((i - Len(s)) + 1) + Len(s) = i + 1
    BY Joined
  <2>3. \A j \in DOMAIN t : j + Len(s) \in DOMAIN u /\ u[j + Len(s)] = t[j]
    BY Joined
  <2>4. /\ ((i - Len(s)) + 1) + Len(s) \in DOMAIN u
        /\ u[((i - Len(s)) + 1) + Len(s)] = t[(i - Len(s)) + 1]
    BY <2>1, <2>3
  <2> QED
    BY <2>1, <2>2, <2>4
<1> QED
  BY <1>1, <1>2, Joined, SMTT(30)

LEMMA OpensJoined ==
  ASSUME NEW s \in Seq(Ops), NEW t \in Seq(Ops), NEW take, NEW give, NEW ops,
         Opens(s, take, give, ops), Opens(t, take, give, ops)
  PROVE  Opens(s \o t, take, give, ops)
<1> DEFINE u == s \o t
           n == Len(s)
<1> SUFFICES ASSUME NEW i \in DOMAIN u, u[i] = take
             PROVE  \E k \in DOMAIN u : i < k /\ u[k] = give /\ \A j \in (i + 1)..(k - 1) : u[j] \in ops
  BY DEF Opens
<1>1. CASE i \in DOMAIN s /\ u[i] = s[i]
  <2>1. PICK k \in DOMAIN s : i < k /\ s[k] = give /\ \A j \in (i + 1)..(k - 1) : s[j] \in ops
    BY <1>1 DEF Opens
  <2>2. k \in DOMAIN u /\ u[k] = give
    BY <2>1, Joined
  <2>3. \A j \in (i + 1)..(k - 1) : j \in DOMAIN s
    BY <1>1, Joined
  <2>4. \A j \in (i + 1)..(k - 1) : u[j] = s[j]
    BY <2>3, Joined
  <2> QED
    BY <2>1, <2>2, <2>4
<1>2. CASE i - n \in DOMAIN t /\ u[i] = t[i - n]
  <2>1. PICK k \in DOMAIN t : /\ i - n < k /\ t[k] = give
                              /\ \A j \in ((i - n) + 1)..(k - 1) : t[j] \in ops
    BY <1>2 DEF Opens
  <2>2. /\ n \in Nat /\ i \in Int /\ k \in Nat
        /\ DOMAIN t = 1..Len(t) /\ Len(t) \in Nat
    BY <2>1, Joined
  <2>3. k + n \in DOMAIN u /\ u[k + n] = give /\ i < k + n
    <3>1. k + n \in Int /\ (k + n) - n = k /\ i < k + n
      BY <2>1, <2>2
    <3> QED
      BY <2>1, <3>1, JoinedRight
  <2>4. ASSUME NEW j \in (i + 1)..((k + n) - 1)
        PROVE  u[j] \in ops
    <3>1. j \in Int /\ j - n \in ((i - n) + 1)..(k - 1) /\ j - n \in DOMAIN t
      <4> HIDE DEF n
      <4>1. j \in Int /\ i < j /\ j < k + n
        BY <2>2
      <4>2. i - n < j - n /\ j - n < k
        BY <2>2, <4>1
      <4>3. k <= Len(t) /\ 1 <= i - n
        BY <1>2, <2>1, <2>2
      <4> QED
        BY <2>2, <4>1, <4>2, <4>3
    <3>2. u[j] = t[j - n]
      BY <3>1, JoinedRight
    <3> QED
      BY <2>1, <3>1, <3>2
  <2> QED
    BY <2>3, <2>4
<1>3. \/ i \in DOMAIN s /\ u[i] = s[i]
      \/ i - n \in DOMAIN t /\ u[i] = t[i - n]
  BY Joined
<1> QED
  BY <1>1, <1>2, <1>3

LEMMA LedJoined ==
  ASSUME NEW s \in Seq(Ops), NEW t \in Seq(Ops), NEW take, NEW give, NEW ops,
         Led(s, take, give, ops), Led(t, take, give, ops)
  PROVE  Led(s \o t, take, give, ops)
<1> DEFINE u == s \o t
           n == Len(s)
<1> SUFFICES ASSUME NEW k \in DOMAIN u, u[k] = give
             PROVE  \E i \in 1..(k - 1) : u[i] = take /\ \A j \in (i + 1)..(k - 1) : u[j] \in ops
  BY DEF Led
<1>1. CASE k \in DOMAIN s /\ u[k] = s[k]
  <2>1. PICK i \in 1..(k - 1) : s[i] = take /\ \A j \in (i + 1)..(k - 1) : s[j] \in ops
    BY <1>1 DEF Led
  <2>2. i \in DOMAIN s /\ \A j \in (i + 1)..(k - 1) : j \in DOMAIN s
    BY <1>1, <2>1, Joined
  <2>3. u[i] = s[i] /\ \A j \in (i + 1)..(k - 1) : u[j] = s[j]
    BY <2>2, Joined
  <2> QED
    BY <2>1, <2>3
<1>2. CASE k - n \in DOMAIN t /\ u[k] = t[k - n]
  <2>1. PICK i \in 1..((k - n) - 1) : /\ t[i] = take
                                      /\ \A j \in (i + 1)..((k - n) - 1) : t[j] \in ops
    BY <1>2 DEF Led
  <2>2. n \in Nat /\ k \in Nat /\ DOMAIN t = 1..Len(t) /\ Len(t) \in Nat
    BY Joined
  <2>3. i \in DOMAIN t /\ i + n \in 1..(k - 1) /\ (i + n) - n = i
    <3> HIDE DEF n
    <3> QED
      BY <1>2, <2>1, <2>2, SMTT(30)
  <2>4. u[i + n] = take
    BY <2>1, <2>3, JoinedRight
  <2>5. ASSUME NEW j \in ((i + n) + 1)..(k - 1)
        PROVE  u[j] \in ops
    <3>1. j \in Int /\ j - n \in (i + 1)..((k - n) - 1) /\ j - n \in DOMAIN t
      <4> HIDE DEF n
      <4>1. i \in Nat /\ j \in Nat /\ i + n < j /\ j < k
        BY <2>1, <2>2
      <4>2. i < j - n /\ j - n < k - n
        BY <2>2, <4>1
      <4> QED
        BY <1>2, <2>1, <2>2, <4>1, <4>2
    <3>2. u[j] = t[j - n]
      BY <3>1, JoinedRight
    <3> QED
      BY <2>1, <3>1, <3>2
  <2> QED
    BY <2>3, <2>4, <2>5
<1>3. \/ k \in DOMAIN s /\ u[k] = s[k]
      \/ k - n \in DOMAIN t /\ u[k] = t[k - n]
  BY Joined
<1> QED
  BY <1>1, <1>2, <1>3

LEMMA ServingJoined ==
  ASSUME NEW s, NEW t, Serving(s), Serving(t)
  PROVE  Serving(s \o t)
<1>1. s \in Seq(Ops) /\ t \in Seq(Ops)
  BY DEF Serving, Whole
<1>2. s \o t \in Seq(Ops)
  BY <1>1, Joined
<1>3. Paired(s \o t)
  BY <1>1, PairedJoined DEF Serving
<1>4. ~Ahead(s \o t, "guard") /\ ~Ahead(s \o t, "stream")
  <2>1. \A i \in DOMAIN (s \o t) : (s \o t)[i] \notin {"guard", "stream"}
    BY <1>1, Joined DEF Serving, Ahead
  <2> QED
    BY <2>1 DEF Ahead
<1>5. /\ Opens(s \o t, "db", "free", Ops)
      /\ Opens(s \o t, "enter", "leave", Attributing)
      /\ Opens(s \o t, "sem", "unsem", Fitting)
  BY <1>1, OpensJoined DEF Serving, Whole
<1>6. /\ Led(s \o t, "enter", "leave", Attributing)
      /\ Led(s \o t, "sem", "unsem", Fitting)
  BY <1>1, LedJoined DEF Serving, Whole
<1> QED
  BY <1>2, <1>3, <1>4, <1>5, <1>6 DEF Serving, Whole

-----------------------------------------------------------------------------
(* The scripts.                                                            *)

\* The pieces that the runs and the reports are made of.
LEMMA Pieces ==
  /\ Serving(Statement) /\ Serving(<<"cpu">>) /\ Serving(<<"free">>)
  /\ Serving(<<"enter", "cpu", "leave">>)
  /\ Serving(<<"enter", "cpu", "cpu", "leave", "enter", "cpu", "leave">>)
<1> USE DEF Serving, Whole, Paired, Opens, Led, Ahead, Ops, Attributing, Fitting
<1>1. Serving(Statement)
  BY DEF Statement
<1>2. Serving(<<"cpu">>)
  OBVIOUS
<1>3. Serving(<<"free">>)
  OBVIOUS
<1>4. Serving(<<"enter", "cpu", "leave">>)
  OBVIOUS
<1>5. Serving(<<"enter", "cpu", "cpu", "leave", "enter", "cpu", "leave">>)
  OBVIOUS
<1> QED
  BY <1>1, <1>2, <1>3, <1>4, <1>5

LEMMA RunsServe ==
  /\ Serving(SingleRun) /\ Serving(AggregateRun) /\ Serving(InlineRun) /\ Serving(Report)
  /\ \A k \in Kinds : Serving(Handler(k))
<1>1. ASSUME NEW s, Serving(s)
      PROVE  Serving(RunWith(s))
  BY <1>1, Pieces, ServingJoined DEF RunWith
<1>2. Serving(SingleRun)
  BY <1>1, Pieces, ServingJoined DEF SingleRun
<1>3. Serving(AggregateRun)
  BY <1>1, Pieces, ServingJoined DEF AggregateRun
<1>4. Serving(InlineRun) /\ Serving(Report)
  BY <1>2, Pieces, ServingJoined DEF InlineRun, Report
<1>5. \A k \in Kinds : Serving(Handler(k))
  BY Pieces, ServingJoined DEF Handler
<1> QED
  BY <1>2, <1>3, <1>4, <1>5

LEMMA PagesWhole ==
  \A s \in {Finalize, Readout} :
    /\ Whole(s) /\ ~Ahead(s, "cpu") /\ ~Ahead(s, "enter")
    /\ ~Ahead(s, "guard") /\ ~Ahead(s, "stream")
<1> USE DEF Opens, Led, Ahead, Ops, Attributing, Fitting
<1>1. Whole(Finalize)
  <2>1. Finalize \in Seq(Ops)
    BY DEF Finalize
  <2>2. Opens(Finalize, "db", "free", Ops) /\ Opens(Finalize, "enter", "leave", Attributing)
    BY DEF Finalize
  <2>3. Opens(Finalize, "sem", "unsem", Fitting)
    BY DEF Finalize
  <2>4. Led(Finalize, "enter", "leave", Attributing) /\ Led(Finalize, "sem", "unsem", Fitting)
    BY DEF Finalize
  <2> HIDE DEF Opens, Led, Ops, Attributing, Fitting
  <2> QED
    BY <2>1, <2>2, <2>3, <2>4 DEF Whole
<1>2. Whole(Readout)
  <2>1. Readout \in Seq(Ops)
    BY DEF Readout
  <2>2. Opens(Readout, "db", "free", Ops) /\ Opens(Readout, "enter", "leave", Attributing)
    BY DEF Readout
  <2>3. Opens(Readout, "sem", "unsem", Fitting)
    BY DEF Readout
  <2>4. Led(Readout, "enter", "leave", Attributing) /\ Led(Readout, "sem", "unsem", Fitting)
    BY DEF Readout
  <2> HIDE DEF Opens, Led, Ops, Attributing, Fitting
  <2> QED
    BY <2>1, <2>2, <2>3, <2>4 DEF Whole
<1>3. \A s \in {Finalize, Readout}, op \in {"cpu", "enter", "guard", "stream"} : ~Ahead(s, op)
  BY DEF Finalize, Readout
<1> HIDE DEF Opens, Led, Ahead, Ops, Attributing, Fitting
<1> QED
  BY <1>1, <1>2, <1>3

LEMMA SixAndTwo ==
  ASSUME NEW s \in Seq(Ops), NEW t \in Seq(Ops), Len(s) = 6, Len(t) = 2
  PROVE  /\ s \o t \in Seq(Ops) /\ DOMAIN (s \o t) = 1..8
         /\ (s \o t)[1] = s[1] /\ (s \o t)[2] = s[2] /\ (s \o t)[3] = s[3]
         /\ (s \o t)[4] = s[4] /\ (s \o t)[5] = s[5] /\ (s \o t)[6] = s[6]
         /\ (s \o t)[7] = t[1] /\ (s \o t)[8] = t[2]
<1> DEFINE u == s \o t
<1>1. /\ u \in Seq(Ops) /\ Len(u) = 6 + 2
      /\ \A i \in 1..(6 + 2) : u[i] = IF i <= 6 THEN s[i] ELSE t[i - 6]
  <2>1. /\ u \in Seq(Ops) /\ Len(u) = Len(s) + Len(t)
        /\ \A i \in 1..(Len(s) + Len(t)) : u[i] = IF i <= Len(s) THEN s[i] ELSE t[i - Len(s)]
    BY ConcatProperties
  <2> HIDE DEF u
  <2> QED
    BY <2>1
<1>2. \A i \in 1..6 : u[i] = s[i]
  BY <1>1
<1>3. \A i \in 1..2 : u[i + 6] = t[i]
  BY <1>1
<1>5. DOMAIN u = 1..8
  BY <1>1, LenProperties, SMTT(30)
<1> HIDE DEF u
<1>4. u[7] = t[1] /\ u[8] = t[2]
  <2>1. u[1 + 6] = t[1] /\ u[2 + 6] = t[2]
    BY <1>3
  <2>2. 1 + 6 = 7 /\ 2 + 6 = 8
    OBVIOUS
  <2> QED
    BY <2>1, <2>2
<1>6. u[1] = s[1] /\ u[2] = s[2] /\ u[3] = s[3] /\ u[4] = s[4] /\ u[5] = s[5] /\ u[6] = s[6]
  BY <1>2
<1> QED
  BY <1>1, <1>4, <1>5, <1>6, Zenon DEF u

LEMMA ExportsWhole ==
  \A teardown \in {"early", "late"} :
    LET s == Export(teardown)
    IN  Whole(s) /\ Exporting(s) /\ ~Ahead(s, "cpu") /\ ~Ahead(s, "enter") /\ Ahead(s, "guard")
<1> DEFINE built == <<"db", "guard", "db", "free", "db", "fit">>
<1>1. ASSUME NEW s \in Seq(Ops), DOMAIN s = 1..8,
             s[1] = "db", s[2] = "guard", s[3] = "db", s[4] = "free", s[5] = "db", s[6] = "fit",
             \/ s[7] = "free" /\ s[8] = "stream"
             \/ s[7] = "stream" /\ s[8] = "free"
      PROVE  Whole(s) /\ Exporting(s) /\ ~Ahead(s, "cpu") /\ ~Ahead(s, "enter") /\ Ahead(s, "guard")
  <2>1. Opens(s, "db", "free", Ops)
    BY <1>1 DEF Opens, Ops
  <2>2. Opens(s, "enter", "leave", Attributing) /\ Led(s, "enter", "leave", Attributing)
    BY <1>1 DEF Opens, Led
  <2>3. Opens(s, "sem", "unsem", Fitting) /\ Led(s, "sem", "unsem", Fitting)
    BY <1>1 DEF Opens, Led
  <2>4. Opens(s, "guard", "fit", Ops) /\ Opens(s, "fit", "stream", Ops)
    <3>1. Opens(s, "guard", "fit", Ops)
      BY <1>1 DEF Opens, Ops
    <3>2. Opens(s, "fit", "stream", Ops)
      BY <1>1 DEF Opens, Ops
    <3> QED
      BY <3>1, <3>2
  <2>5. Exporting(s)
    BY <1>1, <2>4 DEF Exporting
  <2>6. ~Ahead(s, "cpu") /\ ~Ahead(s, "enter") /\ Ahead(s, "guard")
    BY <1>1 DEF Ahead
  <2> QED
    BY <2>1, <2>2, <2>3, <2>5, <2>6 DEF Whole
<1>2. ASSUME NEW t, t \in {<<"free", "stream">>, <<"stream", "free">>}
      PROVE  LET s == built \o t
             IN  Whole(s) /\ Exporting(s) /\ ~Ahead(s, "cpu") /\ ~Ahead(s, "enter") /\ Ahead(s, "guard")
  <2> DEFINE s == built \o t
  <2>1. built \in Seq(Ops) /\ t \in Seq(Ops) /\ Len(built) = 6 /\ Len(t) = 2
    BY <1>2 DEF Ops
  <2>2. /\ s \in Seq(Ops) /\ DOMAIN s = 1..8
        /\ s[1] = built[1] /\ s[2] = built[2] /\ s[3] = built[3]
        /\ s[4] = built[4] /\ s[5] = built[5] /\ s[6] = built[6]
        /\ s[7] = t[1] /\ s[8] = t[2]
    BY <2>1, SixAndTwo
  <2>3. s \in Seq(Ops) /\ DOMAIN s = 1..8
    BY <2>2
  <2>4. /\ s[1] = "db" /\ s[2] = "guard" /\ s[3] = "db"
        /\ s[4] = "free" /\ s[5] = "db" /\ s[6] = "fit"
    BY <2>2
  <2>5. \/ s[7] = "free" /\ s[8] = "stream"
        \/ s[7] = "stream" /\ s[8] = "free"
    BY <1>2, <2>2
  <2> HIDE DEF s
  <2> QED
    BY <1>1, <2>3, <2>4, <2>5 DEF s
<1> HIDE DEF built
<1>3. Export("early") = built \o <<"free", "stream">> /\ Export("late") = built \o <<"stream", "free">>
  BY DEF Export, built
<1> QED
  BY <1>2, <1>3

\* A whole program is formed, and begins outside every turn.
LEMMA WholeBegins ==
  ASSUME NEW s, Whole(s)
  PROVE  Formed(s) /\ ~Within(s, "leave", Attributing) /\ ~Within(s, "unsem", Fitting)
<1>1. ASSUME NEW take, NEW give, NEW ops, Led(s, take, give, ops), take \notin ops
      PROVE  Closes(s, take, give, ops) /\ ~Within(s, give, ops)
  BY <1>1 DEF Led, Closes, Within
<1> QED
  BY <1>1 DEF Whole, Formed, Attributing, Fitting

LEMMA ScriptSuits ==
  ASSUME NEW k \in Kinds, NEW s \in Scripts[k]
  PROVE  /\ Suits(k, s) /\ Whole(s)
         /\ Ahead(s, "stream") => Ahead(s, "guard")
<1>1. CASE k = "run"
  <2>1. Serving(s)
    BY <1>1, RunsServe DEF Scripts
  <2> QED
    BY <1>1, <2>1, WholeBegins DEF Serving, Suits
<1>2. CASE k = "report"
  <2>1. Serving(s)
    BY <1>2, RunsServe DEF Scripts
  <2> QED
    BY <1>2, <2>1, WholeBegins DEF Serving, Suits
<1>3. CASE k \in {"finalize", "readout"}
  <2>1. s \in {Finalize, Readout}
    BY <1>3 DEF Scripts
  <2> QED
    BY <1>3, <2>1, PagesWhole, WholeBegins DEF Suits
<1>4. CASE k = "export"
  <2>1. s \in {Export("early"), Export("late")}
    BY <1>4 DEF Scripts
  <2>2. Whole(s) /\ Exporting(s) /\ ~Ahead(s, "cpu") /\ ~Ahead(s, "enter") /\ Ahead(s, "guard")
    BY <2>1, ExportsWhole
  <2> QED
    BY <1>4, <2>2, WholeBegins DEF Suits
<1> QED
  BY <1>1, <1>2, <1>3, <1>4 DEF Kinds

\* What an exception leaves to do: the session first gives its connection back.
LEMMA HandlerSuits ==
  ASSUME NEW k
  PROVE  LET s == Handler(k)
         IN  /\ Suits("failed", s) /\ Whole(s) /\ ~Ahead(s, "stream")
             /\ s # <<>> /\ Head(s) = "free"
<1> DEFINE s == Handler(k)
<1>1. Serving(s)
  BY Pieces, ServingJoined DEF Handler
<1>2. s # <<>> /\ Head(s) = "free"
  <2>1. CASE k = "run"
    <3>1. s = <<"free">> \o Statement
      BY <2>1 DEF Handler
    <3>2. <<"free">> \in Seq(Ops) /\ Statement \in Seq(Ops)
      BY Pieces DEF Serving, Whole
    <3>3. s \in Seq(Ops) /\ Len(s) = Len(<<"free">>) + Len(Statement) /\ s[1] = <<"free">>[1]
      BY <3>1, <3>2, Joined
    <3>4. s \in Seq(Ops) /\ Len(s) = 3 /\ s[1] = "free"
      BY <3>3 DEF Statement
    <3> HIDE DEF s
    <3>5. s # <<>>
      <4>1. s \in Seq(Ops) /\ Len(s) # 0
        BY <3>4
      <4> QED
        BY <4>1, EmptySeq
    <3> QED
      BY <3>4, <3>5, RestOf
  <2>2. CASE k # "run"
    BY <2>2 DEF Handler
  <2> QED
    BY <2>1, <2>2
<1> HIDE DEF s
<1>3. Suits("failed", s)
  BY <1>1, WholeBegins DEF Serving, Suits
<1> QED
  BY <1>1, <1>2, <1>3 DEF s, Serving

LEMMA RefusedSuits ==
  LET s == <<"free">>
  IN  /\ Suits("export", s) /\ ~Ahead(s, "guard") /\ ~Ahead(s, "stream") /\ ~Ahead(s, "fit")
      /\ ~Within(s, "leave", Attributing) /\ ~Within(s, "unsem", Fitting)
<1> DEFINE s == <<"free">>
<1>1. \A op \in {"guard", "stream", "fit", "cpu", "enter"} : ~Ahead(s, op)
  BY DEF Ahead
<1>2. Exporting(s)
  BY DEF Exporting, Opens
<1>3. Whole(s)
  BY Pieces DEF Serving
<1> HIDE DEF s
<1> QED
  BY <1>1, <1>2, <1>3, WholeBegins DEF Suits, s

LEMMA AheadRest ==
  ASSUME NEW s \in Seq(Ops), s # <<>>, NEW op
  PROVE  /\ Ahead(Tail(s), op) => Ahead(s, op)
         /\ Ahead(s, op) /\ Head(s) # op => Ahead(Tail(s), op)
<1>1. /\ Head(s) = s[1]
      /\ \A i \in DOMAIN Tail(s) : i + 1 \in DOMAIN s /\ Tail(s)[i] = s[i + 1]
      /\ \A i \in DOMAIN s : i # 1 => i - 1 \in DOMAIN Tail(s) /\ Tail(s)[i - 1] = s[i]
  BY RestOf
<1> QED
  BY <1>1 DEF Ahead

\* What suits a kind still suits it one operation later.
LEMMA RestSuits ==
  ASSUME NEW k \in Kinds \cup {"failed"}, NEW s, Suits(k, s), s # <<>>
  PROVE  Suits(k, Tail(s))
<1>1. s \in Seq(Ops) /\ Tail(s) \in Seq(Ops)
  BY RestOf DEF Suits, Formed
<1>2. Formed(Tail(s))
  <2>1. /\ Opens(Tail(s), "db", "free", Ops) /\ Opens(Tail(s), "enter", "leave", Attributing)
        /\ Opens(Tail(s), "sem", "unsem", Fitting)
    BY <1>1, OpensRest DEF Suits, Formed
  <2>2. "enter" \notin Attributing /\ "sem" \notin Fitting
    BY DEF Attributing, Fitting
  <2>3. /\ Closes(Tail(s), "enter", "leave", Attributing)
        /\ Closes(Tail(s), "sem", "unsem", Fitting)
    BY <1>1, <2>2, ClosesRest DEF Suits, Formed
  <2> QED
    BY <1>1, <2>1, <2>3 DEF Formed
<1>3. k \in {"run", "report", "failed"} => Paired(Tail(s))
  BY <1>1, PairedRest DEF Suits
<1>4. \A op : Ahead(Tail(s), op) => Ahead(s, op)
  BY <1>1, AheadRest
<1>5. k = "export" => Exporting(Tail(s))
  <2> HAVE k = "export"
  <2>1. Opens(Tail(s), "guard", "fit", Ops) /\ Opens(Tail(s), "fit", "stream", Ops)
    BY <1>1, OpensRest DEF Suits, Exporting
  <2>2. ASSUME NEW i \in DOMAIN Tail(s), NEW j \in DOMAIN Tail(s),
               i < j, Tail(s)[i] \in {"guard", "fit", "stream"}
        PROVE  Tail(s)[j] # "guard"
    <3>1. /\ i + 1 \in DOMAIN s /\ j + 1 \in DOMAIN s /\ i + 1 < j + 1
          /\ Tail(s)[i] = s[i + 1] /\ Tail(s)[j] = s[j + 1]
      BY <1>1, <2>2, RestOf
    <3>2. \A m, n \in DOMAIN s : m < n /\ s[m] \in {"guard", "fit", "stream"} => s[n] # "guard"
      BY DEF Suits, Exporting
    <3> QED
      BY <2>2, <3>1, <3>2
  <2> QED
    BY <2>1, <2>2 DEF Exporting
<1> QED
  BY <1>2, <1>3, <1>4, <1>5 DEF Suits, Kinds

-----------------------------------------------------------------------------
(* The queues of the slot and of the semaphore.                            *)

\* A sequence without its i-th element, element by element.
LEMMA Removed ==
  ASSUME NEW S, NEW s \in Seq(S), NEW i \in DOMAIN s
  PROVE  /\ RemoveAt(s, i) \in Seq(S)
         /\ DOMAIN s = 1..Len(s) /\ Len(s) \in Nat
         /\ DOMAIN RemoveAt(s, i) = 1..(Len(s) - 1) /\ Len(RemoveAt(s, i)) = Len(s) - 1
         /\ \A j \in 1..(Len(s) - 1) :
              RemoveAt(s, i)[j] = IF j < i THEN s[j] ELSE s[j + 1]
<1> DEFINE a == SubSeq(s, 1, i - 1)
           b == SubSeq(s, i + 1, Len(s))
<1>1. DOMAIN s = 1..Len(s) /\ Len(s) \in Nat /\ \A j \in 1..Len(s) : s[j] \in S
  BY LenProperties, ElementOfSeq
<1>2. a \in Seq(S) /\ Len(a) = i - 1 /\ \A j \in 1..(i - 1) : a[j] = s[j]
  <2>1. /\ a \in Seq(S) /\ Len(a) = (IF 1 <= i - 1 THEN (i - 1) - 1 + 1 ELSE 0)
        /\ \A j \in 1..((i - 1) - 1 + 1) : a[j] = s[1 + j - 1]
    BY <1>1, SubSeqProperties
  <2> HIDE DEF a
  <2> QED
    BY <1>1, <2>1
<1>3. b \in Seq(S) /\ Len(b) = Len(s) - i /\ \A j \in 1..(Len(s) - i) : b[j] = s[i + j]
  <2>1. /\ b \in Seq(S) /\ Len(b) = (IF i + 1 <= Len(s) THEN Len(s) - (i + 1) + 1 ELSE 0)
        /\ \A j \in 1..(Len(s) - (i + 1) + 1) : b[j] = s[(i + 1) + j - 1]
    BY <1>1, SubSeqProperties
  <2> HIDE DEF b
  <2>2. Len(b) = Len(s) - i
    BY <1>1, <2>1
  <2>3. ASSUME NEW j \in 1..(Len(s) - i)
        PROVE  b[j] = s[i + j]
    <3>1. j \in 1..(Len(s) - (i + 1) + 1) /\ (i + 1) + j - 1 = i + j
      BY <1>1
    <3> QED
      BY <2>1, <3>1
  <2> QED
    BY <2>1, <2>2, <2>3
<1> HIDE DEF a, b
<1>4. /\ a \o b \in Seq(S) /\ Len(a \o b) = Len(a) + Len(b)
      /\ \A j \in 1..(Len(a) + Len(b)) : (a \o b)[j] = IF j <= Len(a) THEN a[j] ELSE b[j - Len(a)]
  <2>1. a \in Seq(S) /\ b \in Seq(S)
    BY <1>2, <1>3
  <2> QED
    BY <2>1, ConcatProperties
<1>5. RemoveAt(s, i) = a \o b
  BY DEF RemoveAt, a, b
<1> DEFINE u == a \o b
<1>6. u \in Seq(S) /\ Len(u) = Len(s) - 1 /\ DOMAIN u = 1..(Len(s) - 1)
  <2>1. u \in Seq(S) /\ Len(u) = Len(s) - 1
    BY <1>1, <1>2, <1>3, <1>4
  <2> QED
    BY <2>1, LenProperties
<1>7. ASSUME NEW j \in 1..(Len(s) - 1)
      PROVE  u[j] = IF j < i THEN s[j] ELSE s[j + 1]
  <2>1. u[j] = IF j <= Len(a) THEN a[j] ELSE b[j - Len(a)]
    <3>1. Len(a) + Len(b) = Len(s) - 1
      BY <1>1, <1>2, <1>3
    <3> QED
      BY <1>4, <3>1
  <2>2. CASE j < i
    BY <1>1, <1>2, <2>1, <2>2
  <2>3. CASE ~(j < i)
    <3>1. j - (i - 1) \in 1..(Len(s) - i) /\ i + (j - (i - 1)) = j + 1 /\ ~(j <= i - 1)
      BY <1>1, <2>3
    <3>2. b[j - (i - 1)] = s[j + 1]
      BY <1>3, <3>1
    <3> QED
      BY <1>2, <2>1, <2>3, <3>1, <3>2
  <2> QED
    BY <2>2, <2>3
<1> QED
  BY <1>1, <1>5, <1>6, <1>7

\* Who leaves a queue is gone from it, and everyone else keeps their place.
LEMMA WithoutQueue ==
  ASSUME NEW S, NEW queue \in Seq(S), IsInjective(queue), NEW p
  PROVE  /\ Without(queue, p) \in Seq(S) /\ IsInjective(Without(queue, p))
         /\ \A q : Contains(Without(queue, p), q) <=> Contains(queue, q) /\ q # p
         /\ \A q : q # p /\ Holds(queue, q) => Holds(Without(queue, p), q)
<1>1. CASE ~Contains(queue, p)
  BY <1>1 DEF Without
<1>2. CASE Contains(queue, p)
  <2> DEFINE i == CHOOSE j \in DOMAIN queue : queue[j] = p
             u == RemoveAt(queue, i)
  <2>1. DOMAIN queue = 1..Len(queue) /\ Len(queue) \in Nat
    BY LenProperties
  <2>2. i \in DOMAIN queue /\ queue[i] = p
    BY <1>2, <2>1 DEF Contains
  <2> HIDE DEF i
  <2>3. Without(queue, p) = u
    BY <1>2 DEF Without, i
  <2>4. /\ u \in Seq(S) /\ DOMAIN u = 1..(Len(queue) - 1) /\ Len(u) = Len(queue) - 1
        /\ \A j \in 1..(Len(queue) - 1) : u[j] = IF j < i THEN queue[j] ELSE queue[j + 1]
    BY <2>2, Removed
  <2>5. Len(u) = Len(queue) - 1
    BY <2>4
  <2> HIDE DEF u
  <2>6. IsInjective(u)
    <3> SUFFICES ASSUME NEW j \in DOMAIN u, NEW k \in DOMAIN u, u[j] = u[k]
                 PROVE  j = k
      BY DEF IsInjective
    <3> DEFINE At1(m) == IF m < i THEN m ELSE m + 1
    <3>1. /\ At1(j) \in DOMAIN queue /\ u[j] = queue[At1(j)]
          /\ At1(k) \in DOMAIN queue /\ u[k] = queue[At1(k)]
      BY <2>1, <2>2, <2>4
    <3>2. At1(j) = At1(k)
      BY <3>1 DEF IsInjective
    <3> QED
      BY <3>2, <2>1, <2>2, <2>4
  <2>7. ASSUME NEW q
        PROVE  Contains(u, q) <=> Contains(queue, q) /\ q # p
    <3>1. ASSUME NEW j \in 1..Len(u), u[j] = q
          PROVE  Contains(queue, q) /\ q # p
      <4> DEFINE k == IF j < i THEN j ELSE j + 1
      <4>1. k \in DOMAIN queue /\ queue[k] = q /\ k # i
        BY <3>1, <2>1, <2>2, <2>4, <2>5
      <4> QED
        BY <4>1, <2>1, <2>2 DEF IsInjective, Contains
    <3>2. ASSUME NEW k \in 1..Len(queue), queue[k] = q, q # p
          PROVE  Contains(u, q)
      <4> DEFINE j == IF k < i THEN k ELSE k - 1
      <4>1. j \in 1..Len(u) /\ u[j] = q
        BY <3>2, <2>1, <2>2, <2>4, <2>5
      <4> QED
        BY <4>1 DEF Contains
    <3> QED
      BY <3>1, <3>2 DEF Contains
  <2>8. ASSUME NEW q, q # p, Holds(queue, q)
        PROVE  Holds(u, q)
    <3>1. queue # <<>> /\ queue[1] = q /\ 1 \in DOMAIN queue
      BY <2>8, RestOf DEF Holds
    <3>2. 1 < i /\ Len(u) # 0 /\ u[1] = q
      BY <2>1, <2>2, <2>4, <2>5, <2>8, <3>1
    <3>3. u # <<>>
      BY <2>4, <3>2, EmptySeq
    <3> QED
      BY <2>4, <3>2, <3>3, RestOf DEF Holds
  <2> QED
    BY <2>3, <2>4, <2>6, <2>7, <2>8
<1> QED
  BY <1>1, <1>2

\* Who joins is last, and whoever was first still is.
LEMMA AppendQueue ==
  ASSUME NEW S, NEW queue \in Seq(S), IsInjective(queue), NEW p \in S, ~Contains(queue, p)
  PROVE  /\ Append(queue, p) \in Seq(S) /\ IsInjective(Append(queue, p))
         /\ \A q : Contains(Append(queue, p), q) <=> Contains(queue, q) \/ q = p
         /\ \A q : Holds(queue, q) => Holds(Append(queue, p), q)
<1> DEFINE u == Append(queue, p)
<1>1. DOMAIN queue = 1..Len(queue) /\ Len(queue) \in Nat
  BY LenProperties
<1>2. /\ u \in Seq(S) /\ Len(u) = Len(queue) + 1 /\ DOMAIN u = 1..(Len(queue) + 1)
      /\ \A j \in 1..Len(queue) : u[j] = queue[j]
      /\ u[Len(queue) + 1] = p
  BY <1>1, AppendProperties, LenProperties
<1> HIDE DEF u
<1>3. IsInjective(u)
  BY <1>1, <1>2 DEF IsInjective, Contains
<1>4. \A q : Contains(u, q) <=> Contains(queue, q) \/ q = p
  BY <1>1, <1>2 DEF Contains
<1>5. ASSUME NEW q, Holds(queue, q)
      PROVE  Holds(u, q)
  <2>1. queue[1] = q /\ 1 \in DOMAIN queue
    BY <1>5, RestOf DEF Holds
  <2>2. u[1] = q /\ Len(u) # 0
    BY <1>1, <1>2, <2>1
  <2>3. u # <<>>
    BY <1>2, <2>2, EmptySeq
  <2> QED
    BY <1>2, <2>2, <2>3, RestOf DEF Holds
<1> QED
  BY <1>2, <1>3, <1>4, <1>5 DEF u

-----------------------------------------------------------------------------
(* Types.                                                                  *)

\* The rest of a program is one, and so is what an exception leaves to do.
LEMMA ProgramsClosed ==
  /\ <<>> \in Programs /\ <<"free">> \in Programs
  /\ \A k \in Kinds : Scripts[k] \subseteq Programs
  /\ \A k : Handler(k) \in Programs
  /\ \A s \in Programs : s \in Seq(Ops) /\ (s # <<>> => Tail(s) \in Programs)
<1> DEFINE Bases == UNION {Scripts[k] \cup {Handler(k)} : k \in Kinds}
<1>1. Programs = UNION {Suffixes(b) : b \in Bases}
  BY DEF Programs
<1>2. ASSUME NEW b \in Bases
      PROVE  b \in Seq(Ops)
  <2>1. PICK k \in Kinds : b \in Scripts[k] \cup {Handler(k)}
    BY <1>2
  <2> QED
    BY <2>1, ScriptSuits, HandlerSuits DEF Whole
<1>3. \A k \in Kinds : Scripts[k] \subseteq Bases /\ Handler(k) \in Bases
  OBVIOUS
<1> HIDE DEF Bases
<1>4. ASSUME NEW b \in Bases
      PROVE  b \in Programs
  <2>1. b \in Seq(Ops) /\ Len(b) \in Nat
    BY <1>2, LenProperties
  <2>2. CASE b = <<>>
    BY <1>1, <2>2 DEF Suffixes
  <2>3. CASE b # <<>>
    <3>1. 1 \in 1..Len(b) /\ SubSeq(b, 1, Len(b)) = b
      BY <2>1, <2>3, SubSeqFull, EmptySeq
    <3> QED
      BY <1>1, <3>1 DEF Suffixes
  <2> QED
    BY <2>2, <2>3
<1>5. \A k \in Kinds : Scripts[k] \subseteq Programs /\ Handler(k) \in Programs
  BY <1>3, <1>4
<1>6. "run" \in Kinds /\ "report" \in Kinds
  BY DEF Kinds
<1>7. <<"free">> \in Programs
  BY <1>5, <1>6 DEF Handler
<1>8. \A k : Handler(k) \in Programs
  BY <1>5, <1>6, <1>7 DEF Handler
<1>9. <<>> \in Programs
  <2>1. Handler("run") \in Bases
    BY <1>3, <1>6
  <2> QED
    BY <1>1, <2>1 DEF Suffixes
<1>10. ASSUME NEW s \in Programs
       PROVE  s \in Seq(Ops) /\ (s # <<>> => Tail(s) \in Programs)
  <2>1. PICK b \in Bases : s \in Suffixes(b)
    BY <1>1
  <2>2. b \in Seq(Ops) /\ Len(b) \in Nat /\ \A i \in 1..Len(b) : b[i] \in Ops
    BY <1>2, LenProperties, ElementOfSeq
  <2>3. CASE s = <<>>
    BY <2>3, EmptySeq
  <2>4. CASE s # <<>>
    <3>1. PICK l \in 1..Len(b) : s = SubSeq(b, l, Len(b))
      BY <2>1, <2>4 DEF Suffixes
    <3>2. s \in Seq(Ops)
      BY <2>2, <3>1, SubSeqProperties
    <3>3. Tail(s) = SubSeq(b, l + 1, Len(b))
      BY <2>2, <3>1, HeadTailOfSubSeq
    <3>4. Tail(s) \in Suffixes(b)
      <4>1. CASE l + 1 \in 1..Len(b)
        BY <3>3, <4>1 DEF Suffixes
      <4>2. CASE ~(l + 1 \in 1..Len(b))
        <5>1. l + 1 \in Int /\ Len(b) \in Int /\ Len(b) < l + 1
          BY <2>2, <4>2
        <5>2. Tail(s) = <<>>
          BY <3>3, <5>1, SubSeqEmpty
        <5> QED
          BY <5>2 DEF Suffixes
      <4> QED
        BY <4>1, <4>2
    <3> QED
      BY <1>1, <3>2, <3>4
  <2> QED
    BY <2>3, <2>4
<1> QED
  BY <1>5, <1>7, <1>8, <1>9, <1>10

LEMMA ProcsFinite ==
  \A S \in SUBSET Procs : IsFiniteSet(S) /\ Cardinality(S) \in Nat
<1>1. IsFiniteSet(Procs)
  BY FS_Interval DEF Procs
<1> QED
  BY <1>1, FS_Subset, FS_CardinalityType

\* One more or one less stays within a bound.
LEMMA OneMoreOrLess ==
  ASSUME NEW S \in SUBSET Procs, NEW p \in Procs, NEW n \in Nat
  PROVE  /\ p \notin S /\ Cardinality(S) < n => Cardinality(S \cup {p}) <= n
         /\ Cardinality(S) <= n => Cardinality(S \ {p}) <= n
<1>1. IsFiniteSet(S) /\ Cardinality(S) \in Nat
  BY ProcsFinite
<1>2. /\ Cardinality(S \cup {p}) = IF p \in S THEN Cardinality(S) ELSE Cardinality(S) + 1
      /\ Cardinality(S \ {p}) = IF p \in S THEN Cardinality(S) - 1 ELSE Cardinality(S)
  BY <1>1, FS_AddElement, FS_RemoveElement
<1> QED
  BY <1>1, <1>2

\* One process releases at most the one permit that it holds.
LEMMA ReleaseTypes ==
  ASSUME TypeOK, NEW p \in Procs, Release(p)
  PROVE  /\ hold' \in [Procs -> {"none", "held", "released"}]
         /\ permits' \in Nat
         /\ permits' = 1 - Cardinality({q \in Procs : hold'[q] = "held"})
<1> DEFINE H == {q \in Procs : hold[q] = "held"}
           N == {q \in Procs : hold'[q] = "held"}
<1>1. hold' = [hold EXCEPT ![p] = IF Owes(p) THEN "released" ELSE @]
  BY DEF Release
<1>2. hold' \in [Procs -> {"none", "held", "released"}]
  BY <1>1 DEF TypeOK
<1>3. CASE Owes(p)
  <2>1. permits' = permits + 1 /\ p \in H
    BY <1>3 DEF Release, Owes
  <2>2. N = H \ {p}
    BY <1>1, <1>3 DEF TypeOK
  <2>3. IsFiniteSet(H) /\ Cardinality(H) \in Nat
    BY ProcsFinite
  <2>4. Cardinality(N) = Cardinality(H) - 1
    BY <2>1, <2>2, <2>3, FS_RemoveElement
  <2> QED
    BY <1>2, <2>1, <2>3, <2>4 DEF TypeOK
<1>4. CASE ~Owes(p)
  <2>1. permits' = permits /\ N = H
    BY <1>1, <1>4 DEF Release, TypeOK
  <2> QED
    BY <1>2, <2>1 DEF TypeOK
<1> QED
  BY <1>3, <1>4

\* An exception leaves a handler, one thread less and shorter queues.
LEMMA UnwindTypes ==
  ASSUME TypeOK, NEW p \in Procs, Unwind(p)
  PROVE  TypeOK'
<1>1. /\ kind' \in [Procs -> Kinds \cup {"none", "failed"}] /\ todo' \in [Procs -> Programs]
  BY ProgramsClosed DEF TypeOK, Unwind
<1>2. workers' \in SUBSET Procs /\ Cardinality(workers') <= Workers
  <2>1. workers' \subseteq workers /\ workers \subseteq Procs /\ Cardinality(workers) <= Workers
    BY DEF TypeOK, Unwind
  <2>2. IsFiniteSet(workers) /\ Cardinality(workers') <= Cardinality(workers)
    BY <2>1, ProcsFinite, FS_Subset
  <2>3. Cardinality(workers') \in Nat /\ Cardinality(workers) \in Nat
    BY <2>1, ProcsFinite
  <2> QED
    BY <2>1, <2>2, <2>3
<1>3. conns' = conns /\ hooks' = hooks
  BY DEF Unwind
<1>4. /\ slot' \in Seq(Procs) /\ IsInjective(slot')
      /\ sem' \in Seq(Procs) /\ IsInjective(sem')
  BY WithoutQueue DEF TypeOK, Unwind
<1>5. /\ hold' \in [Procs -> {"none", "held", "released"}] /\ permits' \in Nat
      /\ permits' = 1 - Cardinality({q \in Procs : hold'[q] = "held"})
  <2>1. CASE hooks[p] = 0
    BY <2>1, ReleaseTypes DEF Unwind, ReleaseUnbuilt
  <2>2. CASE ~(hooks[p] = 0)
    <3>1. UNCHANGED <<permits, hold>>
      BY <2>2 DEF Unwind, ReleaseUnbuilt
    <3> QED
      BY <3>1 DEF TypeOK
  <2> QED
    BY <2>1, <2>2
<1> QED
  BY <1>1, <1>2, <1>3, <1>4, <1>5 DEF TypeOK

LEMMA StepTypes ==
  ASSUME TypeOK, NEW p \in Procs, Step(p)
  PROVE  TypeOK'
<1>1. todo[p] # <<>> => Tail(todo[p]) \in Programs
  BY ProgramsClosed DEF TypeOK
<1>2. ASSUME Advance(p), NEW op, At(p, op)
      PROVE  todo' \in [Procs -> Programs]
  BY <1>1, <1>2 DEF Advance, At, TypeOK
<1>3. /\ IsFiniteSet(conns) /\ Cardinality(conns) \in Nat /\ conns \in SUBSET Procs
      /\ IsFiniteSet(workers) /\ Cardinality(workers) \in Nat /\ workers \in SUBSET Procs
  BY ProcsFinite DEF TypeOK
<1>4. CASE Connect(p)
  <2>1. conns' \in SUBSET Procs /\ Cardinality(conns') <= PoolSize
    BY <1>3, <1>4, OneMoreOrLess DEF Connect
  <2> QED
    BY <1>2, <1>4, <2>1 DEF Connect, TypeOK, guardVars
<1>5. CASE Execute(p)
  BY <1>2, <1>5 DEF Execute, TypeOK, guardVars
<1>6. CASE Free(p)
  <2>1. conns' \in SUBSET Procs /\ Cardinality(conns') <= PoolSize
    BY <1>3, <1>6, OneMoreOrLess DEF Free, TypeOK
  <2> QED
    BY <1>2, <1>6, <2>1 DEF Free, TypeOK, guardVars
<1>7. CASE TakeThread(p)
  <2>1. workers' \in SUBSET Procs /\ Cardinality(workers') <= Workers
    BY <1>3, <1>7, OneMoreOrLess DEF TakeThread
  <2> QED
    BY <1>7, <2>1 DEF TakeThread, TypeOK, guardVars
<1>8. CASE Computed(p)
  <2>1. workers' \in SUBSET Procs /\ Cardinality(workers') <= Workers
    BY <1>3, <1>8, OneMoreOrLess DEF Computed, TypeOK
  <2> QED
    BY <1>2, <1>8, <2>1 DEF Computed, TypeOK, guardVars
<1>9. CASE Queue(p)
  <2>1. /\ slot' \in Seq(Procs) /\ IsInjective(slot')
        /\ sem' \in Seq(Procs) /\ IsInjective(sem')
    <3>1. slot \in Seq(Procs) /\ IsInjective(slot) /\ sem \in Seq(Procs) /\ IsInjective(sem)
      BY DEF TypeOK
    <3>2. CASE ~Contains(slot, p) /\ slot' = Append(slot, p) /\ sem' = sem
      BY <3>1, <3>2, AppendQueue
    <3>3. CASE ~Contains(sem, p) /\ sem' = Append(sem, p) /\ slot' = slot
      BY <3>1, <3>3, AppendQueue
    <3> QED
      BY <1>9, <3>2, <3>3 DEF Queue
  <2> QED
    BY <1>9, <2>1 DEF Queue, TypeOK, guardVars
<1>10. CASE TakeTurn(p)
  BY <1>2, <1>10 DEF TakeTurn, TypeOK, guardVars
<1>11. CASE EndTurn(p)
  <2>1. /\ slot' \in Seq(Procs) /\ IsInjective(slot')
        /\ sem' \in Seq(Procs) /\ IsInjective(sem')
    BY <1>11, WithoutQueue DEF EndTurn, TypeOK
  <2> QED
    BY <1>2, <1>11, <2>1 DEF EndTurn, TypeOK, guardVars
<1>12. CASE Fitted(p)
  <2>1. hooks' \in [Procs -> Nat]
    BY <1>12 DEF Fitted, TypeOK
  <2> QED
    BY <1>2, <1>12, <2>1 DEF Fitted, TypeOK
<1>13. CASE Acquire(p)
  <2> DEFINE H == {q \in Procs : hold[q] = "held"}
             N == {q \in Procs : hold'[q] = "held"}
  <2>1. IsFiniteSet(H) /\ Cardinality(H) \in Nat
    BY ProcsFinite
  <2>2. Cardinality(H) = 0 /\ permits = 1
    BY <1>13, <2>1 DEF Acquire, TypeOK
  <2>3. H = {}
    BY <2>1, <2>2, FS_EmptySet
  <2>4. hold' \in [Procs -> {"none", "held", "released"}] /\ N = {p}
    BY <1>13, <2>3 DEF Acquire, TypeOK
  <2>5. Cardinality(N) = 1
    BY <2>4, FS_Singleton
  <2>6. permits' = 0
    BY <1>13, <2>2 DEF Acquire
  <2> QED
    BY <1>2, <1>13, <2>4, <2>5, <2>6 DEF Acquire, TypeOK
<1>14. CASE Refuse(p)
  BY <1>14, ProgramsClosed DEF Refuse, TypeOK, guardVars
<1>15. CASE Stream(p)
  <2>1. hooks' \in [Procs -> Nat]
    BY <1>15 DEF Stream, TypeOK
  <2> QED
    BY <1>2, <1>15, <2>1 DEF Stream, TypeOK
<1>16. CASE Hook(p)
  <2>1. hooks' \in [Procs -> Nat]
    BY <1>16 DEF Hook, TypeOK
  <2>2. /\ hold' \in [Procs -> {"none", "held", "released"}] /\ permits' \in Nat
        /\ permits' = 1 - Cardinality({q \in Procs : hold'[q] = "held"})
    BY <1>16, ReleaseTypes DEF Hook
  <2> QED
    BY <1>16, <2>1, <2>2 DEF Hook, TypeOK
<1>17. CASE TimeOut(p)
  BY <1>17, UnwindTypes DEF TimeOut
<1> QED
  BY <1>4, <1>5, <1>6, <1>7, <1>8, <1>9, <1>10, <1>11, <1>12, <1>13, <1>14, <1>15,
     <1>16, <1>17 DEF Step

\* The pool, the executor, the queues and the guard keep their types and bounds.
THEOREM TypeCorrect == Spec => []TypeOK
<1>1. Init => TypeOK
  <2> HAVE Init
  <2>1. todo \in [Procs -> Programs]
    BY ProgramsClosed DEF Init
  <2>2. {p \in Procs : hold[p] = "held"} = {}
    BY DEF Init
  <2>3. slot \in Seq(Procs) /\ IsInjective(slot) /\ sem \in Seq(Procs) /\ IsInjective(sem)
    BY DEF Init, IsInjective
  <2> QED
    BY <2>1, <2>2, <2>3, FS_EmptySet DEF Init, TypeOK
<1>2. TypeOK /\ [Next]_vars => TypeOK'
  <2> SUFFICES ASSUME TypeOK, [Next]_vars
               PROVE  TypeOK'
    OBVIOUS
  <2>1. CASE UNCHANGED vars
    BY <2>1 DEF TypeOK, vars
  <2>2. ASSUME NEW p \in Procs, Step(p)
        PROVE  TypeOK'
    BY <2>2, StepTypes
  <2>3. ASSUME NEW p \in Procs, Raise(p)
        PROVE  TypeOK'
    BY <2>3, UnwindTypes DEF Raise
  <2>4. ASSUME NEW p \in Procs, NEW k \in Kinds, Begin(p, k)
        PROVE  TypeOK'
    <3>1. PICK s \in Scripts[k] : todo' = [todo EXCEPT ![p] = s]
      BY <2>4 DEF Begin
    <3>2. kind' \in [Procs -> Kinds \cup {"none", "failed"}] /\ todo' \in [Procs -> Programs]
      BY <2>4, <3>1, ProgramsClosed DEF Begin, TypeOK
    <3> QED
      BY <2>4, <3>2 DEF Begin, TypeOK, guardVars
  <2> QED
    BY <2>1, <2>2, <2>3, <2>4 DEF Next
<1> QED
  BY <1>1, <1>2, PTL DEF Spec

-----------------------------------------------------------------------------
(* What is in hand.                                                        *)

Moves(p) == Step(p) \/ Raise(p) \/ \E k \in Kinds : Begin(p, k)

\* A process changes nothing of the others but their distance from the head.
LEMMA OthersKeep ==
  ASSUME TypeOK, NEW p \in Procs, NEW q \in Procs, q # p, Moves(p)
  PROVE  /\ todo'[q] = todo[q] /\ kind'[q] = kind[q]
         /\ hold'[q] = hold[q] /\ hooks'[q] = hooks[q]
         /\ q \in conns' <=> q \in conns
         /\ q \in workers' <=> q \in workers
         /\ Contains(slot', q) <=> Contains(slot, q)
         /\ Contains(sem', q) <=> Contains(sem, q)
         /\ Holds(slot, q) => Holds(slot', q)
         /\ Holds(sem, q) => Holds(sem', q)
<1>1. /\ todo'[q] = todo[q] /\ kind'[q] = kind[q]
      /\ q \in conns' <=> q \in conns
      /\ q \in workers' <=> q \in workers
  BY DEF Moves, Step, Raise, Begin, Connect, Execute, Free, TakeThread, Computed, Queue,
         TakeTurn, EndTurn, Fitted, Acquire, Refuse, Stream, Hook, TimeOut, Unwind, Advance, TypeOK
<1>2. hold'[q] = hold[q] /\ hooks'[q] = hooks[q]
  BY DEF Moves, Step, Raise, Begin, Connect, Execute, Free, TakeThread, Computed, Queue,
         TakeTurn, EndTurn, Fitted, Acquire, Refuse, Stream, Hook, TimeOut, Unwind,
         Release, ReleaseUnbuilt, TypeOK, guardVars
<1>3. \A queue \in {slot, sem} : queue \in Seq(Procs) /\ IsInjective(queue)
  BY DEF TypeOK
<1>4. ASSUME NEW queue \in {slot, sem}, NEW after,
             \/ after = queue
             \/ ~Contains(queue, p) /\ after = Append(queue, p)
             \/ after = Without(queue, p)
      PROVE  /\ Contains(after, q) <=> Contains(queue, q)
             /\ Holds(queue, q) => Holds(after, q)
  <2>1. queue \in Seq(Procs) /\ IsInjective(queue)
    BY <1>3
  <2>2. CASE ~Contains(queue, p) /\ after = Append(queue, p)
    BY <2>1, <2>2, AppendQueue
  <2>3. CASE after = Without(queue, p)
    BY <2>1, <2>3, WithoutQueue
  <2> QED
    BY <1>4, <2>2, <2>3
<1>5. /\ slot' = slot \/ (~Contains(slot, p) /\ slot' = Append(slot, p)) \/ slot' = Without(slot, p)
      /\ sem' = sem \/ (~Contains(sem, p) /\ sem' = Append(sem, p)) \/ sem' = Without(sem, p)
  BY DEF Moves, Step, Raise, Begin, Connect, Execute, Free, TakeThread, Computed, Queue,
         TakeTurn, EndTurn, Fitted, Acquire, Refuse, Stream, Hook, TimeOut, Unwind
<1> QED
  BY <1>1, <1>2, <1>4, <1>5

LEMMA OthersHands ==
  ASSUME TypeOK, IInv, NEW p \in Procs, NEW q \in Procs, q # p, Moves(p)
  PROVE  Hands(q)' /\ Permit(q)'
BY OthersKeep DEF IInv, Hands, Permit, At, Attributes, Fits, Owes

\* An operation is behind: what that says of the rest.
LEMMA Behind ==
  ASSUME TypeOK, IInv, NEW p \in Procs, todo[p] # <<>>
  PROVE  LET s == todo[p]
         IN  /\ s \in Seq(Ops) /\ Tail(s) \in Seq(Ops) /\ kind[p] \in Kinds \cup {"failed"}
             /\ Suits(kind[p], s) /\ Suits(kind[p], Tail(s))
             /\ Head(s) = "db" => Ahead(Tail(s), "free")
             /\ (Head(s) = "db" /\ kind[p] \in {"run", "report", "failed"}) =>
                  Tail(s) # <<>> /\ Head(Tail(s)) = "free"
<1> DEFINE s == todo[p]
<1>1. Suits(kind[p], s) /\ kind[p] \in Kinds \cup {"none", "failed"}
  BY DEF IInv, Hands, TypeOK
<1>2. kind[p] # "none"
  BY <1>1 DEF Suits
<1>3. Suits(kind[p], Tail(s)) /\ s \in Seq(Ops) /\ Tail(s) \in Seq(Ops)
  <2>1. kind[p] \in Kinds \cup {"failed"}
    BY <1>1, <1>2
  <2>2. Suits(kind[p], Tail(s))
    BY <1>1, <2>1, RestSuits
  <2> QED
    BY <1>1, <2>2 DEF Suits, Formed
<1>4. Head(s) = "db" => Ahead(Tail(s), "free")
  <2>1. Head(s) = "db" => Within(Tail(s), "free", Ops)
    BY <1>1, <1>3, OpensRest DEF Suits, Formed
  <2> QED
    BY <2>1 DEF Within, Ahead
<1>5. (Head(s) = "db" /\ kind[p] \in {"run", "report", "failed"}) =>
        Tail(s) # <<>> /\ Head(Tail(s)) = "free"
  BY <1>1, <1>3, PairedRest DEF Suits
<1> QED
  BY <1>1, <1>2, <1>3, <1>4, <1>5

\* A turn begins with its take and lasts to its give.
LEMMA TurnsRest ==
  ASSUME TypeOK, IInv, NEW p \in Procs, todo[p] # <<>>
  PROVE  LET s == todo[p]
         IN  /\ Head(s) = "enter" => Within(Tail(s), "leave", {"cpu"})
             /\ Within(Tail(s), "leave", {"cpu"}) =>
                  Head(s) = "enter" \/ (Head(s) = "cpu" /\ Attributes(p))
             /\ Attributes(p) /\ Head(s) # "leave" =>
                  Head(s) = "cpu" /\ Within(Tail(s), "leave", {"cpu"})
             /\ Head(s) = "sem" => Within(Tail(s), "unsem", {"db", "fit", "free"})
             /\ Within(Tail(s), "unsem", {"db", "fit", "free"}) =>
                  Head(s) = "sem" \/ (Head(s) \in {"db", "fit", "free"} /\ Fits(p))
             /\ Fits(p) /\ Head(s) # "unsem" =>
                  Head(s) \in {"db", "fit", "free"} /\ Within(Tail(s), "unsem", {"db", "fit", "free"})
<1> DEFINE s == todo[p]
<1>1. s \in Seq(Ops) /\ Formed(s)
  BY Behind DEF Suits
<1>2. /\ Head(s) = "enter" => Within(Tail(s), "leave", {"cpu"})
      /\ Head(s) = "sem" => Within(Tail(s), "unsem", {"db", "fit", "free"})
  BY <1>1, OpensRest DEF Formed, Attributing, Fitting
<1>3. /\ Attributes(p) /\ Head(s) # "leave" =>
           Head(s) \in {"cpu"} /\ Within(Tail(s), "leave", {"cpu"})
      /\ Fits(p) /\ Head(s) # "unsem" =>
           Head(s) \in {"db", "fit", "free"} /\ Within(Tail(s), "unsem", {"db", "fit", "free"})
  BY <1>1, WithinRest DEF Attributes, Fits
<1>4. "enter" \notin {"cpu"} /\ "sem" \notin {"db", "fit", "free"}
  OBVIOUS
<1>5. /\ Within(Tail(s), "leave", {"cpu"}) =>
           Head(s) = "enter" \/ (Head(s) \in {"cpu"} /\ Within(s, "leave", {"cpu"}))
      /\ Within(Tail(s), "unsem", {"db", "fit", "free"}) =>
           Head(s) = "sem" \/ (Head(s) \in {"db", "fit", "free"} /\ Within(s, "unsem", {"db", "fit", "free"}))
  BY <1>1, <1>4, ClosesRest DEF Formed, Attributing, Fitting
<1> QED
  BY <1>2, <1>3, <1>5 DEF Attributes, Fits

\* Going on keeps the hands in order when the operation takes or gives its due.
LEMMA HandsRest ==
  ASSUME TypeOK, IInv, NEW p \in Procs, todo[p] # <<>>, Advance(p), kind' = kind,
         p \in conns' => Head(todo[p]) = "db" \/ (p \in conns /\ Head(todo[p]) # "free"),
         p \notin workers',
         Contains(slot', p) => Contains(slot, p) /\ Head(todo[p]) # "leave",
         Head(todo[p]) = "enter" \/ (Holds(slot, p) /\ Head(todo[p]) # "leave") => Holds(slot', p),
         Contains(sem', p) => Contains(sem, p) /\ Head(todo[p]) # "unsem",
         Head(todo[p]) = "sem" \/ (Holds(sem, p) /\ Head(todo[p]) # "unsem") => Holds(sem', p)
  PROVE  Hands(p)'
<1> DEFINE s == todo[p]
<1>1. todo'[p] = Tail(s) /\ kind'[p] = kind[p]
  BY DEF Advance, TypeOK
<1>2. Hands(p)
  BY DEF IInv
<1>3. Suits(kind'[p], todo'[p])
  BY <1>1, Behind
<1>4. p \in conns' => Ahead(todo'[p], "free")
  BY <1>1, <1>2, Behind, AheadRest DEF Hands
<1>5. p \in conns' /\ kind'[p] \in {"run", "report", "failed"} => At(p, "free")'
  BY <1>1, <1>2, Behind DEF Hands, At
<1>6. /\ Contains(slot', p) => At(p, "enter")' \/ Attributes(p)'
      /\ Attributes(p)' => Holds(slot', p)
  BY <1>1, <1>2, TurnsRest DEF Hands, At, Attributes
<1>7. /\ Contains(sem', p) => At(p, "sem")' \/ Fits(p)'
      /\ Fits(p)' => Holds(sem', p)
  BY <1>1, <1>2, TurnsRest DEF Hands, At, Fits
<1> QED
  BY <1>3, <1>4, <1>5, <1>6, <1>7 DEF Hands

\* Where a process holds something, it is not at the operations that need nothing.
LEMMA FreeHands ==
  ASSUME TypeOK, IInv, NEW p \in Procs
  PROVE  /\ todo[p] = <<>> =>
              p \notin conns /\ p \notin workers /\ ~Contains(slot, p) /\ ~Contains(sem, p)
         /\ todo[p] # <<>> /\ Head(todo[p]) # "cpu" => p \notin workers
         /\ Head(todo[p]) \notin {"enter", "cpu", "leave"} => ~Contains(slot, p)
         /\ Head(todo[p]) \notin {"sem", "db", "fit", "free", "unsem"} => ~Contains(sem, p)
<1>1. Hands(p)
  BY DEF IInv
<1>2. CASE todo[p] = <<>>
  <2>1. /\ ~Ahead(todo[p], "free")
        /\ ~Within(todo[p], "leave", {"cpu"}) /\ ~Within(todo[p], "unsem", {"db", "fit", "free"})
    BY <1>2 DEF Ahead, Within
  <2> QED
    BY <1>1, <1>2, <2>1 DEF Hands, At, Attributes, Fits
<1>3. CASE todo[p] # <<>>
  BY <1>1, <1>3, TurnsRest DEF Hands, At
<1> QED
  BY <1>2, <1>3

LEMMA UnwindHands ==
  ASSUME TypeOK, IInv, NEW p \in Procs, Unwind(p)
  PROVE  Hands(p)'
<1> DEFINE s == Handler(kind[p])
<1>1. todo'[p] = s /\ kind'[p] = "failed"
  BY DEF Unwind, TypeOK
<1>2. /\ Suits("failed", s) /\ Whole(s) /\ s # <<>> /\ Head(s) = "free"
  BY HandlerSuits
<1> HIDE DEF s
<1>3. /\ ~Within(s, "leave", {"cpu"}) /\ ~Within(s, "unsem", {"db", "fit", "free"})
  BY <1>2, WholeBegins DEF Attributing, Fitting
<1>4. Ahead(s, "free")
  BY <1>2, RestOf DEF Ahead, Whole
<1>5. ~Contains(slot', p) /\ ~Contains(sem', p)
  BY WithoutQueue DEF Unwind, TypeOK
<1>6. p \notin workers'
  BY DEF Unwind
<1> QED
  BY <1>1, <1>2, <1>3, <1>4, <1>5, <1>6 DEF Hands, At, Attributes, Fits

LEMMA BeginHands ==
  ASSUME TypeOK, IInv, NEW p \in Procs, NEW k \in Kinds, Begin(p, k)
  PROVE  Hands(p)' /\ Permit(p)'
<1>1. PICK s \in Scripts[k] : todo' = [todo EXCEPT ![p] = s]
  BY DEF Begin
<1>2. todo'[p] = s /\ kind'[p] = k /\ kind[p] = "none"
  BY <1>1 DEF Begin, TypeOK
<1>3. Suits(k, s) /\ Whole(s) /\ (Ahead(s, "stream") => Ahead(s, "guard"))
  BY ScriptSuits
<1>4. ~Within(s, "leave", {"cpu"}) /\ ~Within(s, "unsem", {"db", "fit", "free"})
  BY <1>3, WholeBegins DEF Attributing, Fitting
<1>5. todo[p] = <<>> /\ hold[p] = "none" /\ hooks[p] = 0
  BY <1>2 DEF IInv, Hands, Suits, Permit
<1>6. p \notin conns' /\ p \notin workers' /\ ~Contains(slot', p) /\ ~Contains(sem', p)
  BY <1>5, FreeHands DEF Begin
<1>7. hold'[p] = "none" /\ hooks'[p] = 0
  BY <1>5 DEF Begin, guardVars
<1>8. Hands(p)'
  BY <1>2, <1>3, <1>4, <1>6 DEF Hands, At, Attributes, Fits
<1>9. k # "none"
  BY DEF Kinds
<1> QED
  BY <1>2, <1>3, <1>7, <1>8, <1>9 DEF Permit, Owes

\* One case per operation.
LEMMA StepHands ==
  ASSUME TypeOK, IInv, NEW p \in Procs, Step(p)
  PROVE  Hands(p)'
<1>1. /\ slot \in Seq(Procs) /\ IsInjective(slot)
      /\ sem \in Seq(Procs) /\ IsInjective(sem)
  BY DEF TypeOK
<1>2. CASE Connect(p)
  BY <1>2, FreeHands, HandsRest DEF Connect, At
<1>3. CASE Execute(p)
  BY <1>3, FreeHands, HandsRest DEF Execute, At
<1>4. CASE Free(p)
  BY <1>4, FreeHands, HandsRest DEF Free, At
<1>5. CASE TakeThread(p)
  BY <1>5 DEF TakeThread, IInv, Hands, At, Attributes, Fits
<1>6. CASE Computed(p)
  BY <1>6, HandsRest DEF Computed, At
<1>7. CASE Queue(p)
  <2>1. UNCHANGED <<kind, todo, conns, workers>> /\ Hands(p)
    BY <1>7 DEF Queue, IInv
  <2>2. CASE At(p, "enter") /\ ~Contains(slot, p) /\ slot' = Append(slot, p) /\ UNCHANGED sem
    <3>1. Holds(slot, p) => Holds(slot', p)
      BY <1>1, <2>2, AppendQueue
    <3> QED
      BY <2>1, <2>2, <3>1 DEF Hands, At, Attributes, Fits
  <2>3. CASE At(p, "sem") /\ ~Contains(sem, p) /\ sem' = Append(sem, p) /\ UNCHANGED slot
    <3>1. Holds(sem, p) => Holds(sem', p)
      BY <1>1, <2>3, AppendQueue
    <3> QED
      BY <2>1, <2>3, <3>1 DEF Hands, At, Attributes, Fits
  <2> QED
    BY <1>7, <2>2, <2>3 DEF Queue
<1>8. CASE TakeTurn(p)
  BY <1>8, FreeHands, HandsRest DEF TakeTurn, At
<1>9. CASE EndTurn(p)
  <2>1. todo[p] # <<>> /\ Advance(p) /\ kind' = kind /\ conns' = conns /\ workers' = workers
    BY <1>9 DEF EndTurn, At
  <2>2. CASE At(p, "leave") /\ slot' = Without(slot, p) /\ UNCHANGED sem
    <3>1. ~Contains(slot', p)
      BY <1>1, <2>2, WithoutQueue
    <3> QED
      BY <2>1, <2>2, <3>1, FreeHands, HandsRest DEF At
  <2>3. CASE At(p, "unsem") /\ sem' = Without(sem, p) /\ UNCHANGED slot
    <3>1. ~Contains(sem', p)
      BY <1>1, <2>3, WithoutQueue
    <3> QED
      BY <2>1, <2>3, <3>1, FreeHands, HandsRest DEF At
  <2> QED
    BY <1>9, <2>2, <2>3 DEF EndTurn
<1>10. CASE Fitted(p)
  BY <1>10, FreeHands, HandsRest DEF Fitted, At
<1>11. CASE Acquire(p)
  BY <1>11, FreeHands, HandsRest DEF Acquire, At
<1>12. CASE Refuse(p)
  <2> DEFINE s == <<"free">>
  <2>1. todo'[p] = s /\ kind'[p] = kind[p] /\ UNCHANGED <<conns, workers, slot, sem>>
    BY <1>12 DEF Refuse, TypeOK
  <2>2. todo[p] # <<>> /\ Head(todo[p]) = "guard"
    BY <1>12 DEF Refuse, At
  <2>3. Ahead(todo[p], "guard")
    BY <2>2, Behind, RestOf DEF Ahead
  <2>4. kind[p] = "export"
    BY <2>3 DEF IInv, Hands, Suits
  <2>5. /\ Suits("export", s) /\ ~Within(s, "leave", {"cpu"})
        /\ ~Within(s, "unsem", {"db", "fit", "free"})
    BY RefusedSuits DEF Attributing, Fitting
  <2>6. Ahead(s, "free") /\ s # <<>> /\ Head(s) = "free"
    BY DEF Ahead
  <2>7. p \notin workers /\ ~Contains(slot, p) /\ ~Contains(sem, p)
    BY <2>2, FreeHands
  <2> HIDE DEF s
  <2> QED
    BY <2>1, <2>4, <2>5, <2>6, <2>7 DEF Hands, At, Attributes, Fits
<1>13. CASE Stream(p)
  BY <1>13, FreeHands, HandsRest DEF Stream, At
<1>14. CASE Hook(p)
  BY <1>14 DEF Hook, IInv, Hands, At, Attributes, Fits
<1>15. CASE TimeOut(p)
  BY <1>15, UnwindHands DEF TimeOut
<1> QED
  BY <1>2, <1>3, <1>4, <1>5, <1>6, <1>7, <1>8, <1>9, <1>10, <1>11, <1>12, <1>13, <1>14,
     <1>15 DEF Step

-----------------------------------------------------------------------------
(* The permit of an export.                                                *)

LEMMA UnwindPermit ==
  ASSUME TypeOK, IInv, NEW p \in Procs, Unwind(p)
  PROVE  Permit(p)'
<1> DEFINE s == Handler(kind[p])
<1>1. todo'[p] = s /\ kind'[p] = "failed" /\ hooks' = hooks
  BY DEF Unwind, TypeOK
<1>2. ~Ahead(s, "guard")
  BY HandlerSuits DEF Suits
<1> HIDE DEF s
<1>3. Owes(p)' => hooks[p] > 0
  BY DEF Unwind, ReleaseUnbuilt, Release, Owes, TypeOK
<1> QED
  BY <1>1, <1>2, <1>3 DEF Permit

\* Going on keeps the permit where the operation is none of the guard's.
LEMMA PermitRest ==
  ASSUME TypeOK, IInv, NEW p \in Procs, todo[p] # <<>>, Advance(p), kind' = kind,
         UNCHANGED guardVars, Head(todo[p]) \notin {"guard", "fit"}
  PROVE  Permit(p)'
<1>1. todo'[p] = Tail(todo[p]) /\ kind'[p] = kind[p] /\ hold'[p] = hold[p] /\ hooks'[p] = hooks[p]
  BY DEF Advance, TypeOK, guardVars
<1>2. Permit(p)
  BY DEF IInv
<1>3. /\ \A op : Ahead(Tail(todo[p]), op) => Ahead(todo[p], op)
      /\ Ahead(todo[p], "guard") => Ahead(Tail(todo[p]), "guard")
      /\ Ahead(todo[p], "fit") => Ahead(Tail(todo[p]), "fit")
  BY Behind, AheadRest
<1> QED
  BY <1>1, <1>2, <1>3 DEF Permit, Owes

\* Past the guard, the decoding or the stream there is no guard any more.
LEMMA GuardOnce ==
  ASSUME TypeOK, IInv, NEW p \in Procs, todo[p] # <<>>,
         Head(todo[p]) \in {"guard", "fit", "stream"}
  PROVE  ~Ahead(Tail(todo[p]), "guard")
<1> DEFINE s == todo[p]
<1>1. s \in Seq(Ops) /\ Suits(kind[p], s) /\ kind[p] \in Kinds \cup {"failed"}
  BY Behind
<1>2. CASE kind[p] # "export"
  BY <1>1, <1>2, AheadRest DEF Suits
<1>3. CASE kind[p] = "export"
  <2>1. \A i, j \in DOMAIN s : i < j /\ s[i] \in {"guard", "fit", "stream"} => s[j] # "guard"
    BY <1>1, <1>3 DEF Suits, Exporting
  <2>2. /\ 1 \in DOMAIN s /\ Head(s) = s[1] /\ DOMAIN s = 1..Len(s) /\ Len(s) \in Nat
        /\ DOMAIN Tail(s) = 1..(Len(s) - 1)
        /\ \A j \in DOMAIN Tail(s) : j + 1 \in DOMAIN s /\ Tail(s)[j] = s[j + 1]
    BY <1>1, RestOf
  <2>3. ASSUME NEW j \in DOMAIN Tail(s)
        PROVE  Tail(s)[j] # "guard"
    <3>1. j + 1 \in DOMAIN s /\ Tail(s)[j] = s[j + 1] /\ 1 < j + 1
      BY <2>2
    <3>2. s[1] \in {"guard", "fit", "stream"}
      BY <2>2
    <3>3. s[j + 1] # "guard"
      BY <2>1, <2>2, <3>1, <3>2
    <3> QED
      BY <3>1, <3>3
  <2> QED
    BY <2>3 DEF Ahead
<1> QED
  BY <1>2, <1>3

LEMMA StepPermit ==
  ASSUME TypeOK, IInv, NEW p \in Procs, Step(p)
  PROVE  Permit(p)'
<1>1. Permit(p)
  BY DEF IInv
<1>2. CASE Connect(p)
  BY <1>2, PermitRest DEF Connect, At
<1>3. CASE Execute(p)
  BY <1>3, PermitRest DEF Execute, At
<1>4. CASE Free(p)
  BY <1>4, PermitRest DEF Free, At
<1>5. CASE TakeThread(p) \/ Queue(p)
  BY <1>1, <1>5 DEF TakeThread, Queue, Permit, Owes, guardVars
<1>6. CASE Computed(p)
  BY <1>6, PermitRest DEF Computed, At
<1>7. CASE TakeTurn(p)
  BY <1>7, PermitRest DEF TakeTurn, At
<1>8. CASE EndTurn(p)
  BY <1>8, PermitRest DEF EndTurn, At
<1>9. CASE Fitted(p)
  <2>1. todo[p] # <<>> /\ Head(todo[p]) = "fit"
    BY <1>9 DEF Fitted, At
  <2>2. /\ todo'[p] = Tail(todo[p]) /\ kind'[p] = kind[p] /\ hold'[p] = hold[p]
        /\ hooks'[p] = IF kind[p] = "export" THEN 1 ELSE hooks[p]
    BY <1>9 DEF Fitted, Advance, TypeOK
  <2>3. ~Ahead(Tail(todo[p]), "guard")
    BY <2>1, GuardOnce
  <2>4. Ahead(Tail(todo[p]), "stream") => Ahead(todo[p], "stream")
    BY <2>1, Behind, AheadRest
  <2>5. Ahead(todo[p], "guard") => Ahead(Tail(todo[p]), "guard")
    BY <2>1, Behind, AheadRest
  <2>6. kind[p] # "none"
    BY <2>1, Behind DEF Kinds
  <2> QED
    BY <1>1, <2>2, <2>3, <2>4, <2>5, <2>6 DEF Permit, Owes
<1>10. CASE Acquire(p)
  <2>1. todo[p] # <<>> /\ Head(todo[p]) = "guard"
    BY <1>10 DEF Acquire, At
  <2>2. /\ todo'[p] = Tail(todo[p]) /\ kind'[p] = kind[p] /\ hold'[p] = "held"
        /\ hooks'[p] = hooks[p]
    BY <1>10 DEF Acquire, Advance, TypeOK
  <2>3. ~Ahead(Tail(todo[p]), "guard")
    BY <2>1, GuardOnce
  <2>4. Suits(kind[p], todo[p]) /\ todo[p] \in Seq(Ops)
    BY <2>1, Behind
  <2>5. Ahead(todo[p], "guard")
    BY <2>1, <2>4, RestOf DEF Ahead
  <2>6. kind[p] = "export"
    BY <2>4, <2>5 DEF Suits
  <2>7. Within(Tail(todo[p]), "fit", Ops)
    BY <2>1, <2>4, <2>6, OpensRest DEF Suits, Exporting
  <2>8. Ahead(Tail(todo[p]), "fit")
    BY <2>7 DEF Within, Ahead
  <2> QED
    BY <2>2, <2>3, <2>6, <2>8 DEF Permit, Owes
<1>11. CASE Refuse(p)
  <2>1. todo[p] # <<>> /\ Head(todo[p]) = "guard"
    BY <1>11 DEF Refuse, At
  <2>2. Ahead(todo[p], "guard")
    BY <2>1, Behind, RestOf DEF Ahead
  <2>3. todo'[p] = <<"free">> /\ UNCHANGED <<kind, hold, hooks>> /\ hold[p] = "none"
    BY <1>1, <1>11, <2>2 DEF Refuse, guardVars, TypeOK, Permit
  <2>4. ~Ahead(<<"free">>, "guard") /\ ~Ahead(<<"free">>, "stream")
    BY RefusedSuits
  <2> QED
    BY <1>1, <2>3, <2>4 DEF Permit, Owes
<1>12. CASE Stream(p)
  <2>1. todo[p] # <<>> /\ Head(todo[p]) = "stream"
    BY <1>12 DEF Stream, At
  <2>2. /\ todo'[p] = Tail(todo[p]) /\ kind'[p] = kind[p] /\ hold'[p] = hold[p]
        /\ (hooks[p] > 0 => hooks'[p] > 0)
    <3>1. PICK more \in 0..2 : hooks' = [hooks EXCEPT ![p] = @ + more]
      BY <1>12 DEF Stream
    <3>2. hooks[p] \in Nat /\ hooks'[p] = hooks[p] + more
      BY <3>1 DEF TypeOK
    <3>3. hooks[p] > 0 => hooks'[p] > 0
      BY <3>2
    <3> QED
      BY <1>12, <3>3 DEF Stream, Advance, TypeOK
  <2>3. ~Ahead(Tail(todo[p]), "guard")
    BY <2>1, GuardOnce
  <2>4. /\ Ahead(Tail(todo[p]), "stream") => Ahead(todo[p], "stream")
        /\ Ahead(todo[p], "fit") => Ahead(Tail(todo[p]), "fit")
        /\ Ahead(todo[p], "guard") => Ahead(Tail(todo[p]), "guard")
    BY <2>1, Behind, AheadRest
  <2>5. kind[p] # "none"
    BY <2>1, Behind DEF Kinds
  <2> QED
    BY <1>1, <2>2, <2>3, <2>4, <2>5 DEF Permit, Owes
<1>13. CASE Hook(p)
  <2>1. hooks[p] > 0 /\ UNCHANGED <<kind, todo>>
    BY <1>13 DEF Hook
  <2>2. kind[p] # "none"
    BY <1>1, <2>1 DEF Permit
  <2>3. ~Ahead(todo[p], "guard") /\ ~Ahead(todo[p], "stream")
    <3>1. todo[p] \in {<<>>, <<"free">>}
      BY <1>13 DEF Hook
    <3> QED
      BY <3>1 DEF Ahead
  <2>4. ~Owes(p)'
    BY <1>13 DEF Hook, Release, Owes, TypeOK
  <2> QED
    BY <2>1, <2>2, <2>3, <2>4 DEF Permit
<1>14. CASE TimeOut(p)
  BY <1>14, UnwindPermit DEF TimeOut
<1> QED
  BY <1>2, <1>3, <1>4, <1>5, <1>6, <1>7, <1>8, <1>9, <1>10, <1>11, <1>12, <1>13, <1>14 DEF Step

LEMMA Invariance == Spec => []IInv
<1>1. Init => IInv
  <2> SUFFICES ASSUME Init, NEW p \in Procs
               PROVE  Hands(p) /\ Permit(p)
    BY DEF IInv
  <2>1. /\ kind[p] = "none" /\ todo[p] = <<>> /\ hold[p] = "none" /\ hooks[p] = 0
        /\ p \notin conns /\ p \notin workers /\ ~Contains(slot, p) /\ ~Contains(sem, p)
    BY DEF Init, Contains
  <2>2. \A op : ~Ahead(<<>>, op)
    BY DEF Ahead
  <2>3. Formed(<<>>)
    BY EmptySeq DEF Formed, Opens, Closes
  <2>4. ~Attributes(p) /\ ~Fits(p)
    BY <2>1 DEF Attributes, Fits, Within
  <2> QED
    BY <2>1, <2>2, <2>3, <2>4 DEF Hands, Permit, Suits, Owes
<1>2. TypeOK /\ IInv /\ [Next]_vars => IInv'
  <2> SUFFICES ASSUME TypeOK, IInv, [Next]_vars
               PROVE  IInv'
    OBVIOUS
  <2>1. CASE UNCHANGED vars
    BY <2>1 DEF vars, IInv, Hands, Permit, At, Attributes, Fits, Owes
  <2>2. ASSUME NEW p \in Procs, Moves(p)
        PROVE  IInv'
    <3>1. Hands(p)' /\ Permit(p)'
      BY <2>2, StepHands, StepPermit, UnwindHands, UnwindPermit, BeginHands DEF Moves, Raise
    <3> QED
      BY <2>2, <3>1, OthersHands DEF IInv
  <2> QED
    BY <2>1, <2>2 DEF Next, Moves
<1> QED
  BY <1>1, <1>2, TypeCorrect, PTL DEF Spec

-----------------------------------------------------------------------------
(* What follows.                                                           *)

\* A burst of runs and reports, however many and whatever the size of the pool,
\* never starves it: each of them has given its connection back before it does
\* anything slow.
THEOREM PoolIsServed == Spec => []PoolServes
<1>1. TypeOK /\ IInv => PoolServes
  <2> SUFFICES ASSUME TypeOK, IInv, Starved
               PROVE  /\ \A p \in conns : kind[p] \notin {"run", "report"}
                      /\ \/ \E p \in conns : At(p, "fit") \/ At(p, "stream")
                         \/ \A p \in conns : At(p, "sem")
    BY DEF PoolServes
  <2>1. ASSUME NEW p \in conns
        PROVE  /\ kind[p] \notin {"run", "report"}
               /\ At(p, "fit") \/ At(p, "stream") \/ At(p, "sem")
    <3>1. p \in Procs /\ Hands(p) /\ todo[p] # <<>> /\ Slow(p)
      BY <2>1 DEF TypeOK, IInv, Starved, Slow, At
    <3>2. kind[p] \notin {"run", "report", "failed"}
      BY <3>1 DEF Hands, Slow, At
    <3>3. Suits(kind[p], todo[p]) /\ kind[p] \in Kinds \cup {"failed"} /\ todo[p] \in Seq(Ops)
      BY <3>1, Behind
    <3>4. ~Ahead(todo[p], "cpu") /\ ~Ahead(todo[p], "enter")
      BY <3>2, <3>3 DEF Suits, Kinds
    <3>5. ~At(p, "cpu") /\ ~At(p, "enter")
      BY <3>1, <3>3, <3>4, RestOf DEF Ahead, At
    <3> QED
      BY <3>1, <3>2, <3>5 DEF Slow
  <2> QED
    BY <2>1
<1> QED
  BY <1>1, TypeCorrect, Invariance, PTL

\* Whatever was taken has been given back by the end, on every path: exceptions
\* at any operation, the pool's timeout, a refused or an abandoned export.
THEOREM NothingIsKept == Spec => []NothingKept
<1>1. TypeOK /\ IInv => NothingKept
  <2> SUFFICES ASSUME TypeOK, IInv, NEW p \in Procs, Ended(p)
               PROVE  ~Holder(p) /\ (Owes(p) => hooks[p] > 0)
    BY DEF NothingKept
  <2>1. todo[p] = <<>> /\ Permit(p)
    BY DEF Ended, IInv
  <2>2. ~Ahead(todo[p], "fit")
    BY <2>1 DEF Ahead
  <2> QED
    BY <2>1, <2>2, FreeHands DEF Holder, Permit
<1> QED
  BY <1>1, TypeCorrect, Invariance, PTL

\* Nobody queues for the attribution slot with a connection or a thread in hand,
\* so that its holder, who needs threads, waits for none of its waiters.
THEOREM WaitersAreEmptyHanded == Spec => []WaitersHoldNothing
<1>1. TypeOK /\ IInv => WaitersHoldNothing
  <2> SUFFICES ASSUME TypeOK, IInv, NEW p \in Procs, At(p, "enter")
               PROVE  p \notin conns /\ p \notin workers
    BY DEF WaitersHoldNothing
  <2>1. todo[p] # <<>> /\ Head(todo[p]) = "enter" /\ Hands(p)
    BY DEF At, IInv
  <2>2. Ahead(todo[p], "enter") /\ Suits(kind[p], todo[p]) /\ kind[p] \in Kinds \cup {"failed"}
    BY <2>1, Behind, RestOf DEF Ahead
  <2>3. kind[p] \in {"run", "report", "failed"}
    BY <2>2 DEF Suits, Kinds
  <2> QED
    BY <2>1, <2>3, FreeHands DEF Hands, At
<1> QED
  BY <1>1, TypeCorrect, Invariance, PTL

\* An export that decodes or streams has the permit.
LEMMA DecoderOwes ==
  ASSUME TypeOK, IInv, NEW p \in Procs, Decodes(p)
  PROVE  Owes(p)
<1>1. todo[p] # <<>> /\ Head(todo[p]) \in {"fit", "stream"} /\ kind[p] = "export"
  BY DEF Decodes, At
<1>2. Suits(kind[p], todo[p]) /\ todo[p] \in Seq(Ops)
  BY <1>1, Behind
<1>3. ~Ahead(todo[p], "guard")
  BY <1>1, <1>2, GuardOnce, AheadRest
<1>4. Ahead(todo[p], "stream")
  <2>1. CASE Head(todo[p]) = "stream"
    BY <1>1, <1>2, <2>1, RestOf DEF Ahead
  <2>2. CASE Head(todo[p]) = "fit"
    <3>1. Within(Tail(todo[p]), "stream", Ops)
      BY <1>1, <1>2, <2>2, OpensRest DEF Suits, Exporting
    <3>2. Ahead(Tail(todo[p]), "stream")
      BY <3>1 DEF Within, Ahead
    <3> QED
      BY <1>1, <1>2, <3>2, AheadRest
  <2> QED
    BY <1>1, <2>1, <2>2
<1> QED
  BY <1>1, <1>3, <1>4 DEF IInv, Permit

\* The slot, the finalize semaphore and the samples guard let one in at a time.
THEOREM TurnsAreExclusive == Spec => []TurnsExclude
<1>1. TypeOK /\ IInv => TurnsExclude
  <2> SUFFICES ASSUME TypeOK, IInv, NEW p \in Procs, NEW q \in Procs,
                      \/ Attributes(p) /\ Attributes(q)
                      \/ Fits(p) /\ Fits(q)
                      \/ Decodes(p) /\ Decodes(q)
               PROVE  p = q
    BY DEF TurnsExclude
  <2>1. CASE Attributes(p) /\ Attributes(q)
    BY <2>1 DEF IInv, Hands, Holds
  <2>2. CASE Fits(p) /\ Fits(q)
    BY <2>2 DEF IInv, Hands, Holds
  <2>3. CASE Decodes(p) /\ Decodes(q)
    <3> SUFFICES ASSUME p # q PROVE FALSE
      OBVIOUS
    <3> DEFINE H == {r \in Procs : hold[r] = "held"}
    <3>1. {p, q} \in SUBSET H
      BY <2>3, DecoderOwes DEF Owes
    <3>2. IsFiniteSet(H) /\ Cardinality(H) \in Nat /\ Cardinality(H) <= 1
      BY ProcsFinite DEF TypeOK
    <3>3. Cardinality({p, q}) = 2
      <4>1. IsFiniteSet({p}) /\ Cardinality({p}) = 1
        BY FS_Singleton
      <4>2. Cardinality({p} \cup {q}) = Cardinality({p}) + 1
        BY <4>1, FS_AddElement
      <4>3. {p} \cup {q} = {p, q}
        OBVIOUS
      <4> QED
        BY <4>1, <4>2, <4>3
    <3>4. Cardinality({p, q}) <= Cardinality(H)
      BY <3>1, <3>2, FS_Subset
    <3> QED
      BY <3>2, <3>3, <3>4
  <2> QED
    BY <2>1, <2>2, <2>3
<1> QED
  BY <1>1, TypeCorrect, Invariance, PTL

\* While anyone is under way someone can go on, for every pool, executor and
\* mix of processes: the threads end, then the slot's holder has what it needs,
\* then whoever holds a connection, and at last the semaphore's holder.
THEOREM NoCircleOfWaiters == Spec => []NoCircle
<1>1. TypeOK /\ IInv => NoCircle
  <2> SUFFICES ASSUME TypeOK, IInv, NEW p \in Procs, ~Ended(p), \A q \in Procs : ~CanGo(q)
               PROVE  FALSE
    BY DEF NoCircle
  <2>1. ASSUME NEW q \in Procs, todo[q] # <<>>
        PROVE  At(q, "db") \/ At(q, "cpu") \/ At(q, "enter") \/ At(q, "sem")
    <3>1. Head(todo[q]) \in Ops
      BY <2>1, Behind, RestOf
    <3> QED
      BY <2>1, <3>1 DEF CanGo, At, Ops
  <2>2. \A q \in Procs : ~At(q, "cpu")
    <3> SUFFICES ASSUME NEW q \in Procs, At(q, "cpu")
                 PROVE  FALSE
      OBVIOUS
    <3>1. ~(Cardinality(workers) < Workers) /\ workers \in SUBSET Procs
      BY DEF CanGo, TypeOK
    <3>2. IsFiniteSet(workers) /\ Cardinality(workers) \in Nat /\ Workers > 0
      BY <3>1, ProcsFinite
    <3>3. workers # {}
      BY <3>1, <3>2, FS_EmptySet
    <3>4. PICK w \in workers : w \in Procs /\ At(w, "cpu")
      BY <3>1, <3>3 DEF IInv, Hands
    <3> QED
      BY <3>4 DEF CanGo
  <2>3. \A q \in Procs : ~At(q, "enter")
    <3> SUFFICES ASSUME NEW q \in Procs, At(q, "enter")
                 PROVE  FALSE
      OBVIOUS
    <3>1. slot \in Seq(Procs) /\ slot # <<>>
      BY EmptySeq DEF CanGo, TypeOK, Contains
    <3>2. PICK h \in Procs : Holds(slot, h) /\ Contains(slot, h)
      BY <3>1, RestOf DEF Holds, Contains
    <3>3. ~At(h, "enter") /\ Attributes(h)
      BY <3>2 DEF CanGo, IInv, Hands
    <3>4. todo[h] # <<>> /\ Head(todo[h]) \in {"leave", "cpu"}
      BY <3>2, <3>3, FreeHands, TurnsRest
    <3> QED
      BY <2>1, <2>2, <3>3, <3>4 DEF At
  <2>4. \A q \in Procs : ~At(q, "db")
    <3> SUFFICES ASSUME NEW q \in Procs, At(q, "db")
                 PROVE  FALSE
      OBVIOUS
    <3>1. Cardinality(conns) = PoolSize /\ ~Starved /\ conns \subseteq Procs
      <4>1. conns \in SUBSET Procs /\ Cardinality(conns) <= PoolSize
        BY DEF TypeOK
      <4>2. Cardinality(conns) \in Nat /\ PoolSize \in Nat
        BY <4>1, ProcsFinite
      <4>3. ~(Cardinality(conns) < PoolSize) /\ ~Starved
        BY DEF CanGo
      <4> QED
        BY <4>1, <4>2, <4>3
    <3>2. PICK c \in conns : ~Slow(c)
      BY <3>1 DEF Starved
    <3>3. c \in Procs /\ todo[c] # <<>>
      BY <3>1, FreeHands
    <3>4. At(c, "db")
      BY <2>1, <2>2, <2>3, <3>2, <3>3 DEF Slow
    <3> QED
      BY <3>3, <3>4 DEF CanGo
  <2>5. At(p, "sem")
    BY <2>1, <2>2, <2>3, <2>4 DEF Ended
  <2>6. sem \in Seq(Procs) /\ sem # <<>>
    BY <2>5, EmptySeq DEF CanGo, TypeOK, Contains
  <2>7. PICK h \in Procs : Holds(sem, h) /\ Contains(sem, h)
    BY <2>6, RestOf DEF Holds, Contains
  <2>8. todo[h] # <<>> /\ ~At(h, "sem")
    BY <2>7, FreeHands DEF CanGo
  <2> QED
    BY <2>1, <2>2, <2>3, <2>4, <2>8
<1> QED
  BY <1>1, TypeCorrect, Invariance, PTL

=============================================================================
