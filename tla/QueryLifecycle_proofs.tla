------------------------ MODULE QueryLifecycle_proofs ------------------------
(***************************************************************************)
(* The safety properties of QueryLifecycle for any set of queries and any  *)
(* pages the server may send, and the refinement of ResultStream.          *)
(*                                                                         *)
(* The properties speak of what has been handed out, and of queries that   *)
(* are dropped; what has to be added to them is how far the reading of the *)
(* pages has come: the page asked for, the page held back, and the first   *)
(* page that has not been read.                                            *)
(***************************************************************************)
EXTENDS QueryLifecycle, TLAPS

USE QueryLifecycleAssumption

-----------------------------------------------------------------------------
(* The inductive invariant, query by query *)

\* The first page that has not been read, where some have been.
Unread(q) == IF nextUri[q] = 0 THEN Final(q) + 1 ELSE nextUri[q]

Started(q) == user[q] \in {"schema", "reading", "ended"}

\* Before the answer to the start nothing has been read; who is registered has read it.
FreshOK(q) ==
  /\ user[q] \in {"idle", "starting"} =>
       firstPage[q] = 0 /\ nextUri[q] = 0 /\ seen[q] = <<>>
  /\ q \in failed => user[q] \in {"ended", "gone"}
  /\ user[q] = "idle" => future[q] = 0
  /\ user[q] = "starting" => future[q] = 1
  /\ q \in registered => user[q] \in {"reading", "ended", "gone"} /\ future[q] # 1

\* The request that is out is the start, or asks for the first unread page; meanwhile no
\* page is held back.
RequestOK(q) ==
  /\ future[q] = 0 <=> net[q] = "none"
  /\ future[q] \in {0, 1, nextUri[q]}
  /\ future[q] = 1 => user[q] \in {"starting", "gone"}
  /\ future[q] # 0 => firstPage[q] = 0
  /\ nextUri[q] \in {0} \cup 2 .. Final(q) /\ firstPage[q] \in 0 .. Final(q)
  /\ user[q] = "ended" => firstPage[q] = 0 /\ nextUri[q] = 0

\* What has been handed out came in order, before the page held back, which comes before
\* what is unread.
OrderOK(q) ==
  /\ \A i, j \in DOMAIN seen[q] : i < j => seen[q][i] < seen[q][j]
  /\ \A n \in Seen(q) : n < Unread(q) /\ (firstPage[q] # 0 => n < firstPage[q])
  /\ firstPage[q] < Unread(q)

\* Of the pages read, the needed ones have been handed out, or are held back.
DeliveredOK(q) ==
  Started(q) /\ q \notin failed =>
    \A n \in Needed(q) : n < Unread(q) => n \in Seen(q) \cup {firstPage[q]}

\* The last page ends the result set: the server does so when it sends that page.
ServedOK(q) ==
  /\ net[q] = "answered" /\ NextOf(q, future[q]) = 0 => result[q] # "live"
  /\ (Started(q) \/ user[q] = "gone") /\ q \notin failed /\ nextUri[q] = 0 /\ future[q] # 1
       => result[q] # "live"

\* What a heartbeat was told to be over stays over; so who reads is in the map, and who
\* is dropped has left it.
EntryOK(q) ==
  /\ q \in beatGone => beat = "answered" /\ result[q] # "live"
  /\ user[q] = "reading" /\ needProgress[q] /\ hasNode[q] /\ result[q] = "live" => q \in hb
  /\ user[q] = "gone" /\ q \in hb /\ result[q] = "live" => q \in failed \/ future[q] = Final(q)

QueryOK(q) ==
  /\ FreshOK(q) /\ RequestOK(q) /\ OrderOK(q)
  /\ DeliveredOK(q) /\ ServedOK(q) /\ EntryOK(q)

IInv == TypeOK /\ \A q \in Query : QueryOK(q)

-----------------------------------------------------------------------------
(* Pages and sequences *)

\* What matters of the pages of a query: which may be needed, and that each names the
\* next one.
LEMMA PageFacts ==
  ASSUME TypeOK, NEW q \in Query
  PROVE  /\ Final(q) \in Nat \ {0, 1}
         /\ \A n \in Needed(q) : n \in Nat /\ 1 <= n /\ n < Final(q)
         /\ \A n \in 1 .. Final(q) :
              /\ NextOf(q, n) \in Nat
              /\ NextOf(q, n) = 0 => n + 1 >= Final(q)
              /\ NextOf(q, n) # 0 => NextOf(q, n) = n + 1 /\ n < Final(q)
<1>1. script[q] \in Seq(Kinds) /\ script[q] # <<>>
  BY DEF TypeOK
<1>2. Len(script[q]) \in Nat /\ Len(script[q]) # 0
  BY <1>1
<1> QED
  BY <1>2 DEF Final, LastPage, Needed, NextOf

\* They stay what they are.
LEMMA PagesKept ==
  ASSUME UNCHANGED scriptVars, NEW q \in Query
  PROVE  /\ Final(q)' = Final(q) /\ Needed(q)' = Needed(q)
         /\ \A n : NextOf(q, n)' = NextOf(q, n)
BY DEF scriptVars, Final, LastPage, Needed, Holds, NextOf

\* What is appended joins what was there.
LEMMA AppendElements ==
  ASSUME NEW s \in Seq(Nat), NEW n \in Nat
  PROVE  /\ Append(s, n) \in Seq(Nat)
         /\ {Append(s, n)[i] : i \in DOMAIN Append(s, n)} = {s[i] : i \in DOMAIN s} \cup {n}
<1>1. /\ Append(s, n) \in Seq(Nat) /\ Len(s) \in Nat
      /\ DOMAIN s = 1 .. Len(s) /\ DOMAIN Append(s, n) = 1 .. Len(s) + 1
      /\ \A i \in 1 .. Len(s) : Append(s, n)[i] = s[i]
      /\ Append(s, n)[Len(s) + 1] = n
  OBVIOUS
<1>2. 1 .. Len(s) + 1 = (1 .. Len(s)) \cup {Len(s) + 1}
  BY <1>1
<1> QED
  BY <1>1, <1>2

\* A sequence in order stays so by what comes after all of it.
LEMMA AppendInOrder ==
  ASSUME NEW s \in Seq(Nat), NEW n \in Nat,
         \A i, j \in DOMAIN s : i < j => s[i] < s[j], \A i \in DOMAIN s : s[i] < n
  PROVE  \A i, j \in DOMAIN Append(s, n) : i < j => Append(s, n)[i] < Append(s, n)[j]
<1>1. /\ Len(s) \in Nat /\ DOMAIN s = 1 .. Len(s) /\ DOMAIN Append(s, n) = 1 .. Len(s) + 1
      /\ \A i \in 1 .. Len(s) : Append(s, n)[i] = s[i]
      /\ Append(s, n)[Len(s) + 1] = n
  OBVIOUS
<1>2. SUFFICES ASSUME NEW i \in 1 .. Len(s) + 1, NEW j \in 1 .. Len(s) + 1, i < j
               PROVE  Append(s, n)[i] < Append(s, n)[j]
  BY <1>1
<1>3. i \in 1 .. Len(s)
  BY <1>1, <1>2
<1>4. CASE j = Len(s) + 1
  BY <1>1, <1>3, <1>4
<1>5. CASE j \in 1 .. Len(s)
  BY <1>1, <1>2, <1>3, <1>5
<1> QED
  BY <1>1, <1>4, <1>5

\* A page handed over is held back, handed out, or needed by nobody.
LEMMA HandOverFacts ==
  ASSUME TypeOK, UNCHANGED scriptVars, NEW p \in Query, NEW n \in 1 .. Final(p), HandOver(p, n),
         \A i, j \in DOMAIN seen[p] : i < j => seen[p][i] < seen[p][j],
         \A m \in Seen(p) : m < n
  PROVE  /\ seen' \in [Query -> Seq(Nat)]
         /\ \A i, j \in DOMAIN seen'[p] : i < j => seen'[p][i] < seen'[p][j]
         /\ firstPage' \in [Query -> Nat]
         /\ \A q \in Query : q # p => firstPage'[q] = firstPage[q] /\ seen'[q] = seen[q]
         /\ \/ firstPage'[p] \in {0, n} /\ Seen(p)' = Seen(p)
               /\ (firstPage'[p] = 0 => n \notin Needed(p))
            \/ firstPage'[p] = 0 /\ Seen(p)' = Seen(p) \cup {n}
<1>1. /\ n \in Nat /\ seen[p] \in Seq(Nat) /\ seen \in [Query -> Seq(Nat)]
      /\ firstPage \in [Query -> Nat]
  BY PageFacts DEF TypeOK
<1>2. CASE user[p] = "schema"
  <2>1. seen' = seen /\ Seen(p)' = Seen(p)
    BY <1>2 DEF HandOver, Seen
  <2>2. CASE Holds(p, n) = "blank"
    <3>1. firstPage' = [firstPage EXCEPT ![p] = 0] /\ n \notin Needed(p)
      BY <1>2, <2>2 DEF HandOver, Needed
    <3> QED
      BY <1>1, <2>1, <3>1
  <2>3. CASE Holds(p, n) # "blank"
    <3>1. firstPage' = [firstPage EXCEPT ![p] = n] /\ n # 0
      BY <1>1, <1>2, <2>3 DEF HandOver, AddBack
    <3> QED
      BY <1>1, <2>1, <3>1
  <2> QED
    BY <2>2, <2>3
<1>3. CASE user[p] # "schema"
  <2>1. /\ firstPage' = [firstPage EXCEPT ![p] = 0]
        /\ seen' = [seen EXCEPT ![p] = Append(seen[p], n)]
    BY <1>3 DEF HandOver
  <2>2. seen'[p] = Append(seen[p], n) /\ seen' \in [Query -> Seq(Nat)] /\ firstPage'[p] = 0
        /\ firstPage' \in [Query -> Nat]
        /\ \A q \in Query : q # p => firstPage'[q] = firstPage[q] /\ seen'[q] = seen[q]
    BY <1>1, <2>1, AppendElements
  <2>3. Seen(p)' = Seen(p) \cup {n}
    <3>1. Seen(p)' = {Append(seen[p], n)[i] : i \in DOMAIN Append(seen[p], n)}
      BY <2>2 DEF Seen
    <3> QED
      BY <1>1, <3>1, AppendElements DEF Seen
  <2>4. \A i, j \in DOMAIN seen'[p] : i < j => seen'[p][i] < seen'[p][j]
    BY <1>1, <2>2, AppendInOrder DEF Seen
  <2> QED
    BY <2>2, <2>3, <2>4
<1> QED
  BY <1>2, <1>3

\* Who is handed over a page goes on reading; only it is registered, and only then.
LEMMA HandOverRegisters ==
  ASSUME TypeOK, UNCHANGED scriptVars, NEW p \in Query, NEW n, HandOver(p, n), Polling(p)
  PROVE  /\ user' \in [Query -> {"idle", "starting", "schema", "reading", "ended", "gone"}]
         /\ \A q \in Query : q # p => user'[q] = user[q]
         /\ \/ user'[p] = user[p] /\ hb' = hb /\ registered' = registered
            \/ /\ user'[p] = "reading"
               /\ hb \subseteq hb' /\ hb' \subseteq hb \cup {p}
               /\ registered \subseteq registered' /\ registered' \subseteq registered \cup {p}
               /\ hb' \subseteq registered'
               /\ hasNode[p] => p \in hb'
<1>1. CASE user[p] = "schema"
  BY <1>1 DEF HandOver, TypeOK
<1>2. CASE user[p] # "schema"
  BY <1>2 DEF HandOver, TypeOK
<1> QED
  BY <1>1, <1>2

\* The invariant of a query rests on what belongs to it.
LEMMA Frame ==
  ASSUME NEW q \in Query, QueryOK(q), UNCHANGED scriptVars,
         UNCHANGED <<user[q], firstPage[q], future[q], net[q], nextUri[q], seen[q], result[q]>>,
         UNCHANGED <<q \in failed, q \in registered, q \in hb>>,
         q \in beatGone' => q \in beatGone /\ beat' = beat
  PROVE  QueryOK(q)'
<1> USE PagesKept DEF QueryOK
<1>1. Unread(q)' = Unread(q) /\ Seen(q)' = Seen(q) /\ (Started(q)' <=> Started(q))
  BY DEF Unread, Seen, Started
<1>2. FreshOK(q)' /\ RequestOK(q)'
  BY DEF FreshOK, RequestOK
<1>3. OrderOK(q)'
  BY <1>1 DEF OrderOK
<1>4. DeliveredOK(q)'
  BY <1>1 DEF DeliveredOK
<1>5. ServedOK(q)'
  BY <1>1 DEF ServedOK
<1>6. EntryOK(q)'
  BY DEF EntryOK, scriptVars
<1> QED
  BY <1>2, <1>3, <1>4, <1>5, <1>6

LEMMA InitIInv == Init => IInv
<1> SUFFICES ASSUME Init PROVE IInv
  OBVIOUS
<1>1. TypeOK
  BY DEF Init, TypeOK
<1>2. ASSUME NEW q \in Query PROVE QueryOK(q)
  <2>1. FreshOK(q) /\ RequestOK(q) /\ ServedOK(q) /\ EntryOK(q)
    BY PageFacts, <1>1 DEF Init, FreshOK, RequestOK, ServedOK, EntryOK
  <2>2. OrderOK(q)
    BY PageFacts, <1>1 DEF Init, OrderOK, Unread, Seen
  <2>3. DeliveredOK(q)
    BY DEF Init, DeliveredOK, Started
  <2> QED
    BY <2>1, <2>2, <2>3 DEF QueryOK
<1> QED
  BY <1>1, <1>2 DEF IInv

-----------------------------------------------------------------------------
(* One lemma per action *)

\* The start is sent.
LEMMA StartQueryKeeps ==
  ASSUME IInv, NEW p \in Query, StartQuery(p)
  PROVE  IInv'
<1> TypeOK /\ QueryOK(p)
  BY DEF IInv
<1> USE DEF StartQuery, pagesVars, beatVars
<1>1. TypeOK'
  BY PageFacts, AppendElements DEF TypeOK, scriptVars
<1>2. ASSUME NEW q \in Query, q # p PROVE QueryOK(q)'
  <2>1. UNCHANGED <<user[q], firstPage[q], future[q], net[q], nextUri[q], seen[q], result[q]>>
    BY <1>2 DEF TypeOK
  <2> QED
    BY <1>2, <2>1, Frame DEF IInv
<1>3. QueryOK(p)'
  <2> USE PageFacts, PagesKept DEF QueryOK
  <2>1. FreshOK(p)'
    BY DEF TypeOK, FreshOK, RequestOK
  <2>2. RequestOK(p)'
    BY DEF TypeOK, FreshOK, RequestOK
  <2>3. OrderOK(p)'
    BY DEF TypeOK, FreshOK, RequestOK, OrderOK, Unread, Seen
  <2>4. DeliveredOK(p)'
    BY DEF TypeOK, FreshOK, RequestOK, DeliveredOK, Started, Unread, Seen
  <2>5. ServedOK(p)'
    BY DEF TypeOK, FreshOK, RequestOK, ServedOK, Started
  <2>6. EntryOK(p)'
    BY DEF TypeOK, FreshOK, RequestOK, ServedOK, EntryOK, Started, scriptVars
  <2> QED
    BY <2>1, <2>2, <2>3, <2>4, <2>5, <2>6
<1> QED
  BY <1>1, <1>2, <1>3 DEF IInv

\* The answer to the start is page 1, and held back.
LEMMA ReadStartKeeps ==
  ASSUME IInv, NEW p \in Query, ReadStart(p)
  PROVE  IInv'
<1> TypeOK /\ QueryOK(p)
  BY DEF IInv
<1> USE DEF ReadStart, pagesVars, beatVars
<1>1. TypeOK'
  <2>1. future[p] = 1
    BY DEF TypeOK, QueryOK, FreshOK
  <2>2. NextOf(p, 1) \in Nat
    BY PageFacts
  <2>3. CASE net[p] = "failed"
    BY <2>1, <2>3 DEF TypeOK, scriptVars
  <2>4. CASE net[p] # "failed"
    <3>0. /\ user' = [user EXCEPT ![p] = IF needProgress[p] THEN "schema" ELSE "reading"]
          /\ firstPage' = [firstPage EXCEPT ![p] = 1]
          /\ nextUri' = [nextUri EXCEPT ![p] = NextOf(p, 1)]
      BY <2>4
    <3>1. nextUri' \in [Query -> Nat]
      BY <2>2, <3>0 DEF TypeOK
    <3>2. firstPage' \in [Query -> Nat]
      BY <3>0 DEF TypeOK
    <3>3. user' \in [Query -> {"idle", "starting", "schema", "reading", "ended", "gone"}]
      BY <3>0 DEF TypeOK
    <3> QED
      BY <2>4, <3>1, <3>2, <3>3 DEF TypeOK, scriptVars
  <2> QED
    BY <2>3, <2>4
<1>2. ASSUME NEW q \in Query, q # p PROVE QueryOK(q)'
  <2>1. UNCHANGED <<user[q], firstPage[q], future[q], net[q], nextUri[q], seen[q], result[q]>>
    BY <1>2 DEF TypeOK
  <2> QED
    BY <1>2, <2>1, Frame DEF IInv
<1>3. QueryOK(p)'
  <2> USE PageFacts, PagesKept DEF QueryOK
  <2>1. FreshOK(p)'
    BY DEF TypeOK, FreshOK, RequestOK
  <2>2. RequestOK(p)'
    BY DEF TypeOK, FreshOK, RequestOK
  <2>3. OrderOK(p)'
    <3>1. Seen(p) = {} /\ Seen(p)' = {} /\ seen'[p] = <<>> /\ DOMAIN seen'[p] = {}
      BY DEF TypeOK, FreshOK, Seen
    <3>2. firstPage'[p] \in {0, 1} /\ nextUri'[p] \in {0, NextOf(p, 1)}
      BY DEF TypeOK, FreshOK
    <3>3. Unread(p)' \in Nat \ {0, 1}
      BY <3>2 DEF Unread
    <3> QED
      BY <3>1, <3>2, <3>3 DEF OrderOK
  <2>4. DeliveredOK(p)'
    <3>1. CASE net[p] = "failed"
      BY <3>1 DEF TypeOK, DeliveredOK
    <3>2. CASE net[p] # "failed"
      <4>1. firstPage'[p] = 1 /\ nextUri'[p] = NextOf(p, 1)
        BY <3>2 DEF TypeOK
      <4>2. \A n \in Needed(p) : n < Unread(p)' => n = 1
        BY <4>1 DEF Unread
      <4> QED
        BY <4>1, <4>2 DEF DeliveredOK
    <3> QED
      BY <3>1, <3>2
  <2>5. ServedOK(p)'
    BY DEF TypeOK, FreshOK, RequestOK, ServedOK, Started
  <2>6. EntryOK(p)'
    BY DEF TypeOK, FreshOK, RequestOK, ServedOK, EntryOK, Started, scriptVars
  <2> QED
    BY <2>1, <2>2, <2>3, <2>4, <2>5, <2>6
<1> QED
  BY <1>1, <1>2, <1>3 DEF IInv

\* The page held back is put back or handed out; it is the first unread page's forerunner.
LEMMA TakeFirstPageKeeps ==
  ASSUME IInv, NEW p \in Query, TakeFirstPage(p)
  PROVE  IInv'
<1> TypeOK /\ QueryOK(p)
  BY DEF IInv
<1> USE DEF TakeFirstPage, Polling, beatVars
<1>1. UNCHANGED scriptVars /\ firstPage[p] \in 1 .. Final(p)
  BY PageFacts DEF QueryOK, RequestOK
<1>2. /\ seen' \in [Query -> Seq(Nat)]
      /\ \A i, j \in DOMAIN seen'[p] : i < j => seen'[p][i] < seen'[p][j]
      /\ firstPage' \in [Query -> Nat]
      /\ \A q \in Query : q # p => firstPage'[q] = firstPage[q] /\ seen'[q] = seen[q]
      /\ \/ firstPage'[p] \in {0, firstPage[p]} /\ Seen(p)' = Seen(p)
            /\ (firstPage'[p] = 0 => firstPage[p] \notin Needed(p))
         \/ firstPage'[p] = 0 /\ Seen(p)' = Seen(p) \cup {firstPage[p]}
  BY <1>1, HandOverFacts DEF QueryOK, OrderOK
<1>3. /\ user' \in [Query -> {"idle", "starting", "schema", "reading", "ended", "gone"}]
      /\ \A q \in Query : q # p => user'[q] = user[q]
      /\ \/ user'[p] = user[p] /\ hb' = hb /\ registered' = registered
         \/ /\ user'[p] = "reading"
            /\ hb \subseteq hb' /\ hb' \subseteq hb \cup {p}
            /\ registered \subseteq registered' /\ registered' \subseteq registered \cup {p}
            /\ hb' \subseteq registered'
            /\ hasNode[p] => p \in hb'
  BY <1>1, HandOverRegisters
<1>4. TypeOK'
  BY <1>1, <1>2, <1>3, PageFacts DEF TypeOK, scriptVars
<1>5. ASSUME NEW q \in Query, q # p PROVE QueryOK(q)'
  <2>1. UNCHANGED <<user[q], firstPage[q], future[q], net[q], nextUri[q], seen[q], result[q]>>
    BY <1>2, <1>3, <1>5 DEF TypeOK
  <2> QED
    BY <1>1, <1>3, <1>5, <2>1, Frame DEF IInv
<1>6. QueryOK(p)'
  <2> USE <1>1, <1>2, <1>3, PageFacts, PagesKept DEF QueryOK
  <2>1. FreshOK(p)'
    BY DEF TypeOK, FreshOK, RequestOK
  <2>2. RequestOK(p)'
    BY DEF TypeOK, FreshOK, RequestOK
  <2>3. OrderOK(p)'
    BY DEF TypeOK, RequestOK, OrderOK, Unread
  <2>4. DeliveredOK(p)'
    BY DEF TypeOK, RequestOK, DeliveredOK, Started, Unread
  <2>5. ServedOK(p)'
    BY DEF TypeOK, RequestOK, ServedOK, Started
  <2>6. EntryOK(p)'
    BY DEF TypeOK, EntryOK, scriptVars
  <2> QED
    BY <2>1, <2>2, <2>3, <2>4, <2>5, <2>6
<1> QED
  BY <1>4, <1>5, <1>6 DEF IInv

\* The request asks for the first unread page.
LEMMA RequestPageKeeps ==
  ASSUME IInv, NEW p \in Query, RequestPage(p)
  PROVE  IInv'
<1> TypeOK /\ QueryOK(p)
  BY DEF IInv
<1> USE DEF RequestPage, Polling, pagesVars, beatVars
<1>1. TypeOK'
  BY PageFacts, AppendElements DEF TypeOK, scriptVars
<1>2. ASSUME NEW q \in Query, q # p PROVE QueryOK(q)'
  <2>1. UNCHANGED <<user[q], firstPage[q], future[q], net[q], nextUri[q], seen[q], result[q]>>
    BY <1>2 DEF TypeOK
  <2> QED
    BY <1>2, <2>1, Frame DEF IInv
<1>3. QueryOK(p)'
  <2> USE PageFacts, PagesKept DEF QueryOK
  <2>1. FreshOK(p)'
    BY DEF TypeOK, FreshOK, RequestOK
  <2>2. RequestOK(p)'
    BY DEF TypeOK, FreshOK, RequestOK
  <2>3. OrderOK(p)'
    BY DEF TypeOK, FreshOK, RequestOK, OrderOK, Unread, Seen
  <2>4. DeliveredOK(p)'
    BY DEF TypeOK, FreshOK, RequestOK, DeliveredOK, Started, Unread, Seen
  <2>5. ServedOK(p)'
    BY DEF TypeOK, FreshOK, RequestOK, ServedOK, Started
  <2>6. EntryOK(p)'
    BY DEF TypeOK, FreshOK, RequestOK, ServedOK, EntryOK, Started, scriptVars
  <2> QED
    BY <2>1, <2>2, <2>3, <2>4, <2>5, <2>6
<1> QED
  BY <1>1, <1>2, <1>3 DEF IInv

\* The first unread page is read.
LEMMA ReadPageKeeps ==
  ASSUME IInv, NEW p \in Query, ReadPage(p)
  PROVE  IInv'
<1> TypeOK /\ QueryOK(p)
  BY DEF IInv
<1> USE DEF ReadPage, Advance, Polling, beatVars
<1>1. UNCHANGED scriptVars /\ future[p] \in 1 .. Final(p) /\ future[p] = nextUri[p]
  BY PageFacts DEF TypeOK, QueryOK, RequestOK
<1>2. /\ seen' \in [Query -> Seq(Nat)]
      /\ \A i, j \in DOMAIN seen'[p] : i < j => seen'[p][i] < seen'[p][j]
      /\ firstPage' \in [Query -> Nat]
      /\ \A q \in Query : q # p => firstPage'[q] = firstPage[q] /\ seen'[q] = seen[q]
      /\ \/ firstPage'[p] \in {0, future[p]} /\ Seen(p)' = Seen(p)
            /\ (firstPage'[p] = 0 => future[p] \notin Needed(p))
         \/ firstPage'[p] = 0 /\ Seen(p)' = Seen(p) \cup {future[p]}
  <2>1. CASE PassesOver(p, future[p])
    <3>1. future[p] \notin Needed(p)
      BY <1>1, <2>1 DEF PassesOver, Needed, QueryOK, RequestOK
    <3> QED
      BY <2>1, <3>1 DEF TypeOK, QueryOK, OrderOK, Seen
  <2>2. CASE ~PassesOver(p, future[p])
    <3>1. \A m \in Seen(p) : m < future[p]
      BY <1>1 DEF QueryOK, OrderOK, Unread
    <3> QED
      BY <1>1, <2>2, <3>1, HandOverFacts DEF QueryOK, OrderOK
  <2> QED
    BY <2>1, <2>2
<1>3. /\ user' \in [Query -> {"idle", "starting", "schema", "reading", "ended", "gone"}]
      /\ \A q \in Query : q # p => user'[q] = user[q]
      /\ \/ user'[p] = user[p] /\ hb' = hb /\ registered' = registered
         \/ /\ user'[p] = "reading"
            /\ hb \subseteq hb' /\ hb' \subseteq hb \cup {p}
            /\ registered \subseteq registered' /\ registered' \subseteq registered \cup {p}
            /\ hb' \subseteq registered'
            /\ hasNode[p] => p \in hb'
  <2>1. CASE PassesOver(p, future[p])
    BY <2>1 DEF TypeOK
  <2>2. CASE ~PassesOver(p, future[p])
    BY <1>1, <2>2, HandOverRegisters
  <2> QED
    BY <2>1, <2>2
<1>4. TypeOK'
  BY <1>1, <1>2, <1>3, PageFacts DEF TypeOK, scriptVars
<1>5. ASSUME NEW q \in Query, q # p PROVE QueryOK(q)'
  <2>1. UNCHANGED <<user[q], firstPage[q], future[q], net[q], nextUri[q], seen[q], result[q]>>
    BY <1>2, <1>3, <1>5 DEF TypeOK
  <2> QED
    BY <1>1, <1>3, <1>5, <2>1, Frame DEF IInv
<1>6. QueryOK(p)'
  <2> USE <1>1, <1>2, <1>3, PageFacts, PagesKept DEF QueryOK
  <2>1. FreshOK(p)'
    BY DEF TypeOK, FreshOK, RequestOK
  <2>2. RequestOK(p)'
    BY DEF TypeOK, FreshOK, RequestOK
  <2>3. OrderOK(p)'
    <3>1. future[p] < Unread(p)' /\ Unread(p)' \in Nat /\ Unread(p) = future[p]
      BY DEF TypeOK, RequestOK, Unread
    <3>2. \A m \in Seen(p) : m \in Nat /\ m < future[p]
      BY <3>1 DEF TypeOK, OrderOK, Seen
    <3> QED
      BY <3>1, <3>2 DEF OrderOK
  <2>4. DeliveredOK(p)'
    <3>1. \A m \in Needed(p) : m < Unread(p)' => m < Unread(p) \/ m = future[p]
      BY DEF TypeOK, RequestOK, Unread
    <3>2. firstPage[p] = 0 /\ Started(p) /\ failed' = failed
      BY DEF Started
    <3>3. p \notin failed => \A m \in Needed(p) : m < Unread(p) => m \in Seen(p)
      <4>1. \A m \in Needed(p) : m # 0
        OBVIOUS
      <4> QED
        BY <3>2, <4>1 DEF DeliveredOK
    <3> QED
      BY <3>1, <3>2, <3>3 DEF DeliveredOK
  <2>5. ServedOK(p)'
    BY DEF TypeOK, RequestOK, ServedOK, Started
  <2>6. EntryOK(p)'
    BY DEF TypeOK, EntryOK, scriptVars
  <2> QED
    BY <2>1, <2>2, <2>3, <2>4, <2>5, <2>6
<1> QED
  BY <1>4, <1>5, <1>6 DEF IInv

\* An error ends the stream.
LEMMA ReadErrorKeeps ==
  ASSUME IInv, NEW p \in Query, ReadError(p)
  PROVE  IInv'
<1> TypeOK /\ QueryOK(p)
  BY DEF IInv
<1> USE DEF ReadError, Polling, pagesVars, beatVars
<1>1. TypeOK'
  BY PageFacts, AppendElements DEF TypeOK, scriptVars
<1>2. ASSUME NEW q \in Query, q # p PROVE QueryOK(q)'
  <2>1. UNCHANGED <<user[q], firstPage[q], future[q], net[q], nextUri[q], seen[q], result[q]>>
    BY <1>2 DEF TypeOK
  <2> QED
    BY <1>2, <2>1, Frame DEF IInv
<1>3. QueryOK(p)'
  <2> USE PageFacts, PagesKept DEF QueryOK
  <2>1. FreshOK(p)'
    BY DEF TypeOK, FreshOK, RequestOK
  <2>2. RequestOK(p)'
    BY DEF TypeOK, FreshOK, RequestOK
  <2>3. OrderOK(p)'
    <3>1. Seen(p)' = Seen(p) /\ Unread(p)' = Final(p) + 1 /\ Unread(p) <= Final(p) + 1
      BY DEF TypeOK, RequestOK, Unread, Seen
    <3>2. \A n \in Seen(p) : n \in Nat
      BY DEF TypeOK, Seen
    <3>3. seen'[p] = seen[p] /\ firstPage'[p] = 0
      BY DEF TypeOK
    <3>4. Unread(p) \in Nat /\ Final(p) \in Nat
      BY DEF TypeOK, Unread
    <3> QED
      BY <3>1, <3>2, <3>3, <3>4 DEF OrderOK
  <2>4. DeliveredOK(p)'
    BY DEF TypeOK, FreshOK, RequestOK, DeliveredOK, Started, Unread, Seen
  <2>5. ServedOK(p)'
    BY DEF TypeOK, FreshOK, RequestOK, ServedOK, Started
  <2>6. EntryOK(p)'
    BY DEF TypeOK, FreshOK, RequestOK, ServedOK, EntryOK, Started, scriptVars
  <2> QED
    BY <2>1, <2>2, <2>3, <2>4, <2>5, <2>6
<1> QED
  BY <1>1, <1>2, <1>3 DEF IInv

\* Nothing is left to read.
LEMMA EndStreamKeeps ==
  ASSUME IInv, NEW p \in Query, EndStream(p)
  PROVE  IInv'
<1> TypeOK /\ QueryOK(p)
  BY DEF IInv
<1> USE DEF EndStream, Polling, pagesVars, beatVars
<1>1. TypeOK'
  BY PageFacts, AppendElements DEF TypeOK, scriptVars
<1>2. ASSUME NEW q \in Query, q # p PROVE QueryOK(q)'
  <2>1. UNCHANGED <<user[q], firstPage[q], future[q], net[q], nextUri[q], seen[q], result[q]>>
    BY <1>2 DEF TypeOK
  <2> QED
    BY <1>2, <2>1, Frame DEF IInv
<1>3. QueryOK(p)'
  <2> USE PageFacts, PagesKept DEF QueryOK
  <2>1. FreshOK(p)'
    BY DEF TypeOK, FreshOK, RequestOK
  <2>2. RequestOK(p)'
    BY DEF TypeOK, FreshOK, RequestOK
  <2>3. OrderOK(p)'
    BY DEF TypeOK, FreshOK, RequestOK, OrderOK, Unread, Seen
  <2>4. DeliveredOK(p)'
    BY DEF TypeOK, FreshOK, RequestOK, DeliveredOK, Started, Unread, Seen
  <2>5. ServedOK(p)'
    BY DEF TypeOK, FreshOK, RequestOK, ServedOK, Started
  <2>6. EntryOK(p)'
    BY DEF TypeOK, FreshOK, RequestOK, ServedOK, EntryOK, Started, scriptVars
  <2> QED
    BY <2>1, <2>2, <2>3, <2>4, <2>5, <2>6
<1> QED
  BY <1>1, <1>2, <1>3 DEF IInv

\* The query leaves the map, unless its result set is over.
LEMMA DropPagesKeeps ==
  ASSUME IInv, NEW p \in Query, DropPages(p)
  PROVE  IInv'
<1> TypeOK /\ QueryOK(p)
  BY DEF IInv
<1> USE DEF DropPages, FinalizeQuery, EndsOnDrop, pagesVars, beatVars
<1>1. TypeOK'
  BY PageFacts, AppendElements DEF TypeOK, scriptVars
<1>2. ASSUME NEW q \in Query, q # p PROVE QueryOK(q)'
  <2>1. UNCHANGED <<user[q], firstPage[q], future[q], net[q], nextUri[q], seen[q], result[q]>>
    BY <1>2 DEF TypeOK
  <2> QED
    BY <1>2, <2>1, Frame DEF IInv
<1>3. QueryOK(p)'
  <2> USE PageFacts, PagesKept DEF QueryOK
  <2>1. FreshOK(p)'
    BY DEF TypeOK, FreshOK, RequestOK
  <2>2. RequestOK(p)'
    BY DEF TypeOK, FreshOK, RequestOK
  <2>3. OrderOK(p)'
    BY DEF TypeOK, FreshOK, RequestOK, OrderOK, Unread, Seen
  <2>4. DeliveredOK(p)'
    BY DEF TypeOK, FreshOK, RequestOK, DeliveredOK, Started, Unread, Seen
  <2>5. ServedOK(p)'
    BY DEF TypeOK, FreshOK, RequestOK, ServedOK, Started
  <2>6. EntryOK(p)'
    BY DEF TypeOK, FreshOK, RequestOK, ServedOK, EntryOK, Started, scriptVars
  <2> QED
    BY <2>1, <2>2, <2>3, <2>4, <2>5, <2>6
<1> QED
  BY <1>1, <1>2, <1>3 DEF IInv

\* The server ends the result set with the last page.
LEMMA ServePageKeeps ==
  ASSUME IInv, NEW p \in Query, ServePage(p)
  PROVE  IInv'
<1> TypeOK /\ QueryOK(p)
  BY DEF IInv
<1> USE DEF ServePage, pagesVars, beatVars
<1>1. TypeOK'
  BY PageFacts, AppendElements DEF TypeOK, scriptVars
<1>2. ASSUME NEW q \in Query, q # p PROVE QueryOK(q)'
  <2>1. UNCHANGED <<user[q], firstPage[q], future[q], net[q], nextUri[q], seen[q], result[q]>>
    BY <1>2 DEF TypeOK
  <2> QED
    BY <1>2, <2>1, Frame DEF IInv
<1>3. QueryOK(p)'
  <2> USE PageFacts, PagesKept DEF QueryOK
  <2>1. FreshOK(p)'
    BY DEF TypeOK, FreshOK, RequestOK
  <2>2. RequestOK(p)'
    BY DEF TypeOK, FreshOK, RequestOK
  <2>3. OrderOK(p)'
    BY DEF TypeOK, FreshOK, RequestOK, OrderOK, Unread, Seen
  <2>4. DeliveredOK(p)'
    BY DEF TypeOK, FreshOK, RequestOK, DeliveredOK, Started, Unread, Seen
  <2>5. ServedOK(p)'
    BY DEF TypeOK, FreshOK, RequestOK, ServedOK, Started
  <2>6. EntryOK(p)'
    BY DEF TypeOK, FreshOK, RequestOK, ServedOK, EntryOK, Started, scriptVars
  <2> QED
    BY <2>1, <2>2, <2>3, <2>4, <2>5, <2>6
<1> QED
  BY <1>1, <1>2, <1>3 DEF IInv

\* Only the request is lost.
LEMMA LosePageKeeps ==
  ASSUME IInv, NEW p \in Query, LosePage(p)
  PROVE  IInv'
<1> TypeOK /\ QueryOK(p)
  BY DEF IInv
<1> USE DEF LosePage, pagesVars, beatVars
<1>1. TypeOK'
  BY PageFacts, AppendElements DEF TypeOK, scriptVars
<1>2. ASSUME NEW q \in Query, q # p PROVE QueryOK(q)'
  <2>1. UNCHANGED <<user[q], firstPage[q], future[q], net[q], nextUri[q], seen[q], result[q]>>
    BY <1>2 DEF TypeOK
  <2> QED
    BY <1>2, <2>1, Frame DEF IInv
<1>3. QueryOK(p)'
  <2> USE PageFacts, PagesKept DEF QueryOK
  <2>1. FreshOK(p)'
    BY DEF TypeOK, FreshOK, RequestOK
  <2>2. RequestOK(p)'
    BY DEF TypeOK, FreshOK, RequestOK
  <2>3. OrderOK(p)'
    BY DEF TypeOK, FreshOK, RequestOK, OrderOK, Unread, Seen
  <2>4. DeliveredOK(p)'
    BY DEF TypeOK, FreshOK, RequestOK, DeliveredOK, Started, Unread, Seen
  <2>5. ServedOK(p)'
    BY DEF TypeOK, FreshOK, RequestOK, ServedOK, Started
  <2>6. EntryOK(p)'
    BY DEF TypeOK, FreshOK, RequestOK, ServedOK, EntryOK, Started, scriptVars
  <2> QED
    BY <2>1, <2>2, <2>3, <2>4, <2>5, <2>6
<1> QED
  BY <1>1, <1>2, <1>3 DEF IInv

\* The result set is over.
LEMMA ServeFinalKeeps ==
  ASSUME IInv, NEW p \in Query, ServeFinal(p)
  PROVE  IInv'
<1> TypeOK /\ QueryOK(p)
  BY DEF IInv
<1> USE DEF ServeFinal, pagesVars, beatVars
<1>1. TypeOK'
  BY PageFacts, AppendElements DEF TypeOK, scriptVars
<1>2. ASSUME NEW q \in Query, q # p PROVE QueryOK(q)'
  <2>1. UNCHANGED <<user[q], firstPage[q], future[q], net[q], nextUri[q], seen[q], result[q]>>
    BY <1>2 DEF TypeOK
  <2> QED
    BY <1>2, <2>1, Frame DEF IInv
<1>3. QueryOK(p)'
  <2> USE PageFacts, PagesKept DEF QueryOK
  <2>1. FreshOK(p)'
    BY DEF TypeOK, FreshOK, RequestOK
  <2>2. RequestOK(p)'
    BY DEF TypeOK, FreshOK, RequestOK
  <2>3. OrderOK(p)'
    BY DEF TypeOK, FreshOK, RequestOK, OrderOK, Unread, Seen
  <2>4. DeliveredOK(p)'
    BY DEF TypeOK, FreshOK, RequestOK, DeliveredOK, Started, Unread, Seen
  <2>5. ServedOK(p)'
    BY DEF TypeOK, FreshOK, RequestOK, ServedOK, Started
  <2>6. EntryOK(p)'
    BY DEF TypeOK, FreshOK, RequestOK, ServedOK, EntryOK, Started, scriptVars
  <2> QED
    BY <2>1, <2>2, <2>3, <2>4, <2>5, <2>6
<1> QED
  BY <1>1, <1>2, <1>3 DEF IInv

\* Nothing but the request is lost.
LEMMA LoseFinalKeeps ==
  ASSUME IInv, NEW p \in Query, LoseFinal(p)
  PROVE  IInv'
<1> TypeOK /\ QueryOK(p)
  BY DEF IInv
<1> USE DEF LoseFinal, pagesVars, beatVars
<1>1. TypeOK'
  BY PageFacts, AppendElements DEF TypeOK, scriptVars
<1>2. ASSUME NEW q \in Query, q # p PROVE QueryOK(q)'
  <2>1. UNCHANGED <<user[q], firstPage[q], future[q], net[q], nextUri[q], seen[q], result[q]>>
    BY <1>2 DEF TypeOK
  <2> QED
    BY <1>2, <2>1, Frame DEF IInv
<1>3. QueryOK(p)'
  <2> USE PageFacts, PagesKept DEF QueryOK
  <2>1. FreshOK(p)'
    BY DEF TypeOK, FreshOK, RequestOK
  <2>2. RequestOK(p)'
    BY DEF TypeOK, FreshOK, RequestOK
  <2>3. OrderOK(p)'
    BY DEF TypeOK, FreshOK, RequestOK, OrderOK, Unread, Seen
  <2>4. DeliveredOK(p)'
    BY DEF TypeOK, FreshOK, RequestOK, DeliveredOK, Started, Unread, Seen
  <2>5. ServedOK(p)'
    BY DEF TypeOK, FreshOK, RequestOK, ServedOK, Started
  <2>6. EntryOK(p)'
    BY DEF TypeOK, FreshOK, RequestOK, ServedOK, EntryOK, Started, scriptVars
  <2> QED
    BY <2>1, <2>2, <2>3, <2>4, <2>5, <2>6
<1> QED
  BY <1>1, <1>2, <1>3 DEF IInv

\* The result set is over.
LEMMA KillQueryKeeps ==
  ASSUME IInv, NEW p \in Query, KillQuery(p)
  PROVE  IInv'
<1> TypeOK /\ QueryOK(p)
  BY DEF IInv
<1> USE DEF KillQuery, pagesVars, beatVars
<1>1. TypeOK'
  BY PageFacts, AppendElements DEF TypeOK, scriptVars
<1>2. ASSUME NEW q \in Query, q # p PROVE QueryOK(q)'
  <2>1. UNCHANGED <<user[q], firstPage[q], future[q], net[q], nextUri[q], seen[q], result[q]>>
    BY <1>2 DEF TypeOK
  <2> QED
    BY <1>2, <2>1, Frame DEF IInv
<1>3. QueryOK(p)'
  <2> USE PageFacts, PagesKept DEF QueryOK
  <2>1. FreshOK(p)'
    BY DEF TypeOK, FreshOK, RequestOK
  <2>2. RequestOK(p)'
    BY DEF TypeOK, FreshOK, RequestOK
  <2>3. OrderOK(p)'
    BY DEF TypeOK, FreshOK, RequestOK, OrderOK, Unread, Seen
  <2>4. DeliveredOK(p)'
    BY DEF TypeOK, FreshOK, RequestOK, DeliveredOK, Started, Unread, Seen
  <2>5. ServedOK(p)'
    BY DEF TypeOK, FreshOK, RequestOK, ServedOK, Started
  <2>6. EntryOK(p)'
    BY DEF TypeOK, FreshOK, RequestOK, ServedOK, EntryOK, Started, scriptVars
  <2> QED
    BY <2>1, <2>2, <2>3, <2>4, <2>5, <2>6
<1> QED
  BY <1>1, <1>2, <1>3 DEF IInv

\* The result set is over.
LEMMA ExpireKeeps ==
  ASSUME IInv, NEW p \in Query, Expire(p)
  PROVE  IInv'
<1> TypeOK /\ QueryOK(p)
  BY DEF IInv
<1> USE DEF Expire, pagesVars, beatVars
<1>1. TypeOK'
  BY PageFacts, AppendElements DEF TypeOK, scriptVars
<1>2. ASSUME NEW q \in Query, q # p PROVE QueryOK(q)'
  <2>1. UNCHANGED <<user[q], firstPage[q], future[q], net[q], nextUri[q], seen[q], result[q]>>
    BY <1>2 DEF TypeOK
  <2> QED
    BY <1>2, <2>1, Frame DEF IInv
<1>3. QueryOK(p)'
  <2> USE PageFacts, PagesKept DEF QueryOK
  <2>1. FreshOK(p)'
    BY DEF TypeOK, FreshOK, RequestOK
  <2>2. RequestOK(p)'
    BY DEF TypeOK, FreshOK, RequestOK
  <2>3. OrderOK(p)'
    BY DEF TypeOK, FreshOK, RequestOK, OrderOK, Unread, Seen
  <2>4. DeliveredOK(p)'
    BY DEF TypeOK, FreshOK, RequestOK, DeliveredOK, Started, Unread, Seen
  <2>5. ServedOK(p)'
    BY DEF TypeOK, FreshOK, RequestOK, ServedOK, Started
  <2>6. EntryOK(p)'
    BY DEF TypeOK, FreshOK, RequestOK, ServedOK, EntryOK, Started, scriptVars
  <2> QED
    BY <2>1, <2>2, <2>3, <2>4, <2>5, <2>6
<1> QED
  BY <1>1, <1>2, <1>3 DEF IInv

\* An action that belongs to no query: the map and the heartbeat change at most.
LEMMA FrameAll ==
  ASSUME IInv, TypeOK', UNCHANGED <<scriptVars, user, pagesVars, seen, failed, registered, result>>,
         \A q \in Query : (q \in hb' <=> q \in hb) /\ (q \in beatGone' => q \in beatGone /\ beat' = beat)
  PROVE  IInv'
<1> USE DEF pagesVars
<1>1. ASSUME NEW q \in Query PROVE QueryOK(q)'
  BY <1>1, Frame DEF IInv
<1> QED
  BY <1>1 DEF IInv

\* Whether the session is heartbeaten matters to what the server may do only.
LEMMA CloseSessionKeeps == ASSUME IInv, CloseSession PROVE IInv'
<1>1. TypeOK'
  BY DEF IInv, CloseSession, TypeOK, scriptVars, pagesVars, beatVars
<1> QED
  BY <1>1, FrameAll DEF CloseSession, beatVars

\* A heartbeat names queries of the map.
LEMMA BeginBeatKeeps == ASSUME IInv, BeginBeat PROVE IInv'
<1>1. beatGone = {}
  BY DEF IInv, BeginBeat, TypeOK, QueryOK, EntryOK
<1>2. TypeOK'
  BY <1>1 DEF IInv, BeginBeat, TypeOK, scriptVars, pagesVars
<1> QED
  BY <1>1, <1>2, FrameAll DEF BeginBeat

\* Its answer names those whose result set is over.
LEMMA AnswerBeatKeeps == ASSUME IInv, AnswerBeat PROVE IInv'
<1>1. TypeOK'
  BY DEF IInv, AnswerBeat, TypeOK, scriptVars, pagesVars
<1>2. ASSUME NEW q \in Query PROVE QueryOK(q)'
  <2> USE DEF AnswerBeat, pagesVars
  <2>1. QueryOK(q)
    BY DEF IInv
  <2>2. FreshOK(q)' /\ RequestOK(q)' /\ OrderOK(q)'
    BY <2>1, PagesKept DEF QueryOK, FreshOK, RequestOK, OrderOK, Seen, Unread
  <2>3. DeliveredOK(q)' /\ ServedOK(q)'
    BY <2>1, PagesKept DEF QueryOK, DeliveredOK, ServedOK, Started, Seen, Unread
  <2>4. EntryOK(q)'
    BY <2>1, PagesKept DEF QueryOK, EntryOK, scriptVars
  <2> QED
    BY <2>2, <2>3, <2>4 DEF QueryOK
<1> QED
  BY <1>1, <1>2 DEF IInv

\* They leave the map: nobody can read them any more.
LEMMA EndBeatKeeps == ASSUME IInv, EndBeat PROVE IInv'
<1>1. TypeOK'
  BY DEF IInv, EndBeat, RemoveGone, TypeOK, scriptVars, pagesVars
<1>2. ASSUME NEW q \in Query PROVE QueryOK(q)'
  <2> USE DEF EndBeat, pagesVars
  <2>1. QueryOK(q)
    BY DEF IInv
  <2>2. FreshOK(q)' /\ RequestOK(q)' /\ OrderOK(q)'
    BY <2>1, PagesKept DEF QueryOK, FreshOK, RequestOK, OrderOK, Seen, Unread
  <2>3. DeliveredOK(q)' /\ ServedOK(q)'
    BY <2>1, PagesKept DEF QueryOK, DeliveredOK, ServedOK, Started, Seen, Unread
  <2>4. EntryOK(q)'
    BY <2>1, PagesKept DEF QueryOK, EntryOK, RemoveGone, scriptVars
  <2> QED
    BY <2>2, <2>3, <2>4 DEF QueryOK
<1> QED
  BY <1>1, <1>2 DEF IInv

\* Nothing is told.
LEMMA BeatFailsKeeps == ASSUME IInv, BeatFails PROVE IInv'
<1>1. TypeOK'
  BY DEF IInv, BeatFails, TypeOK, scriptVars, pagesVars
<1> QED
  BY <1>1, FrameAll DEF BeatFails

-----------------------------------------------------------------------------
(* Theorems *)

LEMMA NextKeeps == IInv /\ [Next]_vars => IInv'
<1> SUFFICES ASSUME IInv, [Next]_vars PROVE IInv'
  OBVIOUS
<1>1. CASE CloseSession
  BY <1>1, CloseSessionKeeps
<1>2. CASE Heartbeat
  BY <1>2, BeginBeatKeeps, AnswerBeatKeeps, EndBeatKeeps, BeatFailsKeeps DEF Heartbeat
<1>3. ASSUME NEW p \in Query, Program(p) PROVE IInv'
  BY <1>3, StartQueryKeeps, ReadStartKeeps, TakeFirstPageKeeps, RequestPageKeeps, ReadPageKeeps,
     ReadErrorKeeps, EndStreamKeeps, DropPagesKeeps DEF Program, Poll
<1>4. ASSUME NEW p \in Query, Server(p) PROVE IInv'
  BY <1>4, ServePageKeeps, LosePageKeeps, ServeFinalKeeps, LoseFinalKeeps, KillQueryKeeps,
     ExpireKeeps DEF Server
<1>5. CASE UNCHANGED vars
  <2>1. TypeOK'
    BY <1>5 DEF IInv, TypeOK, vars, scriptVars, pagesVars, beatVars
  <2> QED
    BY <1>5, <2>1, FrameAll DEF vars, beatVars
<1> QED
  BY <1>1, <1>2, <1>3, <1>4, <1>5 DEF Next

LEMMA InvariantHolds == Spec => []IInv
BY InitIInv, NextKeeps, PTL DEF Spec

\* The state of every query keeps its types; an entry of the map was registered.
THEOREM TypeCorrect == Spec => []TypeOK
<1>1. IInv => TypeOK
  BY DEF IInv
<1> QED
  BY <1>1, InvariantHolds, PTL

\* Pages come in order, none twice, and a stream that ends without an error has handed
\* over every page with rows.
THEOREM StreamsAreComplete == Spec => []CompleteResult
<1>1. IInv => CompleteResult
  <2> SUFFICES ASSUME IInv, NEW q \in Query, user[q] = "ended", q \notin failed
               PROVE  Needed(q) \subseteq Seen(q)
    BY DEF IInv, QueryOK, OrderOK, CompleteResult
  <2>1. firstPage[q] = 0 /\ Unread(q) = Final(q) + 1
    BY DEF IInv, QueryOK, RequestOK, Unread
  <2>2. \A n \in Needed(q) : n # 0 /\ n < Unread(q)
    BY <2>1, PageFacts DEF IInv
  <2> QED
    BY <2>1, <2>2 DEF IInv, QueryOK, DeliveredOK, Started
<1> QED
  BY <1>1, InvariantHolds, PTL

\* Who drops a query takes it from the map, or its result set is over; the exceptions are
\* those DroppedIsFinalized names.
THEOREM DropsFinalize == Spec => []DroppedIsFinalized
<1>1. IInv => DroppedIsFinalized
  BY DEF IInv, QueryOK, EntryOK, DroppedIsFinalized
<1> QED
  BY <1>1, InvariantHolds, PTL

\* Nothing takes the entry of a query that is read and live from the map.
THEOREM ReadersAreKeptAlive == Spec => []ReaderKeptAlive
<1>1. IInv => ReaderKeptAlive
  BY DEF IInv, QueryOK, EntryOK, ReaderKeptAlive
<1> QED
  BY <1>1, InvariantHolds, PTL

\* Only wait_for_schema registers a query, and it comes to that once.
THEOREM EntriesNeverComeBack == Spec => NeverBack
<1>1. ASSUME IInv, Next, NEW q \in registered, q \notin hb PROVE q \notin hb'
  <2>1. QueryOK(q)
    BY <1>1 DEF IInv, TypeOK
  <2>2. user[q] # "schema"
    BY <2>1 DEF QueryOK, FreshOK
  <2>3. CASE CloseSession \/ Heartbeat
    BY <1>1, <2>3 DEF CloseSession, Heartbeat, BeginBeat, AnswerBeat, EndBeat, RemoveGone, BeatFails
  <2>4. ASSUME NEW p \in Query, Server(p) PROVE q \notin hb'
    BY <1>1, <2>4 DEF Server, ServePage, LosePage, ServeFinal, LoseFinal, KillQuery, Expire
  <2>5. ASSUME NEW p \in Query, NEW n, HandOver(p, n) PROVE q \notin hb'
    BY <1>1, <2>2, <2>5 DEF HandOver
  <2>6. ASSUME NEW p \in Query, Program(p) PROVE q \notin hb'
    BY <1>1, <2>5, <2>6 DEF Program, Poll, StartQuery, ReadStart, TakeFirstPage, RequestPage,
       ReadPage, ReadError, EndStream, DropPages, FinalizeQuery
  <2> QED
    BY <1>1, <2>3, <2>4, <2>6 DEF Next
<1>2. ASSUME IInv, [Next]_vars PROVE [\A q \in registered : q \notin hb => q \notin hb']_vars
  BY <1>1, <1>2
<1> QED
  BY <1>2, InvariantHolds, PTL DEF Spec, NeverBack

-----------------------------------------------------------------------------
(* The pages that are handed out are a ResultStream *)

LEMMA StreamInit == Init => Stream!Init
<1> SUFFICES ASSUME Init PROVE Stream!Init
  OBVIOUS
<1>1. TypeOK
  BY InitIInv DEF IInv
<1>2. [q \in Query |-> Final(q)] \in [Query -> Nat]
  BY <1>1, PageFacts
<1>3. [q \in Query |-> Needed(q)] \in [Query -> SUBSET Nat]
  BY <1>1, PageFacts
<1>4. [q \in Query |-> StreamState(q)] = [q \in Query |-> "running"]
  BY DEF Init, StreamState
<1> QED
  BY <1>2, <1>3, <1>4 DEF Init, Stream!Init

\* A page is delivered.
LEMMA DeliverStep ==
  ASSUME IInv, NEW p \in Query, NEW n \in 1 .. Final(p), UNCHANGED <<scriptVars, user, failed>>,
         seen' = [seen EXCEPT ![p] = Append(@, n)], StreamState(p) = "running",
         \A m \in Seen(p) : m < n, \A m \in Needed(p) : m < n => m \in Seen(p)
  PROVE  Stream!Next
<1>1. /\ [q \in Query |-> Final(q)]' = [q \in Query |-> Final(q)]
      /\ [q \in Query |-> Needed(q)]' = [q \in Query |-> Needed(q)]
  BY PagesKept
<1>2. [q \in Query |-> StreamState(q)]' = [q \in Query |-> StreamState(q)]
  BY DEF StreamState
<1>3. Stream!Received(p) = Seen(p)
  BY DEF Stream!Received, Seen
<1>4. Stream!Deliver(p)
  BY <1>1, <1>2, <1>3 DEF Stream!Deliver
<1> QED
  BY <1>4 DEF Stream!Next

\* Nothing is delivered, and the state of at most one stream changes.
LEMMA StateStep ==
  ASSUME IInv, NEW p \in Query, UNCHANGED <<scriptVars, seen>>,
         \A q \in Query : q # p => UNCHANGED <<user[q], q \in failed>>,
         \/ StreamState(p)' = StreamState(p)
         \/ StreamState(p)' = "closed"
         \/ /\ StreamState(p) = "running" /\ StreamState(p)' = "complete"
            /\ Needed(p) \subseteq Seen(p)
  PROVE  [Stream!Next]_(Stream!vars)
<1>1. /\ [q \in Query |-> Final(q)]' = [q \in Query |-> Final(q)]
      /\ [q \in Query |-> Needed(q)]' = [q \in Query |-> Needed(q)]
  BY PagesKept
<1>2. \A q \in Query : q # p => StreamState(q)' = StreamState(q)
  BY DEF StreamState
<1>3. [q \in Query |-> StreamState(q)]'
      = [[q \in Query |-> StreamState(q)] EXCEPT ![p] = StreamState(p)']
  BY <1>2
<1>4. CASE StreamState(p)' = StreamState(p)
  BY <1>1, <1>2, <1>4 DEF Stream!vars
<1>5. CASE StreamState(p)' = "closed" /\ StreamState(p) # "closed"
  BY <1>1, <1>3, <1>5 DEF Stream!Next, Stream!Close
<1>6. CASE StreamState(p) = "running" /\ StreamState(p)' = "complete" /\ Needed(p) \subseteq Seen(p)
  <2>1. Stream!Received(p) = Seen(p)
    BY DEF Stream!Received, Seen
  <2>2. Stream!Complete(p)
    BY <1>1, <1>3, <1>6, <2>1 DEF Stream!Complete
  <2> QED
    BY <2>2 DEF Stream!Next
<1> QED
  BY <1>4, <1>5, <1>6

\* A page is handed over, and only the first unread one.
LEMMA HandOverStep ==
  ASSUME IInv, NEW p \in Query, NEW n \in 1 .. Final(p), Polling(p), HandOver(p, n),
         UNCHANGED <<scriptVars, failed>>,
         \A m \in Seen(p) : m < n, \A m \in Needed(p) : m < n => m \in Seen(p)
  PROVE  [Stream!Next]_(Stream!vars)
<1>1. user[p] \in {"schema", "reading"} /\ p \notin failed
  BY DEF Polling, IInv, QueryOK, FreshOK
<1>2. CASE user[p] = "schema"
  <2>1. UNCHANGED seen /\ StreamState(p)' = StreamState(p) /\ \A q \in Query : q # p => user'[q] = user[q]
    BY <1>1, <1>2 DEF HandOver, StreamState, IInv, TypeOK
  <2> QED
    BY <2>1, StateStep
<1>3. CASE user[p] # "schema"
  <2>1. seen' = [seen EXCEPT ![p] = Append(@, n)] /\ UNCHANGED user
    BY <1>3 DEF HandOver
  <2>2. StreamState(p) = "running"
    BY <1>1 DEF StreamState
  <2> QED
    BY <2>1, <2>2, DeliverStep
<1> QED
  BY <1>2, <1>3

LEMMA TakeFirstPageStep ==
  ASSUME IInv, NEW p \in Query, TakeFirstPage(p)
  PROVE  [Stream!Next]_(Stream!vars)
<1> TypeOK /\ QueryOK(p)
  BY DEF IInv
<1> USE DEF TakeFirstPage
<1>1. firstPage[p] \in 1 .. Final(p) /\ \A m \in Seen(p) : m < firstPage[p]
  BY PageFacts DEF QueryOK, RequestOK, OrderOK
<1>2. \A m \in Needed(p) : m < firstPage[p] => m \in Seen(p)
  <2>1. Started(p) /\ p \notin failed
    BY DEF Polling, Started, QueryOK, FreshOK
  <2>2. firstPage[p] < Unread(p) /\ Unread(p) \in Nat
    BY PageFacts DEF TypeOK, QueryOK, OrderOK, Unread
  <2> QED
    BY <1>1, <2>1, <2>2, PageFacts DEF QueryOK, DeliveredOK
<1> QED
  BY <1>1, <1>2, HandOverStep

LEMMA ReadPageStep ==
  ASSUME IInv, NEW p \in Query, ReadPage(p)
  PROVE  [Stream!Next]_(Stream!vars)
<1> TypeOK /\ QueryOK(p)
  BY DEF IInv
<1> USE DEF ReadPage
<1>1. CASE PassesOver(p, future[p])
  <2>1. UNCHANGED <<seen, user>>
    BY <1>1
  <2> QED
    BY <2>1, StateStep DEF StreamState
<1>2. CASE ~PassesOver(p, future[p])
  <2>1. Started(p) /\ p \notin failed /\ firstPage[p] = 0
    BY DEF Polling, Started, QueryOK, FreshOK
  <2>2. future[p] \in 1 .. Final(p) /\ Unread(p) = future[p]
    BY PageFacts DEF TypeOK, QueryOK, RequestOK, Polling, Unread
  <2>3. \A m \in Seen(p) : m < future[p]
    BY <2>2 DEF QueryOK, OrderOK
  <2>4. \A m \in Needed(p) : m < future[p] => m \in Seen(p)
    BY <2>1, <2>2, PageFacts DEF QueryOK, DeliveredOK
  <2> QED
    BY <1>2, <2>2, <2>3, <2>4, HandOverStep
<1> QED
  BY <1>1, <1>2

\* The program's other steps: the stream ends, with all that is needed, or is cut off.
LEMMA ProgramStep ==
  ASSUME IInv, NEW p \in Query, Program(p)
  PROVE  [Stream!Next]_(Stream!vars)
<1> TypeOK /\ QueryOK(p)
  BY DEF IInv
<1> USE DEF TypeOK
<1>1. CASE StartQuery(p)
  <2>1. StreamState(p)' = StreamState(p)
    BY <1>1 DEF StartQuery, StreamState
  <2> QED
    BY <1>1, <2>1, StateStep DEF StartQuery
<1>2. CASE ReadStart(p)
  <2>1. \A q \in Query : q # p => UNCHANGED <<user[q], q \in failed>>
    BY <1>2 DEF ReadStart
  <2>2. StreamState(p)' \in {StreamState(p), "closed"}
    BY <1>2 DEF ReadStart, StreamState
  <2> QED
    BY <1>2, <2>1, <2>2, StateStep DEF ReadStart
<1>3. CASE RequestPage(p)
  BY <1>3, StateStep DEF RequestPage, StreamState
<1>4. CASE ReadError(p)
  <2>1. \A q \in Query : q # p => UNCHANGED <<user[q], q \in failed>>
    BY <1>4 DEF ReadError
  <2>2. StreamState(p)' = "closed"
    BY <1>4 DEF ReadError, StreamState
  <2> QED
    BY <1>4, <2>1, <2>2, StateStep DEF ReadError
<1>5. CASE EndStream(p)
  <2>1. firstPage[p] = 0 /\ Unread(p) = Final(p) + 1
    BY <1>5 DEF EndStream, Unread
  <2>2. \A n \in Needed(p) : n # 0 /\ n < Unread(p)
    BY <2>1, PageFacts
  <2>3. p \notin failed /\ Started(p)
    BY <1>5 DEF EndStream, Polling, Started, QueryOK, FreshOK
  <2>4. Needed(p) \subseteq Seen(p)
    BY <2>1, <2>2, <2>3 DEF QueryOK, DeliveredOK
  <2>5. StreamState(p) = "running" /\ StreamState(p)' = "complete"
    BY <1>5, <2>3 DEF EndStream, Polling, StreamState
  <2>6. \A q \in Query : q # p => UNCHANGED <<user[q], q \in failed>>
    BY <1>5 DEF EndStream
  <2> QED
    BY <1>5, <2>4, <2>5, <2>6, StateStep DEF EndStream
<1>6. CASE DropPages(p)
  <2>1. StreamState(p)' = "closed"
    BY <1>6 DEF DropPages, StreamState
  <2>2. \A q \in Query : q # p => UNCHANGED <<user[q], q \in failed>>
    BY <1>6 DEF DropPages
  <2> QED
    BY <1>6, <2>1, <2>2, StateStep DEF DropPages
<1> QED
  BY <1>1, <1>2, <1>3, <1>4, <1>5, <1>6, TakeFirstPageStep, ReadPageStep DEF Program, Poll

\* Every step of the queries is one of their streams, or none.
LEMMA StreamStep == IInv /\ [Next]_vars => [Stream!Next]_(Stream!vars)
<1> SUFFICES ASSUME IInv, [Next]_vars PROVE [Stream!Next]_(Stream!vars)
  OBVIOUS
<1>1. ASSUME UNCHANGED <<scriptVars, seen, user, failed>> PROVE UNCHANGED Stream!vars
  <2>1. /\ [q \in Query |-> Final(q)]' = [q \in Query |-> Final(q)]
        /\ [q \in Query |-> Needed(q)]' = [q \in Query |-> Needed(q)]
    BY <1>1, PagesKept
  <2>2. [q \in Query |-> StreamState(q)]' = [q \in Query |-> StreamState(q)]
    BY <1>1 DEF StreamState
  <2> QED
    BY <1>1, <2>1, <2>2 DEF Stream!vars
<1>2. CASE CloseSession \/ Heartbeat
  BY <1>1, <1>2 DEF CloseSession, Heartbeat, BeginBeat, AnswerBeat, EndBeat, BeatFails
<1>3. ASSUME NEW p \in Query, Server(p) PROVE UNCHANGED Stream!vars
  BY <1>1, <1>3 DEF Server, ServePage, LosePage, ServeFinal, LoseFinal, KillQuery, Expire
<1>4. CASE UNCHANGED vars
  BY <1>1, <1>4 DEF vars
<1> QED
  BY <1>2, <1>3, <1>4, ProgramStep DEF Next

\* The program receives from each query what a result stream promises: the needed pages
\* in order, none twice, and the end after the last of them.
THEOREM QueriesAreStreams == Spec => ImplementsResultStream
<1>1. Spec => Stream!Init /\ [][Stream!Next]_(Stream!vars)
  BY StreamInit, StreamStep, InvariantHolds, PTL DEF Spec
<1> QED
  BY <1>1 DEF ImplementsResultStream, Stream!Spec

=============================================================================
