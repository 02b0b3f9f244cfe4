---------------------------- MODULE Cursor_proofs ----------------------------
(***************************************************************************)
(* The properties of Cursor for any results, any sizes and any number of   *)
(* statements.  A call and the stream under it share the rows out between  *)
(* them: what the program has, what the call or the cursor holds, and what *)
(* the stream is still to hand out, in this order.                         *)
(***************************************************************************)
EXTENDS Cursor, TLAPS

USE CursorAssumption

-----------------------------------------------------------------------------
(* Sequences of row numbers *)

Increasing(s) == \A i, j \in DOMAIN s : i < j => s[i] < s[j]

LEMMA SeqFacts ==
  ASSUME NEW s \in Seq(Nat)
  PROVE  /\ Len(s) \in Nat /\ DOMAIN s = 1 .. Len(s) /\ (s = <<>> <=> Len(s) = 0)
         /\ \A i \in DOMAIN s : s[i] \in Nat
OBVIOUS

LEMMA TailFacts ==
  ASSUME NEW s \in Seq(Nat), s # <<>>
  PROVE  /\ Head(s) \in Nat /\ Head(s) = s[1] /\ Tail(s) \in Seq(Nat) /\ Len(Tail(s)) = Len(s) - 1
         /\ \A i \in 1 .. Len(s) - 1 : Tail(s)[i] = s[i + 1]
OBVIOUS

LEMMA AppendFacts ==
  ASSUME NEW s \in Seq(Nat), NEW n \in Nat
  PROVE  /\ Append(s, n) \in Seq(Nat) /\ Len(Append(s, n)) = Len(s) + 1
         /\ \A i \in 1 .. Len(s) : Append(s, n)[i] = s[i]
         /\ Append(s, n)[Len(s) + 1] = n
OBVIOUS

LEMMA ConcatFacts ==
  ASSUME NEW s \in Seq(Nat), NEW t \in Seq(Nat)
  PROVE  /\ s \o t \in Seq(Nat) /\ Len(s \o t) = Len(s) + Len(t)
         /\ \A i \in 1 .. Len(s) : (s \o t)[i] = s[i]
         /\ \A i \in 1 .. Len(t) : (s \o t)[Len(s) + i] = t[i]
OBVIOUS

LEMMA SubSeqFacts ==
  ASSUME NEW s \in Seq(Nat), NEW i \in 0 .. Len(s)
  PROVE  /\ SubSeq(s, i + 1, Len(s)) \in Seq(Nat) /\ Len(SubSeq(s, i + 1, Len(s))) = Len(s) - i
         /\ \A j \in 1 .. Len(s) - i : SubSeq(s, i + 1, Len(s))[j] = s[i + j]
OBVIOUS

LEMMA WholeSeq == ASSUME NEW s \in Seq(Nat) PROVE SubSeq(s, 1, Len(s)) = s
OBVIOUS

LEMMA NumbersFacts ==
  ASSUME NEW from \in Nat, NEW n \in Nat, from # 0
  PROVE  /\ Numbers(from, n) \in Seq(Nat) /\ Len(Numbers(from, n)) = n
         /\ \A i \in 1 .. n : Numbers(from, n)[i] = from + i - 1
BY DEF Numbers

\* The rest of a sequence in order is in order, after the first, within the same bounds.
LEMMA TailInOrder ==
  ASSUME NEW s \in Seq(Nat), s # <<>>, Increasing(s)
  PROVE  /\ Increasing(Tail(s)) /\ DOMAIN Tail(s) = 1 .. Len(s) - 1
         /\ \A i \in DOMAIN Tail(s) : i + 1 \in DOMAIN s /\ Tail(s)[i] = s[i + 1] /\ Head(s) < Tail(s)[i]
         /\ 1 \in DOMAIN s /\ Head(s) = s[1]
<1>1. /\ Len(s) \in Nat /\ Len(s) # 0 /\ DOMAIN s = 1 .. Len(s) /\ Head(s) = s[1]
      /\ DOMAIN Tail(s) = 1 .. Len(s) - 1
      /\ \A i \in 1 .. Len(s) - 1 : Tail(s)[i] = s[i + 1]
  BY TailFacts, SeqFacts
<1>2. \A i \in 1 .. Len(s) - 1 : i + 1 \in 1 .. Len(s) /\ s[1] < s[i + 1]
  BY <1>1 DEF Increasing
<1>3. ASSUME NEW i \in 1 .. Len(s) - 1, NEW j \in 1 .. Len(s) - 1, i < j PROVE Tail(s)[i] < Tail(s)[j]
  <2>1. i + 1 \in DOMAIN s /\ j + 1 \in DOMAIN s /\ i + 1 < j + 1
    BY <1>1, <1>3
  <2> QED
    BY <1>1, <2>1 DEF Increasing
<1>4. Increasing(Tail(s))
  BY <1>1, <1>3 DEF Increasing
<1>5. \A i \in 1 .. Len(s) - 1 : i + 1 \in 1 .. Len(s)
  BY <1>1
<1> QED
  BY <1>1, <1>2, <1>4, <1>5

\* Numbers that follow a sequence in order keep the order.
LEMMA NumbersInOrder ==
  ASSUME NEW s \in Seq(Nat), Increasing(s), NEW from \in Nat \ {0}, NEW n \in Nat,
         \A i \in DOMAIN s : s[i] < from
  PROVE  LET t == s \o Numbers(from, n)
         IN /\ t \in Seq(Nat) /\ Len(t) = Len(s) + n /\ Increasing(t)
            /\ \A i \in 1 .. Len(s) : t[i] = s[i]
            /\ \A i \in Len(s) + 1 .. Len(s) + n : t[i] = from + (i - Len(s)) - 1
<1> DEFINE t == s \o Numbers(from, n)
<1>1. /\ t \in Seq(Nat) /\ Len(t) = Len(s) + n /\ Len(s) \in Nat
      /\ DOMAIN t = 1 .. Len(s) + n /\ DOMAIN s = 1 .. Len(s)
      /\ \A i \in 1 .. Len(s) : t[i] = s[i] /\ s[i] \in Nat
      /\ \A i \in 1 .. n : t[Len(s) + i] = Numbers(from, n)[i]
  <2>1. Numbers(from, n) \in Seq(Nat) /\ Len(Numbers(from, n)) = n /\ from \in Nat /\ from # 0
    BY NumbersFacts
  <2>2. /\ t \in Seq(Nat) /\ Len(t) = Len(s) + n
        /\ \A i \in 1 .. Len(s) : t[i] = s[i]
        /\ \A i \in 1 .. n : t[Len(s) + i] = Numbers(from, n)[i]
    <3> DEFINE u == Numbers(from, n)
    <3>1. u \in Seq(Nat) /\ Len(u) = n
      BY <2>1
    <3>2. t = s \o u
      OBVIOUS
    <3> HIDE DEF t, u
    <3>3. /\ t \in Seq(Nat) /\ Len(t) = Len(s) + Len(u)
          /\ \A i \in 1 .. Len(s) : t[i] = s[i]
          /\ \A i \in 1 .. Len(u) : t[Len(s) + i] = u[i]
      BY <3>1, <3>2, ConcatFacts
    <3> QED
      BY <3>1, <3>3 DEF u
  <2> QED
    BY <2>2, SeqFacts
<1> HIDE DEF t
<1>2. ASSUME NEW i \in Len(s) + 1 .. Len(s) + n PROVE t[i] = from + (i - Len(s)) - 1
  <2>1. i - Len(s) \in 1 .. n /\ i = Len(s) + (i - Len(s))
    BY <1>1
  <2> QED
    BY <1>1, <2>1, NumbersFacts
<1>3. ASSUME NEW i \in DOMAIN t, NEW j \in DOMAIN t, i < j PROVE t[i] < t[j]
  <2>1. CASE j \in 1 .. Len(s)
    <3>1. i \in DOMAIN s /\ j \in DOMAIN s /\ t[i] = s[i] /\ t[j] = s[j]
      BY <1>1, <1>3, <2>1
    <3> QED
      BY <1>3, <3>1 DEF Increasing
  <2>2. CASE i \in 1 .. Len(s) /\ j \in Len(s) + 1 .. Len(s) + n
    BY <1>1, <1>2, <2>2
  <2>3. CASE i \in Len(s) + 1 .. Len(s) + n /\ j \in Len(s) + 1 .. Len(s) + n
    BY <1>1, <1>2, <1>3, <2>3
  <2> QED
    BY <1>1, <1>3, <2>1, <2>2, <2>3
<1>4. Increasing(t)
  BY <1>3 DEF Increasing
<1> QED
  BY <1>1, <1>2, <1>4 DEF t

-----------------------------------------------------------------------------
(* The stream of rows *)

StreamType ==
  [pages : Seq(Nat), format : {"json", "arrow", "flight"}, next : Nat \ {0}, buffer : Seq(Nat)]

\* The rows that wait are in order and came before the next page; the pages are in order
\* and end at row n at the latest.
StreamOK(s, n) ==
  /\ s \in StreamType /\ n \in Nat
  /\ Increasing(s.buffer) /\ \A i \in DOMAIN s.buffer : 0 < s.buffer[i] /\ s.buffer[i] < s.next
  /\ Ascending(s.pages) /\ \A i \in DOMAIN s.pages : s.next <= s.pages[i] + 1 /\ s.pages[i] <= n
  /\ s.next <= n + 1

\* All that is still to come comes after row r.
After(s, r) == r < s.next /\ \A i \in DOMAIN s.buffer : r < s.buffer[i]

\* Row k is the last that was handed out, and n the last of the result: none is missing.
Exact(s, k, n) ==
  /\ k \in Nat /\ Len(s.buffer) = s.next - 1 - k
  /\ \A i \in DOMAIN s.buffer : s.buffer[i] = k + i
  /\ n = IF s.pages = <<>> THEN s.next - 1 ELSE s.pages[Len(s.pages)]

\* What one poll may come to.
PollOK(s, y, n) ==
  /\ StreamOK(y.stream, n) /\ y.stream.format = s.format
  /\ y.item.tag \in {"stats", "row", "error", "end"}
  /\ \A r \in Nat : After(s, r) => After(y.stream, r)
  /\ y.item.tag = "row" =>
       /\ y.item.row \in 1 .. n /\ After(y.stream, y.item.row)
       /\ \A r \in Nat : After(s, r) => r < y.item.row
       /\ s.format # "flight" /\ y.stream.pages # <<>> => y.item.row < n
  /\ y.stream.pages # <<>> => s.pages # <<>>
  /\ \A k \in Nat : Exact(s, k, n) =>
       CASE y.item.tag = "stats" -> Exact(y.stream, k, n)
         [] y.item.tag = "row"   -> y.item.row = k + 1 /\ Exact(y.stream, k + 1, n)
         [] y.item.tag = "end"   -> k = n /\ Exact(y.stream, k, n)
         [] OTHER                -> TRUE

\* A row is popped, and converted or not.
LEMMA PopOK ==
  ASSUME NEW s, NEW n, StreamOK(s, n), s.buffer # <<>>,
         s.format = "flight" \/ s.pages = <<>> \/ Len(s.buffer) > 1,
         NEW y, y.stream = [s EXCEPT !.buffer = Tail(@)],
         (y.item.tag = "row" /\ y.item.row = Head(s.buffer)) \/ y.item.tag = "error"
  PROVE  PollOK(s, y, n)
<1> DEFINE rest == [s EXCEPT !.buffer = Tail(@)]
<1>1. y.stream = rest
  OBVIOUS
<1>2. /\ rest \in StreamType /\ rest.pages = s.pages /\ rest.format = s.format
      /\ rest.next = s.next /\ rest.buffer = Tail(s.buffer)
  BY TailFacts DEF StreamOK, StreamType
<1>3. s \in StreamType /\ s.buffer \in Seq(Nat) /\ s.next \in Nat /\ s.pages \in Seq(Nat) /\ n \in Nat
  BY DEF StreamOK, StreamType
<1> HIDE DEF rest
<1>4. /\ Increasing(rest.buffer) /\ DOMAIN rest.buffer = 1 .. Len(s.buffer) - 1
      /\ \A i \in DOMAIN rest.buffer :
           i + 1 \in DOMAIN s.buffer /\ rest.buffer[i] = s.buffer[i + 1] /\ Head(s.buffer) < rest.buffer[i]
      /\ 1 \in DOMAIN s.buffer /\ Head(s.buffer) = s.buffer[1]
      /\ Len(rest.buffer) = Len(s.buffer) - 1 /\ Len(s.buffer) \in Nat
  <2>1. Increasing(s.buffer)
    BY DEF StreamOK
  <2> QED
    BY <1>2, <1>3, <2>1, TailInOrder, TailFacts, SeqFacts
<1>5. \A i \in DOMAIN s.buffer : s.buffer[i] \in Nat /\ 0 < s.buffer[i] /\ s.buffer[i] < s.next
  BY <1>3, SeqFacts DEF StreamOK
<1>6. StreamOK(rest, n)
  <2>1. \A i \in DOMAIN rest.buffer : 0 < rest.buffer[i] /\ rest.buffer[i] < rest.next
    BY <1>2, <1>4, <1>5
  <2> QED
    BY <1>2, <1>4, <2>1 DEF StreamOK
<1>7. \A r \in Nat : After(s, r) => After(rest, r) /\ r < Head(s.buffer)
  BY <1>2, <1>4 DEF After
<1>8. After(rest, Head(s.buffer)) /\ Head(s.buffer) \in 1 .. n
  <2>1. s.next <= n + 1
    BY DEF StreamOK
  <2> QED
    BY <1>2, <1>3, <1>4, <1>5, <2>1 DEF After
<1>9. s.format # "flight" /\ rest.pages # <<>> => Head(s.buffer) < n
  <2>1. s.next <= n + 1 /\ s.pages = rest.pages
    BY <1>2 DEF StreamOK
  <2>2. s.format # "flight" /\ rest.pages # <<>> => 1 \in DOMAIN rest.buffer
    BY <1>4, <2>1
  <2>3. \A i \in DOMAIN rest.buffer :
          Head(s.buffer) < rest.buffer[i] /\ rest.buffer[i] \in Nat /\ rest.buffer[i] < s.next
    BY <1>4, <1>5
  <2>4. Head(s.buffer) \in Nat /\ s.next \in Nat /\ n \in Nat
    BY <1>3, <1>4, <1>5
  <2>5. ASSUME NEW r \in Nat, Head(s.buffer) < r, r < s.next PROVE Head(s.buffer) < n
    BY <2>1, <2>4, <2>5
  <2> QED
    BY <2>2, <2>3, <2>5
<1>10. ASSUME NEW k \in Nat, Exact(s, k, n) PROVE Head(s.buffer) = k + 1 /\ Exact(rest, k + 1, n)
  <2>1. \A i \in DOMAIN rest.buffer : rest.buffer[i] = k + 1 + i
    BY <1>4, <1>10 DEF Exact
  <2>2. Head(s.buffer) = k + 1 /\ Len(s.buffer) = s.next - 1 - k
    BY <1>4, <1>10 DEF Exact
  <2>3. n = IF rest.pages = <<>> THEN rest.next - 1 ELSE rest.pages[Len(rest.pages)]
    BY <1>2, <1>10 DEF Exact
  <2>4. Len(rest.buffer) = rest.next - 1 - (k + 1)
    BY <1>2, <1>3, <1>4, <1>10, <2>2
  <2> QED
    BY <2>1, <2>2, <2>3, <2>4 DEF Exact
<1> QED
  BY <1>1, <1>2, <1>6, <1>7, <1>8, <1>9, <1>10 DEF PollOK

LEMMA PopRowOK ==
  ASSUME NEW s, NEW n, StreamOK(s, n), s.buffer # <<>>, s.pages = <<>> \/ Len(s.buffer) > 1,
         NEW y \in PopRow(s)
  PROVE  PollOK(s, y, n)
<1> DEFINE rest == [s EXCEPT !.buffer = Tail(@)]
<1>1. y \in {Yield(RowItem(Head(s.buffer)), rest), Yield(Item("error"), rest)}
  BY DEF PopRow
<1>2. /\ y.stream = rest
      /\ (y.item.tag = "row" /\ y.item.row = Head(s.buffer)) \/ y.item.tag = "error"
  BY <1>1 DEF Yield, RowItem, Item
<1> QED
  BY <1>2, PopOK

\* t is s gone past page i; the rows that wait are old ones, or rows of those pages.
Passes(s, t, i) ==
  /\ t \in StreamType /\ i \in 1 .. Len(s.pages)
  /\ Len(t.pages) = Len(s.pages) - i /\ \A j \in 1 .. Len(t.pages) : t.pages[j] = s.pages[i + j]
  /\ t.next = s.pages[i] + 1 /\ Increasing(t.buffer)
  /\ \A j \in DOMAIN t.buffer :
       /\ t.buffer[j] < t.next
       /\ s.next <= t.buffer[j] \/ \E l \in DOMAIN s.buffer : t.buffer[j] = s.buffer[l]

LEMMA StreamAdvances ==
  ASSUME NEW n, NEW s, NEW t, NEW i, StreamOK(s, n), Passes(s, t, i)
  PROVE  /\ StreamOK(t, n) /\ s.next <= t.next /\ s.pages # <<>>
         /\ \A r \in Nat : After(s, r) => After(t, r)
         /\ s.pages[Len(s.pages)] = IF t.pages = <<>> THEN t.next - 1 ELSE t.pages[Len(t.pages)]
<1>1. /\ s.pages \in Seq(Nat) /\ t.pages \in Seq(Nat) /\ s.buffer \in Seq(Nat)
      /\ t.buffer \in Seq(Nat) /\ s.next \in Nat \ {0} /\ t.next \in Nat \ {0} /\ n \in Nat
  BY DEF Passes, StreamOK, StreamType
<1> USE DEF Passes
<1>2. /\ Len(s.pages) \in Nat /\ DOMAIN s.pages = 1 .. Len(s.pages)
      /\ \A j \in DOMAIN s.pages : s.pages[j] \in Nat
  BY <1>1, SeqFacts
<1>3. /\ Len(t.pages) \in Nat /\ DOMAIN t.pages = 1 .. Len(t.pages)
      /\ t.pages = <<>> <=> Len(t.pages) = 0
  BY <1>1, SeqFacts
<1>4. /\ \A j \in DOMAIN t.buffer : t.buffer[j] \in Nat
      /\ \A j \in DOMAIN s.buffer : s.buffer[j] \in Nat
  BY <1>1, SeqFacts
<1>5. /\ s.next <= s.pages[i] + 1 /\ s.pages[i] <= n
      /\ \A j, l \in DOMAIN s.pages : j < l => s.pages[j] <= s.pages[l]
      /\ \A j \in DOMAIN s.pages : s.pages[j] <= n
  BY <1>2 DEF StreamOK, Ascending
<1>6. \A j \in DOMAIN t.pages : i + j \in DOMAIN s.pages /\ t.pages[j] = s.pages[i + j] /\ i < i + j
  BY <1>2, <1>3
<1>7. Ascending(t.pages)
  <2>1. ASSUME NEW j \in DOMAIN t.pages, NEW l \in DOMAIN t.pages, j < l
        PROVE  t.pages[j] <= t.pages[l]
    <3>1. i + j < i + l
      BY <1>3, <2>1
    <3> QED
      BY <1>5, <1>6, <3>1
  <2> QED
    BY <2>1 DEF Ascending
<1>8. ASSUME NEW j \in DOMAIN t.pages PROVE t.next <= t.pages[j] + 1 /\ t.pages[j] <= n
  <2>1. s.pages[i] <= t.pages[j] /\ t.pages[j] <= n
    BY <1>2, <1>5, <1>6
  <2>2. s.pages[i] \in Nat /\ t.pages[j] \in Nat
    BY <1>2, <1>6
  <2> QED
    BY <2>1, <2>2
<1>9. s.next <= t.next /\ t.next <= n + 1
  BY <1>1, <1>2, <1>5
<1>10. ASSUME NEW j \in DOMAIN t.buffer PROVE 0 < t.buffer[j] /\ t.buffer[j] < t.next
  <2>1. \A l \in DOMAIN s.buffer : 0 < s.buffer[l]
    BY DEF StreamOK
  <2>2. CASE s.next <= t.buffer[j]
    BY <1>1, <1>4, <2>2
  <2>3. CASE \E l \in DOMAIN s.buffer : t.buffer[j] = s.buffer[l]
    BY <2>1, <2>3
  <2> QED
    BY <2>2, <2>3
<1>11. ASSUME NEW r \in Nat, After(s, r) PROVE After(t, r)
  <2>1. r < s.next /\ \A l \in DOMAIN s.buffer : r < s.buffer[l]
    BY <1>11 DEF After
  <2>2. ASSUME NEW j \in DOMAIN t.buffer PROVE r < t.buffer[j]
    <3>1. CASE s.next <= t.buffer[j]
      BY <1>1, <1>4, <2>1, <3>1
    <3>2. CASE \E l \in DOMAIN s.buffer : t.buffer[j] = s.buffer[l]
      BY <2>1, <3>2
    <3> QED
      BY <3>1, <3>2
  <2>3. r < t.next
    BY <1>1, <1>9, <2>1
  <2> QED
    BY <2>2, <2>3 DEF After
<1>12. s.pages[Len(s.pages)] = IF t.pages = <<>> THEN t.next - 1 ELSE t.pages[Len(t.pages)]
  <2>1. CASE t.pages = <<>>
    BY <1>2, <1>3, <2>1
  <2>2. CASE t.pages # <<>>
    BY <1>2, <1>3, <1>6, <2>2
  <2> QED
    BY <2>1, <2>2
<1>13. s.pages # <<>>
  BY <1>2
<1> QED
  BY <1>1, <1>7, <1>8, <1>9, <1>10, <1>11, <1>12, <1>13 DEF StreamOK

LEMMA TakePageOK ==
  ASSUME NEW s, NEW n, StreamOK(s, n), s.pages # <<>>, NEW y \in TakePage(s)
  PROVE  PollOK(s, y, n)
<1>1. /\ s \in StreamType /\ s.pages \in Seq(Nat) /\ s.buffer \in Seq(Nat) /\ s.next \in Nat \ {0}
      /\ n \in Nat
  BY DEF StreamOK, StreamType
<1>2. /\ Head(s.pages) = s.pages[1] /\ Head(s.pages) \in Nat /\ 1 \in 1 .. Len(s.pages)
      /\ Len(s.pages) \in Nat /\ DOMAIN s.pages = 1 .. Len(s.pages)
      /\ Tail(s.pages) \in Seq(Nat) /\ Len(Tail(s.pages)) = Len(s.pages) - 1
      /\ \A j \in 1 .. Len(s.pages) - 1 : Tail(s.pages)[j] = s.pages[1 + j]
  BY <1>1, TailFacts, SeqFacts
<1>3. PageSize(s) \in Nat /\ s.next + PageSize(s) = Head(s.pages) + 1
  <2>1. s.next <= s.pages[1] + 1
    BY <1>2 DEF StreamOK
  <2> QED
    BY <1>1, <1>2, <2>1 DEF PageSize
<1> DEFINE With(k) == [s EXCEPT !.pages = Tail(@), !.next = Head(s.pages) + 1,
                               !.buffer = @ \o Numbers(s.next, k)]
           kept == {0} \cup (IF s.format = "arrow" THEN 1 .. PageSize(s) - 1 ELSE {})
<1>4. PICK k \in 0 .. PageSize(s) :
        /\ y.stream = With(k)
        /\ y.item.tag = "error" \/ (y.item.tag = "stats" /\ k = PageSize(s))
  <2>1. CASE y = Yield(Item("stats"), With(PageSize(s)))
    <3> HIDE DEF With
    <3> QED
      BY <1>3, <2>1 DEF Yield, Item
  <2>2. CASE \E k \in kept : y = Yield(Item("error"), With(k))
    <3>1. kept \subseteq 0 .. PageSize(s)
      BY <1>3
    <3> HIDE DEF kept, With
    <3> QED
      BY <2>2, <3>1 DEF Yield, Item
  <2> QED
    BY <2>1, <2>2 DEF TakePage
<1> DEFINE t == y.stream
           old == Len(s.buffer)
<1>5. /\ t.buffer = s.buffer \o Numbers(s.next, k) /\ t.pages = Tail(s.pages)
      /\ t.next = Head(s.pages) + 1 /\ t.format = s.format /\ t = With(k)
  BY <1>1, <1>4 DEF StreamType
<1>6. k \in Nat /\ old \in Nat /\ DOMAIN s.buffer = 1 .. old
  BY <1>1, <1>3, SeqFacts
<1>7. Increasing(s.buffer) /\ \A i \in DOMAIN s.buffer : s.buffer[i] < s.next
  BY DEF StreamOK
<1>8. /\ t.buffer \in Seq(Nat) /\ Len(t.buffer) = old + k /\ Increasing(t.buffer)
      /\ \A i \in 1 .. old : t.buffer[i] = s.buffer[i]
      /\ \A i \in old + 1 .. old + k : t.buffer[i] = s.next + (i - old) - 1
  <2> HIDE DEF t
  <2>1. LET b == s.buffer \o Numbers(s.next, k)
        IN /\ b \in Seq(Nat) /\ Len(b) = old + k /\ Increasing(b)
           /\ \A i \in 1 .. old : b[i] = s.buffer[i]
           /\ \A i \in old + 1 .. old + k : b[i] = s.next + (i - old) - 1
    BY <1>1, <1>6, <1>7, NumbersInOrder
  <2> QED
    BY <1>5, <2>1
<1>9. DOMAIN t.buffer = 1 .. old + k
  BY <1>8, SeqFacts
<1>10. t \in StreamType
  <2>1. t.buffer \in Seq(Nat) /\ t.pages \in Seq(Nat) /\ t.next \in Nat \ {0}
    BY <1>2, <1>5, <1>8
  <2> HIDE DEF t
  <2> QED
    BY <1>1, <1>5, <2>1 DEF StreamType
<1> HIDE DEF t, With, old, kept
<1>11. ASSUME NEW j \in DOMAIN t.buffer
       PROVE  /\ t.buffer[j] < t.next
              /\ s.next <= t.buffer[j] \/ \E l \in DOMAIN s.buffer : t.buffer[j] = s.buffer[l]
  <2>1. s.next <= t.next /\ t.next \in Nat
    BY <1>1, <1>2, <1>3, <1>5
  <2>2. CASE j \in 1 .. old
    <3>1. j \in DOMAIN s.buffer /\ t.buffer[j] = s.buffer[j]
      BY <1>6, <1>8, <2>2
    <3>2. s.buffer[j] \in Nat /\ s.buffer[j] < s.next
      BY <1>1, <1>7, <3>1, SeqFacts
    <3> QED
      BY <1>1, <2>1, <3>1, <3>2
  <2>3. CASE j \in old + 1 .. old + k
    <3>1. j - old \in 1 .. k /\ k <= PageSize(s)
      BY <1>3, <1>4, <1>6, <2>3
    <3>2. t.buffer[j] = s.next + (j - old) - 1
      BY <1>8, <2>3
    <3>3. t.buffer[j] \in s.next .. s.next + PageSize(s) - 1
      BY <1>1, <1>3, <1>6, <3>1, <3>2
    <3>4. t.next = s.next + PageSize(s) /\ s.next \in Nat
      BY <1>1, <1>3, <1>5
    <3> QED
      BY <1>3, <3>3, <3>4
  <2> QED
    BY <1>6, <1>9, <2>2, <2>3
<1>12. /\ StreamOK(t, n) /\ \A r \in Nat : After(s, r) => After(t, r)
       /\ s.pages[Len(s.pages)] = IF t.pages = <<>> THEN t.next - 1 ELSE t.pages[Len(t.pages)]
  <2>1. /\ Len(t.pages) = Len(s.pages) - 1 /\ t.next = s.pages[1] + 1
        /\ \A j \in 1 .. Len(t.pages) : t.pages[j] = s.pages[1 + j]
    BY <1>2, <1>5
  <2>2. Passes(s, t, 1)
    BY <1>2, <1>8, <1>10, <1>11, <2>1 DEF Passes
  <2> QED
    BY <2>2, StreamAdvances
<1>13. ASSUME NEW r \in Nat, Exact(s, r, n), k = PageSize(s) PROVE Exact(t, r, n)
  <2>1. old = s.next - 1 - r /\ \A i \in DOMAIN s.buffer : s.buffer[i] = r + i
    BY <1>13 DEF Exact, old
  <2>2. Len(t.buffer) = t.next - 1 - r
    <3>1. Len(t.buffer) = s.next - 1 - r + PageSize(s) /\ t.next = s.next + PageSize(s)
      BY <1>3, <1>5, <1>8, <1>13, <2>1
    <3> QED
      BY <1>1, <1>3, <3>1
  <2>3. ASSUME NEW i \in DOMAIN t.buffer PROVE t.buffer[i] = r + i
    <3>1. CASE i \in 1 .. old
      BY <1>6, <1>8, <2>1, <3>1
    <3>2. CASE i \in old + 1 .. old + k
      <4>1. t.buffer[i] = s.next + (i - old) - 1
        BY <1>8, <3>2
      <4>2. i \in Nat /\ old \in Nat /\ s.next \in Nat
        BY <1>1, <1>6, <3>2
      <4>3. old = s.next - 1 - r
        BY <2>1
      <4> QED
        BY <4>1, <4>2, <4>3
    <3> QED
      BY <1>6, <1>9, <3>1, <3>2
  <2>4. n = s.pages[Len(s.pages)]
    BY <1>13 DEF Exact
  <2> QED
    BY <1>12, <2>2, <2>3, <2>4 DEF Exact
<1>14. y.stream = t
  BY DEF t
<1> QED
  BY <1>4, <1>5, <1>12, <1>13, <1>14 DEF PollOK

\* Pages that end with an error leave the rows that wait.
LEMMA FailPagesOK ==
  ASSUME NEW s, NEW n, StreamOK(s, n), NEW y \in FailPages(s)
  PROVE  PollOK(s, y, n)
<1> DEFINE t == [s EXCEPT !.pages = <<>>]
<1>1. y.stream = t /\ y.item.tag = "error"
  BY DEF FailPages, Yield, Item
<1>2. /\ t \in StreamType /\ t.pages = <<>> /\ t.format = s.format
      /\ t.next = s.next /\ t.buffer = s.buffer
  <2>1. s \in StreamType /\ <<>> \in Seq(Nat)
    BY DEF StreamOK
  <2> QED
    BY <2>1 DEF StreamType
<1> HIDE DEF t
<1>3. StreamOK(t, n)
  BY <1>2 DEF StreamOK, Ascending
<1>4. \A r : After(s, r) => After(t, r)
  BY <1>2 DEF After
<1> QED
  BY <1>1, <1>2, <1>3, <1>4 DEF PollOK

\* What a poll of a flight may do: a batch is gone past, with its rows or without, and only
\* empty ones before it.
LEMMA PollFlightOK ==
  ASSUME NEW s, NEW n, StreamOK(s, n), s.format = "flight", NEW y \in PollFlight(s)
  PROVE  PollOK(s, y, n)
<1>1. CASE s.buffer # <<>>
  <2>1. y = Yield(RowItem(Head(s.buffer)), [s EXCEPT !.buffer = Tail(@)])
    BY <1>1 DEF PollFlight
  <2>2. /\ y.stream = [s EXCEPT !.buffer = Tail(@)]
        /\ y.item.tag = "row" /\ y.item.row = Head(s.buffer)
    BY <2>1 DEF Yield, RowItem
  <2> QED
    BY <1>1, <2>2, PopOK
<1>2. CASE s.buffer = <<>>
  <2> DEFINE Empty(i) == \A j \in 1 .. i : s.pages[j] < s.next
             Past(i) == [s EXCEPT !.pages = SubSeq(@, i + 1, Len(@)),
                                  !.next = IF i = 0 THEN @ ELSE s.pages[i] + 1]
             First(i) == [Past(i) EXCEPT !.buffer = Numbers(s.next + 1, s.pages[i] - s.next)]
             reached == {i \in DOMAIN s.pages : Empty(i - 1)}
  <2>1. /\ s \in StreamType /\ s.pages \in Seq(Nat) /\ s.next \in Nat /\ s.next # 0 /\ n \in Nat
        /\ Len(s.pages) \in Nat /\ DOMAIN s.pages = 1 .. Len(s.pages)
        /\ \A i \in DOMAIN s.pages : s.pages[i] \in Nat
    BY SeqFacts DEF StreamOK, StreamType
  <2>2. \A i \in DOMAIN s.pages : s.next <= s.pages[i] + 1 /\ s.pages[i] <= n
    BY DEF StreamOK
  <2>3. ASSUME NEW i \in 0 .. Len(s.pages)
        PROVE  /\ Past(i) \in StreamType /\ Past(i).format = s.format /\ Past(i).buffer = <<>>
               /\ Past(i).next = IF i = 0 THEN s.next ELSE s.pages[i] + 1
               /\ Past(i).pages = SubSeq(s.pages, i + 1, Len(s.pages))
               /\ Len(Past(i).pages) = Len(s.pages) - i
               /\ \A j \in 1 .. Len(s.pages) - i : Past(i).pages[j] = s.pages[i + j]
    <3>1. /\ SubSeq(s.pages, i + 1, Len(s.pages)) \in Seq(Nat)
          /\ Len(SubSeq(s.pages, i + 1, Len(s.pages))) = Len(s.pages) - i
          /\ \A j \in 1 .. Len(s.pages) - i : SubSeq(s.pages, i + 1, Len(s.pages))[j] = s.pages[i + j]
      BY <2>1, SubSeqFacts
    <3>2. (IF i = 0 THEN s.next ELSE s.pages[i] + 1) \in Nat \ {0}
      BY <2>1
    <3>3. /\ Past(i).format = s.format /\ Past(i).buffer = s.buffer
          /\ Past(i).next = IF i = 0 THEN s.next ELSE s.pages[i] + 1
          /\ Past(i).pages = SubSeq(s.pages, i + 1, Len(s.pages))
      BY <2>1 DEF StreamType
    <3>4. Past(i) \in StreamType
      BY <2>1, <3>1, <3>2 DEF StreamType
    <3> QED
      BY <1>2, <3>1, <3>3, <3>4
  <2>4. \/ \E i \in reached : y = Yield(Item("stats"), Past(i - 1))
        \/ \E i \in reached : y = Yield(Item("error"), Past(i))
        \/ \E i \in reached : ~Empty(i) /\ y = Yield(RowItem(s.next), First(i))
        \/ y \in FailPages(s)
        \/ Empty(Len(s.pages)) /\ y = Yield(Item("end"), Past(Len(s.pages)))
    BY <1>2 DEF PollFlight
  <2>5. ASSUME NEW i \in 1 .. Len(s.pages) PROVE Passes(s, Past(i), i)
    <3>1. i \in 0 .. Len(s.pages) /\ i # 0
      BY <2>1
    <3> HIDE DEF Past
    <3>2. DOMAIN Past(i).buffer = {}
      BY <2>3, <3>1
    <3> QED
      BY <2>3, <3>1, <3>2 DEF Passes, Increasing
  <2>6. ASSUME NEW i \in 0 .. Len(s.pages)
        PROVE  /\ StreamOK(Past(i), n) /\ (Past(i).pages # <<>> => s.pages # <<>>)
               /\ \A r \in Nat : After(s, r) => After(Past(i), r)
               /\ Empty(i) => \A k \in Nat : Exact(s, k, n) => Exact(Past(i), k, n)
    <3>1. CASE i = 0
      <4> HIDE DEF Past, Empty
      <4>1. Past(i).pages = s.pages /\ Past(i).next = s.next /\ Past(i).buffer = s.buffer
        <5>1. Past(i).pages = SubSeq(s.pages, i + 1, Len(s.pages)) /\ i + 1 = 1
          BY <2>3, <3>1
        <5>2. SubSeq(s.pages, 1, Len(s.pages)) = s.pages
          BY <2>1, WholeSeq
        <5> QED
          BY <1>2, <2>3, <3>1, <5>1, <5>2
      <4> QED
        BY <2>3, <4>1 DEF StreamOK, After, Exact
    <3>2. CASE i # 0
      <4>1. i \in 1 .. Len(s.pages)
        BY <2>1, <3>2
      <4>2. Passes(s, Past(i), i)
        BY <2>5, <4>1
      <4> HIDE DEF Past
      <4>3. /\ StreamOK(Past(i), n) /\ s.pages # <<>>
            /\ \A r \in Nat : After(s, r) => After(Past(i), r)
            /\ s.pages[Len(s.pages)]
               = IF Past(i).pages = <<>> THEN Past(i).next - 1 ELSE Past(i).pages[Len(Past(i).pages)]
        BY <4>2, StreamAdvances
      <4>4. ASSUME Empty(i), NEW k \in Nat, Exact(s, k, n) PROVE Exact(Past(i), k, n)
        <5>1. Past(i).next = s.next
          <6>1. s.pages[i] < s.next
            BY <2>1, <4>1, <4>4
          <6>2. s.next <= s.pages[i] + 1 /\ s.pages[i] \in Nat
            BY <2>1, <2>2, <4>1
          <6>3. Past(i).next = s.pages[i] + 1
            BY <2>3, <3>2
          <6> QED
            BY <2>1, <6>1, <6>2, <6>3
        <5> QED
          BY <1>2, <2>3, <4>3, <4>4, <5>1 DEF Exact
      <4> QED
        BY <4>3, <4>4
    <3> QED
      BY <3>1, <3>2
  <2>7. CASE \E i \in reached : y = Yield(Item("stats"), Past(i - 1))
    <3>1. PICK i \in reached : y = Yield(Item("stats"), Past(i - 1))
      BY <2>7
    <3> HIDE DEF Past
    <3>2. i - 1 \in 0 .. Len(s.pages) /\ Empty(i - 1)
      BY <2>1, <3>1
    <3>3. y.stream = Past(i - 1) /\ y.item.tag = "stats"
      BY <3>1 DEF Yield, Item
    <3> HIDE DEF Empty, reached
    <3> QED
      BY <2>3, <2>6, <3>2, <3>3 DEF PollOK
  <2>8. CASE \E i \in reached : y = Yield(Item("error"), Past(i))
    <3>1. PICK i \in reached : y = Yield(Item("error"), Past(i))
      BY <2>8
    <3> HIDE DEF Past
    <3>2. i \in 0 .. Len(s.pages)
      BY <2>1, <3>1
    <3>3. y.stream = Past(i) /\ y.item.tag = "error"
      BY <3>1 DEF Yield, Item
    <3> HIDE DEF Empty, reached
    <3> QED
      BY <2>3, <2>6, <3>2, <3>3 DEF PollOK
  <2>9. CASE Empty(Len(s.pages)) /\ y = Yield(Item("end"), Past(Len(s.pages)))
    <3> DEFINE i == Len(s.pages)
    <3>1. i \in 0 .. Len(s.pages) /\ Empty(i)
      BY <2>1, <2>9
    <3> HIDE DEF Past
    <3>2. y.stream = Past(i) /\ y.item.tag = "end"
      BY <2>9 DEF Yield, Item
    <3> HIDE DEF Empty, i
    <3>3. ASSUME NEW k \in Nat, Exact(s, k, n) PROVE k = n /\ Exact(Past(i), k, n)
      <4>1. Exact(Past(i), k, n)
        BY <2>6, <3>1, <3>3
      <4>2. Past(i).buffer = <<>> /\ Len(Past(i).pages) = 0 /\ Past(i) \in StreamType
        BY <2>1, <2>3, <3>1 DEF i
      <4>3. Past(i).pages = <<>> /\ Past(i).next \in Nat
        BY <4>2, SeqFacts DEF StreamType
      <4> QED
        BY <4>1, <4>2, <4>3 DEF Exact
    <3> QED
      BY <2>3, <2>6, <3>1, <3>2, <3>3 DEF PollOK
  <2>10. CASE \E i \in reached : ~Empty(i) /\ y = Yield(RowItem(s.next), First(i))
    <3>1. PICK i \in reached : ~Empty(i) /\ y = Yield(RowItem(s.next), First(i))
      BY <2>10
    <3>2. y.stream = First(i) /\ y.item.tag = "row" /\ y.item.row = s.next
      BY <3>1 DEF Yield, RowItem
    <3>3. i \in 1 .. Len(s.pages) /\ s.next <= s.pages[i] /\ s.pages[i] \in Nat
      BY <2>1, <2>2, <3>1
    <3> DEFINE t == First(i)
               rows == s.pages[i] - s.next
    <3>4. rows \in Nat /\ s.next + 1 \in Nat /\ s.next + 1 # 0
      BY <2>1, <3>3
    <3>5. /\ Numbers(s.next + 1, rows) \in Seq(Nat) /\ Len(Numbers(s.next + 1, rows)) = rows
          /\ \A j \in 1 .. rows : Numbers(s.next + 1, rows)[j] = s.next + 1 + j - 1
      <4> HIDE DEF rows
      <4> QED
        BY <3>4, NumbersFacts
    <3>6. /\ t.pages = Past(i).pages /\ t.next = Past(i).next /\ t.format = Past(i).format
          /\ t.buffer = Numbers(s.next + 1, rows) /\ t \in StreamType
      <4> HIDE DEF Past
      <4>1. Past(i) \in StreamType
        BY <2>1, <2>3, <3>3
      <4> QED
        BY <3>5, <4>1 DEF StreamType
    <3> HIDE DEF t, First, Past
    <3>7. /\ t.next = s.pages[i] + 1 /\ t.format = s.format
          /\ Len(t.pages) = Len(s.pages) - i
          /\ \A j \in 1 .. Len(s.pages) - i : t.pages[j] = s.pages[i + j]
      <4>1. i \in 0 .. Len(s.pages) /\ i # 0
        BY <2>1, <3>3
      <4> QED
        BY <2>3, <3>6, <4>1
    <3>8. DOMAIN t.buffer = 1 .. rows /\ \A j \in 1 .. rows : t.buffer[j] = s.next + j
      BY <2>1, <3>4, <3>5, <3>6, SeqFacts
    <3>9. Increasing(t.buffer) /\ \A j \in DOMAIN t.buffer : t.buffer[j] < t.next /\ s.next < t.buffer[j]
      <4>1. Increasing(t.buffer)
        <5>1. ASSUME NEW j \in 1 .. rows, NEW l \in 1 .. rows, j < l PROVE t.buffer[j] < t.buffer[l]
          <6>1. t.buffer[j] = s.next + j /\ t.buffer[l] = s.next + l
            BY <3>8
          <6> HIDE DEF rows
          <6> QED
            BY <2>1, <3>4, <5>1, <6>1
        <5> QED
          BY <3>8, <5>1 DEF Increasing
      <4>2. t.next = s.next + rows + 1
        BY <2>1, <3>3, <3>7
      <4> HIDE DEF rows
      <4>3. ASSUME NEW j \in DOMAIN t.buffer PROVE t.buffer[j] < t.next /\ s.next < t.buffer[j]
        <5>1. t.buffer[j] = s.next + j /\ j \in 1 .. rows
          BY <3>8
        <5> QED
          BY <2>1, <3>4, <4>2, <5>1
      <4> QED
        BY <4>1, <4>3
    <3>10. Passes(s, t, i)
      <4>1. Len(t.pages) \in Nat /\ \A j \in DOMAIN t.buffer : t.buffer[j] \in Nat
        BY <2>1, <3>3, <3>7, <3>6, SeqFacts DEF StreamType
      <4> QED
        BY <2>1, <3>3, <3>6, <3>7, <3>9, <4>1 DEF Passes
    <3>11. /\ StreamOK(t, n) /\ s.pages # <<>>
           /\ \A r \in Nat : After(s, r) => After(t, r)
           /\ s.pages[Len(s.pages)] = IF t.pages = <<>> THEN t.next - 1 ELSE t.pages[Len(t.pages)]
      BY <3>10, StreamAdvances
    <3>12. s.next \in 1 .. n /\ After(t, s.next) /\ \A r \in Nat : After(s, r) => r < s.next
      <4>1. s.next <= n /\ s.next < t.next
        BY <2>1, <2>2, <3>3, <3>7
      <4> QED
        BY <2>1, <3>9, <4>1 DEF After
    <3>13. ASSUME NEW k \in Nat, Exact(s, k, n) PROVE s.next = k + 1 /\ Exact(t, k + 1, n)
      <4>1. s.next = k + 1 /\ n = s.pages[Len(s.pages)]
        BY <1>2, <2>1, <3>11, <3>13 DEF Exact
      <4>2. Len(t.buffer) = t.next - 1 - (k + 1)
        <5>1. Len(t.buffer) = s.pages[i] - s.next /\ t.next = s.pages[i] + 1
          BY <3>5, <3>6, <3>7
        <5> QED
          BY <2>1, <3>3, <4>1, <5>1
      <4>3. \A j \in DOMAIN t.buffer : t.buffer[j] = k + 1 + j
        BY <3>8, <4>1
      <4> QED
        BY <3>11, <4>1, <4>2, <4>3 DEF Exact
    <3>14. y.stream = t
      BY <3>2 DEF t
    <3> QED
      BY <3>2, <3>7, <3>11, <3>12, <3>13, <3>14 DEF PollOK
  <2> HIDE DEF Past, First, Empty, reached
  <2> QED
    BY <2>4, <2>7, <2>8, <2>9, <2>10, FailPagesOK
<1> QED
  BY <1>1, <1>2

\* Whatever the format, a poll hands out the next row, or says that there is none, or
\* fails; and what it leaves in the stream is still to come.
LEMMA PollIsOK ==
  ASSUME NEW s, NEW n, StreamOK(s, n), NEW y \in Poll(s)
  PROVE  PollOK(s, y, n)
<1>1. CASE s.format = "flight"
  BY <1>1, PollFlightOK DEF Poll
<1>2. CASE s.format # "flight" /\ Len(s.buffer) > 1
  <2>1. s.buffer # <<>>
    BY <1>2, SeqFacts
  <2> QED
    BY <1>2, <2>1, PopRowOK DEF Poll
<1>3. CASE s.format # "flight" /\ ~(Len(s.buffer) > 1) /\ s.pages # <<>>
  BY <1>3, TakePageOK, FailPagesOK DEF Poll
<1>4. CASE s.format # "flight" /\ ~(Len(s.buffer) > 1) /\ s.pages = <<>> /\ s.buffer # <<>>
  BY <1>4, PopRowOK DEF Poll
<1>5. CASE s.format # "flight" /\ ~(Len(s.buffer) > 1) /\ s.pages = <<>> /\ s.buffer = <<>>
  <2>1. y.stream = s /\ y.item.tag = "end"
    BY <1>5 DEF Poll, Yield, Item
  <2>2. \A k \in Nat : Exact(s, k, n) => k = n
    BY <1>5, SeqFacts DEF Exact, StreamOK, StreamType
  <2> QED
    BY <2>1, <2>2 DEF PollOK
<1> QED
  BY <1>1, <1>2, <1>3, <1>4, <1>5

-----------------------------------------------------------------------------
(* The rows that have left the stream, and those still to come *)

\* The rows h have left the stream s in order; all that it still has comes after them, and
\* the last row is not among them while there are pages to read.
Sound(h, s, n) ==
  /\ h \in Seq(Nat) /\ Increasing(h) /\ StreamOK(s, n)
  /\ \A i \in DOMAIN h : 0 < h[i] /\ h[i] <= n /\ After(s, h[i])
  /\ s.format # "flight" /\ s.pages # <<>> => \A i \in DOMAIN h : h[i] < n

\* None is missing.
Lossless(h, s, n) == (\A i \in DOMAIN h : h[i] = i) /\ Exact(s, Len(h), n)

\* A poll keeps this, with the row it hands out.
LEMMA PollSound ==
  ASSUME NEW h, NEW s, NEW n, Sound(h, s, n), NEW y \in Poll(s)
  PROVE  /\ y.item.tag \in {"stats", "row", "error", "end"}
         /\ y.item.tag # "row" => Sound(h, y.stream, n)
         /\ y.item.tag = "row" => y.item.row \in Nat /\ Sound(Append(h, y.item.row), y.stream, n)
         /\ Lossless(h, s, n) =>
              CASE y.item.tag = "stats" -> Lossless(h, y.stream, n)
                [] y.item.tag = "row"   -> Lossless(Append(h, y.item.row), y.stream, n)
                [] y.item.tag = "end"   -> Len(h) = n /\ Lossless(h, y.stream, n)
                [] OTHER                -> TRUE
<1>1. PollOK(s, y, n)
  BY PollIsOK DEF Sound
<1>2. /\ h \in Seq(Nat) /\ Len(h) \in Nat /\ DOMAIN h = 1 .. Len(h)
      /\ \A i \in DOMAIN h : h[i] \in Nat
  BY SeqFacts DEF Sound
<1>3. y.item.tag # "row" => Sound(h, y.stream, n)
  BY <1>1, <1>2 DEF Sound, PollOK
<1>4. ASSUME y.item.tag = "row"
      PROVE  y.item.row \in Nat /\ Sound(Append(h, y.item.row), y.stream, n)
  <2> DEFINE r == y.item.row
             g == Append(h, r)
  <2>1. r \in 1 .. n /\ n \in Nat /\ After(y.stream, r) /\ StreamOK(y.stream, n)
    BY <1>1, <1>4 DEF PollOK, Sound, StreamOK
  <2>2. r \in Nat
    BY <2>1
  <2>3. /\ g \in Seq(Nat) /\ DOMAIN g = 1 .. Len(h) + 1 /\ g[Len(h) + 1] = r
        /\ \A i \in 1 .. Len(h) : g[i] = h[i]
    BY <1>2, <2>2
  <2>4. \A i \in DOMAIN h : h[i] < r
    BY <1>1, <1>2, <1>4 DEF Sound, PollOK
  <2>5. Increasing(g)
    <3>1. ASSUME NEW i \in DOMAIN g, NEW j \in DOMAIN g, i < j PROVE g[i] < g[j]
      <4>1. i \in DOMAIN h /\ g[i] = h[i]
        BY <1>2, <2>3, <3>1
      <4>2. CASE j = Len(h) + 1
        BY <2>3, <2>4, <4>1, <4>2
      <4>3. CASE j \in DOMAIN h
        BY <1>2, <2>3, <3>1, <4>1, <4>3 DEF Sound, Increasing
      <4> QED
        BY <1>2, <2>3, <4>2, <4>3
    <3> QED
      BY <3>1 DEF Increasing
  <2>6. ASSUME NEW i \in DOMAIN g
        PROVE  /\ 0 < g[i] /\ g[i] <= n /\ After(y.stream, g[i])
               /\ y.stream.format # "flight" /\ y.stream.pages # <<>> => g[i] < n
    <3>1. CASE i = Len(h) + 1
      BY <1>1, <1>4, <2>1, <2>3, <3>1 DEF PollOK
    <3>2. CASE i \in DOMAIN h
      BY <1>1, <1>2, <2>3, <3>2 DEF PollOK, Sound
    <3> QED
      BY <1>2, <2>3, <3>1, <3>2
  <2> QED
    BY <2>1, <2>2, <2>3, <2>5, <2>6 DEF Sound
<1>5. ASSUME Lossless(h, s, n)
      PROVE  CASE y.item.tag = "stats" -> Lossless(h, y.stream, n)
               [] y.item.tag = "row"   -> Lossless(Append(h, y.item.row), y.stream, n)
               [] y.item.tag = "end"   -> Len(h) = n /\ Lossless(h, y.stream, n)
               [] OTHER                -> TRUE
  <2>1. CASE y.item.tag = "row"
    <3>1. y.item.row = Len(h) + 1 /\ Exact(y.stream, Len(h) + 1, n)
      BY <1>1, <1>2, <1>5, <2>1 DEF PollOK, Lossless
    <3>2. /\ DOMAIN Append(h, y.item.row) = 1 .. Len(h) + 1
          /\ Len(Append(h, y.item.row)) = Len(h) + 1
          /\ Append(h, y.item.row)[Len(h) + 1] = Len(h) + 1
          /\ \A i \in 1 .. Len(h) : Append(h, y.item.row)[i] = h[i]
      BY <1>2, <3>1
    <3>3. \A i \in 1 .. Len(h) + 1 : Append(h, y.item.row)[i] = i
      BY <1>2, <1>5, <3>2 DEF Lossless
    <3> QED
      BY <2>1, <3>1, <3>2, <3>3 DEF Lossless
  <2>2. CASE y.item.tag # "row"
    BY <1>1, <1>2, <1>5, <2>2 DEF PollOK, Lossless
  <2> QED
    BY <2>1, <2>2
<1> QED
  BY <1>1, <1>3, <1>4, <1>5 DEF PollOK

\* Rows that are given up are the last of those that have left the stream.
LEMMA PrefixSound ==
  ASSUME NEW h \in Seq(Nat), NEW g \in Seq(Nat), NEW s, NEW n, Sound(h \o g, s, n)
  PROVE  Sound(h, s, n)
<1>1. /\ Len(h) \in Nat /\ Len(g) \in Nat /\ DOMAIN h = 1 .. Len(h)
      /\ DOMAIN (h \o g) = 1 .. Len(h) + Len(g)
      /\ \A i \in DOMAIN h : (h \o g)[i] = h[i]
  OBVIOUS
<1>2. \A i \in DOMAIN h : i \in DOMAIN (h \o g)
  BY <1>1
<1> QED
  BY <1>1, <1>2 DEF Sound, Increasing

-----------------------------------------------------------------------------
(* The inductive invariant *)

CursorTypeOK ==
  /\ stream = <<>> \/ \E s \in StreamType : stream = <<s>>
  /\ buffer = <<>> \/ \E r \in Nat : buffer = <<r>>
  /\ fetch \in {"none", "execute", "one", "many", "all"}
  /\ size \in Nat /\ total \in Nat /\ fetched \in Seq(Nat) /\ got \in Seq(Nat)
  /\ failing \in BOOLEAN /\ raised \in BOOLEAN /\ ended \in BOOLEAN

\* What a call has in its hands; without a stream there is nothing to call for.
CallOK ==
  /\ fetch = "none" => fetched = <<>>
  /\ fetch # "none" => buffer = <<>>
  /\ fetch = "execute" => got = <<>> /\ fetched = <<>> /\ ~raised /\ ~ended
  /\ fetch = "one" => fetched = <<>>
  /\ failing => fetch = "all"
  /\ stream = <<>> => fetch = "none" /\ buffer = <<>>

\* The rows that have left the stream: those the program has, and those of the call, or
\* of the cursor.
Held == got \o (IF fetch = "none" THEN buffer ELSE fetched)

RowsOK ==
  IF stream = <<>>
  THEN /\ Increasing(got) /\ \A i \in DOMAIN got : 0 < got[i] /\ got[i] <= total
       /\ ~raised => Len(got) = total /\ \A i \in DOMAIN got : got[i] = i
  ELSE /\ Sound(Held, stream[1], total)
       /\ ~raised /\ ~failing => Lossless(Held, stream[1], total)

IInv == CursorTypeOK /\ CallOK /\ RowsOK /\ EndIsComplete

LEMMA InitIInv == CursorInit => IInv
<1> SUFFICES ASSUME CursorInit PROVE IInv
  OBVIOUS
<1> USE DEF IInv, CursorInit
<1>1. CursorTypeOK
  <2>1. fetched \in Seq(Nat) /\ got \in Seq(Nat)
    OBVIOUS
  <2> QED
    BY <2>1 DEF CursorTypeOK
<1>2. CallOK
  BY DEF CallOK
<1>3. RowsOK /\ EndIsComplete
  BY DEF RowsOK, EndIsComplete, Increasing
<1> QED
  BY <1>1, <1>2, <1>3

-----------------------------------------------------------------------------
(* One lemma per action *)

\* Nothing is left of the statement before.
LEMMA ExecuteFailsKeeps == ASSUME IInv, ExecuteFails PROVE IInv'
<1> USE DEF IInv, ExecuteFails, NewStatement, Reset, NewResult, fetchVars
<1>1. CursorTypeOK'
  <2>1. fetched' \in Seq(Nat) /\ got' \in Seq(Nat)
    BY DEF CursorTypeOK
  <2> QED
    BY <2>1 DEF CursorTypeOK
<1>2. CallOK'
  BY DEF CallOK
<1>3. RowsOK' /\ EndIsComplete'
  BY DEF RowsOK, EndIsComplete, Increasing
<1> QED
  BY <1>1, <1>2, <1>3

LEMMA ExecuteManyKeeps == ASSUME IInv, ExecuteMany PROVE IInv'
<1>1. /\ stream' = <<>> /\ buffer' = <<>> /\ total' = 0 /\ got' = <<>> /\ ended' = FALSE
      /\ fetch = "none" /\ UNCHANGED fetchVars
  BY DEF ExecuteMany, NewStatement, Reset, NewResult
<1>2. raised' \in BOOLEAN
  BY DEF ExecuteMany, NewResult
<1>3. CursorTypeOK /\ CallOK
  BY DEF IInv
<1>4. CursorTypeOK'
  <2>1. fetched' \in Seq(Nat) /\ got' \in Seq(Nat)
    BY <1>1, <1>3 DEF CursorTypeOK, fetchVars
  <2> QED
    BY <1>1, <1>2, <1>3, <2>1 DEF CursorTypeOK, fetchVars
<1>5. CallOK'
  BY <1>1, <1>3 DEF CallOK, fetchVars
<1>6. RowsOK' /\ EndIsComplete'
  BY <1>1 DEF RowsOK, EndIsComplete, Increasing
<1> QED
  BY <1>4, <1>5, <1>6 DEF IInv

LEMMA CloseKeeps == ASSUME IInv, Close PROVE IInv'
<1> USE DEF IInv, Close, Reset, NewResult, fetchVars
<1>1. CursorTypeOK'
  <2>1. fetched' \in Seq(Nat) /\ got' \in Seq(Nat)
    BY DEF CursorTypeOK
  <2> QED
    BY <2>1 DEF CursorTypeOK
<1>2. CallOK'
  BY DEF CallOK
<1>3. RowsOK' /\ EndIsComplete'
  BY DEF RowsOK, EndIsComplete, Increasing
<1> QED
  BY <1>1, <1>2, <1>3

\* A fresh stream has all rows to come.
LEMMA ExecuteKeeps == ASSUME IInv, Execute PROVE IInv'
<1> USE DEF IInv, Execute, NewStatement, Reset, NewResult
<1>1. PICK r \in Results, f \in {"json", "arrow", "flight"} :
        /\ stream' = <<NewStream(r, f)>>
        /\ total' = IF r = <<>> THEN 0 ELSE Last(r)
  OBVIOUS
<1> DEFINE s == NewStream(r, f)
           n == IF r = <<>> THEN 0 ELSE Last(r)
<1>2. /\ r \in Seq(Nat) /\ Len(r) \in Nat /\ DOMAIN r = 1 .. Len(r) /\ (r = <<>> <=> Len(r) = 0)
      /\ \A i \in DOMAIN r : r[i] \in Nat
  BY SeqFacts
<1>3. /\ s \in StreamType /\ s.pages = r /\ s.format = f /\ s.next = 1 /\ s.buffer = <<>>
  BY <1>2 DEF NewStream, StreamType
<1>4. n \in Nat /\ \A i \in DOMAIN r : r[i] <= n
  <2>1. CASE r = <<>>
    BY <1>2, <2>1
  <2>2. CASE r # <<>>
    <3>1. n = r[Len(r)] /\ Len(r) \in DOMAIN r
      BY <1>2, <2>2 DEF Last
    <3>2. Ascending(r)
      OBVIOUS
    <3>3. ASSUME NEW i \in DOMAIN r PROVE r[i] <= n
      BY <1>2, <3>1, <3>2 DEF Ascending
    <3> QED
      BY <1>2, <3>1, <3>3
  <2> QED
    BY <2>1, <2>2
<1>5. n = IF r = <<>> THEN 0 ELSE r[Len(r)]
  BY DEF Last
<1> HIDE DEF s, n
<1>6. StreamOK(s, n)
  <2>1. Ascending(r)
    OBVIOUS
  <2> QED
    BY <1>2, <1>3, <1>4, <2>1 DEF StreamOK, Increasing
<1>7. Exact(s, 0, n)
  BY <1>2, <1>3, <1>5 DEF Exact
<1>8. stream' = <<s>> /\ total' = n /\ Held' = <<>>
  BY <1>1 DEF s, n, Held, CallOK
<1>9. Sound(<<>>, s, n) /\ Lossless(<<>>, s, n)
  BY <1>6, <1>7 DEF Sound, Lossless, Increasing
<1>10. RowsOK'
  BY <1>8, <1>9 DEF RowsOK
<1>11. CursorTypeOK'
  <2>1. fetched' \in Seq(Nat) /\ got' \in Seq(Nat)
    BY DEF CursorTypeOK
  <2>2. stream' = <<s>> /\ s \in StreamType /\ total' \in Nat
    BY <1>3, <1>4, <1>8
  <2> QED
    BY <2>1, <2>2 DEF CursorTypeOK
<1>12. CallOK' /\ EndIsComplete'
  BY <1>8 DEF CallOK, EndIsComplete
<1> QED
  BY <1>10, <1>11, <1>12

\* How rows are put together.
LEMMA ConcatLaws ==
  /\ <<>> \in Seq(Nat)
  /\ \A s \in Seq(Nat) : s \o <<>> = s /\ <<>> \o s = s
  /\ \A s \in Seq(Nat), r \in Nat : <<r>> \in Seq(Nat) /\ s \o <<r>> = Append(s, r)
  /\ \A s, t \in Seq(Nat) : s \o t \in Seq(Nat)
  /\ \A s, t \in Seq(Nat), r \in Nat :
       Append(t, r) \in Seq(Nat) /\ s \o Append(t, r) = Append(s \o t, r)
OBVIOUS

\* Without a loss there are no more rows than the result has.
LEMMA LosslessBound ==
  ASSUME NEW h, NEW s, NEW n, Sound(h, s, n), Lossless(h, s, n)
  PROVE  Len(h) \in Nat /\ Len(h) <= n
<1>1. h \in Seq(Nat) /\ Len(h) \in Nat /\ DOMAIN h = 1 .. Len(h) /\ n \in Nat
  BY SeqFacts DEF Sound, StreamOK
<1>2. CASE Len(h) = 0
  BY <1>1, <1>2
<1>3. CASE Len(h) # 0
  <2>1. Len(h) \in DOMAIN h
    BY <1>1, <1>3
  <2> QED
    BY <1>1, <2>1 DEF Sound, Lossless
<1> QED
  BY <1>2, <1>3

\* What is in the hands of the program, and of the call or the cursor, are rows.
LEMMA HandsType ==
  ASSUME IInv
  PROVE  /\ got \in Seq(Nat) /\ fetched \in Seq(Nat) /\ buffer \in Seq(Nat)
         /\ (IF fetch = "none" THEN buffer ELSE fetched) \in Seq(Nat)
<1>1. got \in Seq(Nat) /\ fetched \in Seq(Nat)
  BY DEF IInv, CursorTypeOK
<1>2. buffer \in Seq(Nat)
  <2>1. CASE buffer = <<>>
    BY <2>1, ConcatLaws
  <2>2. CASE \E r \in Nat : buffer = <<r>>
    BY <2>2, ConcatLaws
  <2> QED
    BY <2>1, <2>2 DEF IInv, CursorTypeOK
<1> QED
  BY <1>1, <1>2

\* What holds while there is a stream.
LEMMA OpenFacts ==
  ASSUME IInv, stream # <<>>
  PROVE  /\ stream[1] \in StreamType /\ stream = <<stream[1]>>
         /\ Held \in Seq(Nat) /\ Sound(Held, stream[1], total)
         /\ ~raised /\ ~failing => Lossless(Held, stream[1], total)
BY DEF IInv, CursorTypeOK, RowsOK, Sound

\* Once a fetch has told the end, nothing is in anybody's hands.
LEMMA NothingHeld ==
  ASSUME IInv, ended, ~raised, ~failing
  PROVE  Len(got) = total /\ (IF fetch = "none" THEN buffer ELSE fetched) = <<>>
<1> DEFINE g == IF fetch = "none" THEN buffer ELSE fetched
<1>1. Len(got) = total
  BY DEF IInv, EndIsComplete
<1>2. got \in Seq(Nat) /\ g \in Seq(Nat)
  BY HandsType
<1>3. CASE stream = <<>>
  BY <1>1, <1>3 DEF IInv, CallOK
<1>4. CASE stream # <<>>
  <2>1. Held = got \o g
    BY DEF Held
  <2> HIDE DEF g
  <2>2. Len(Held) <= total /\ Len(Held) = Len(got) + Len(g)
    BY <1>2, <1>4, <2>1, OpenFacts, LosslessBound, ConcatFacts
  <2>3. Len(g) = 0
    BY <1>1, <1>2, <2>2, SeqFacts
  <2>4. g = <<>>
    BY <1>2, <2>3, SeqFacts
  <2> QED
    BY <1>1, <2>4 DEF g
<1> QED
  BY <1>3, <1>4

\* The first row is kept, to be fetched first.
LEMMA PollFirstKeeps == ASSUME IInv, PollFirst PROVE IInv'
<1> USE DEF PollFirst
<1>1. /\ CursorTypeOK /\ CallOK /\ stream # <<>> /\ got = <<>> /\ fetched = <<>> /\ ~raised /\ ~ended
      /\ ~failing /\ Held = <<>> /\ total \in Nat
  BY ConcatLaws DEF IInv, CallOK, CursorTypeOK, Held
<1>2. PICK y \in Poll(stream[1]) :
        /\ stream' = IF y.item.tag = "error" THEN <<>> ELSE <<y.stream>>
        /\ buffer' = IF y.item.tag = "row" THEN <<y.item.row>> ELSE <<>>
        /\ raised' = (y.item.tag = "error")
        /\ fetch' = IF y.item.tag = "stats" THEN fetch ELSE "none"
  OBVIOUS
<1>3. Sound(Held, stream[1], total) /\ Lossless(Held, stream[1], total)
  BY <1>1, OpenFacts
<1>4. CASE y.item.tag = "error"
  <2>1. stream' = <<>> /\ buffer' = <<>> /\ raised' = TRUE /\ fetch' = "none"
    BY <1>2, <1>4
  <2>2. CursorTypeOK'
    BY <1>1, <2>1 DEF CursorTypeOK
  <2>3. CallOK'
    BY <1>1, <2>1 DEF CallOK
  <2>4. RowsOK' /\ EndIsComplete'
    BY <1>1, <2>1 DEF RowsOK, EndIsComplete, Increasing
  <2> QED
    BY <2>2, <2>3, <2>4 DEF IInv
<1>5. CASE y.item.tag = "row"
  <2>1. /\ stream' = <<y.stream>> /\ buffer' = <<y.item.row>> /\ raised' = FALSE /\ fetch' = "none"
        /\ y.item.row \in Nat
    BY <1>2, <1>3, <1>5, PollSound
  <2>2. Held' = Append(Held, y.item.row)
    BY <1>1, <2>1, ConcatLaws DEF Held
  <2>3. Sound(Held', y.stream, total) /\ Lossless(Held', y.stream, total)
    BY <1>2, <1>3, <1>5, <2>2, PollSound
  <2>4. y.stream \in StreamType
    BY <2>3 DEF Sound, StreamOK
  <2>5. CursorTypeOK'
    BY <1>1, <2>1, <2>4 DEF CursorTypeOK
  <2>6. CallOK'
    BY <1>1, <2>1 DEF CallOK
  <2>7. RowsOK' /\ EndIsComplete'
    BY <1>1, <2>1, <2>3 DEF RowsOK, EndIsComplete
  <2> QED
    BY <2>5, <2>6, <2>7 DEF IInv
<1>6. CASE y.item.tag \in {"stats", "end"}
  <2>1. /\ stream' = <<y.stream>> /\ buffer' = <<>> /\ raised' = FALSE /\ fetch' \in {"none", "execute"}
    BY <1>2, <1>6
  <2>2. Held' = Held
    BY <1>1, <2>1, ConcatLaws DEF Held
  <2>3. Sound(Held', y.stream, total) /\ Lossless(Held', y.stream, total)
    BY <1>2, <1>3, <1>6, <2>2, PollSound
  <2>4. y.stream \in StreamType
    BY <2>3 DEF Sound, StreamOK
  <2>5. CursorTypeOK'
    BY <1>1, <2>1, <2>4 DEF CursorTypeOK
  <2>6. CallOK'
    BY <1>1, <2>1 DEF CallOK
  <2>7. RowsOK' /\ EndIsComplete'
    BY <1>1, <2>1, <2>3 DEF RowsOK, EndIsComplete
  <2> QED
    BY <2>5, <2>6, <2>7 DEF IInv
<1> QED
  BY <1>2, <1>3, <1>4, <1>5, <1>6, PollSound

\* There is nothing more to read: the program has what the result had, or was told of an
\* error.
LEMMA EndWithoutStream ==
  ASSUME IInv, fetch = "none", stream = <<>>,
         stream' = stream, total' = total, raised' = raised, buffer' = <<>>,
         fetch' = "none", fetched' = <<>>, failing' = FALSE, got' = got, ended' \in BOOLEAN, size' = size
  PROVE  IInv'
<1>1. CursorTypeOK'
  <2>1. fetched' \in Seq(Nat) /\ got' \in Seq(Nat)
    BY HandsType, ConcatLaws
  <2> QED
    BY <2>1 DEF IInv, CursorTypeOK
<1>2. CallOK'
  BY DEF CallOK
<1>3. RowsOK' /\ EndIsComplete'
  BY DEF IInv, RowsOK, EndIsComplete
<1> QED
  BY <1>1, <1>2, <1>3 DEF IInv

\* The row kept changes hands.
LEMMA BeginFetchKeeps ==
  ASSUME IInv, fetch = "none", stream # <<>>,
         stream' = stream, total' = total, buffer' = <<>>,
         NEW kind \in {"one", "many", "all"}, NEW n \in Nat, BeginFetch(kind, n),
         kind = "one" => buffer = <<>>
  PROVE  IInv'
<1>1. /\ fetch' = kind /\ size' = n /\ fetched' = buffer
      /\ failing' = failing /\ got' = got /\ raised' = raised /\ ended' = ended
  BY DEF BeginFetch
<1>2. Held' = Held
  BY <1>1 DEF Held
<1>3. CursorTypeOK'
  <2>1. fetched' \in Seq(Nat) /\ got' \in Seq(Nat)
    BY <1>1, HandsType
  <2> QED
    BY <1>1, <2>1 DEF IInv, CursorTypeOK
<1>4. CallOK'
  BY <1>1 DEF IInv, CallOK
<1>5. RowsOK' /\ EndIsComplete'
  BY <1>1, <1>2 DEF IInv, RowsOK, EndIsComplete
<1> QED
  BY <1>3, <1>4, <1>5 DEF IInv

\* The row kept is the first to be fetched; without a stream there is none.
LEMMA FetchOneKeeps == ASSUME IInv, FetchOne PROVE IInv'
<1>1. CursorTypeOK /\ CallOK /\ RowsOK /\ EndIsComplete /\ fetch = "none" /\ fetched = <<>>
  BY DEF IInv, FetchOne, CallOK
<1>2. stream' = stream /\ total' = total /\ raised' = raised
  BY DEF FetchOne, Return, BeginFetch
<1>3. CASE buffer # <<>>
  <2>1. PICK r \in Nat : buffer = <<r>>
    BY <1>1, <1>3 DEF CursorTypeOK
  <2>2. /\ fetch' = "none" /\ fetched' = <<>> /\ failing' = FALSE /\ buffer' = <<>>
        /\ got' = got \o <<r>> /\ ended' = ended /\ size' = size
    <3>1. Last(<<r>>) = r /\ Front(<<r>>) = <<>>
      BY DEF Last, Front
    <3>2. /\ Return(<<Last(buffer)>>, FALSE) /\ buffer' = Front(buffer)
      BY <1>3 DEF FetchOne
    <3>3. ended \in BOOLEAN
      BY <1>1 DEF CursorTypeOK
    <3> QED
      BY <2>1, <3>1, <3>2, <3>3 DEF Return
  <2>3. stream # <<>> /\ ~failing
    BY <1>1, <1>3 DEF CallOK
  <2>4. got \in Seq(Nat) /\ got' \in Seq(Nat)
    BY <2>2, HandsType, ConcatLaws
  <2>5. Held = got \o <<r>> /\ Held' = Held
    BY <1>1, <2>1, <2>2, <2>4, ConcatLaws DEF Held
  <2>6. CursorTypeOK'
    <3>1. fetched' \in Seq(Nat)
      BY <2>2, ConcatLaws
    <3> QED
      BY <1>1, <1>2, <2>2, <2>4, <3>1 DEF CursorTypeOK
  <2>7. CallOK'
    BY <1>1, <1>2, <2>2, <2>3 DEF CallOK
  <2>8. RowsOK'
    BY <1>1, <1>2, <2>2, <2>3, <2>5 DEF RowsOK
  <2>9. EndIsComplete'
    <3>1. ~(ended /\ ~raised)
      BY <1>1, <1>3, <2>3, NothingHeld
    <3> QED
      BY <1>2, <2>2, <3>1 DEF EndIsComplete
  <2> QED
    BY <2>6, <2>7, <2>8, <2>9 DEF IInv
<1>4. CASE buffer = <<>> /\ stream = <<>>
  <2>1. /\ fetch' = "none" /\ fetched' = <<>> /\ failing' = FALSE /\ buffer' = <<>>
        /\ got' = got \o <<>> /\ ended' = TRUE /\ size' = size
    BY <1>4 DEF FetchOne, Return
  <2>2. got' = got
    BY <2>1, HandsType, ConcatLaws
  <2> QED
    BY <1>1, <1>2, <1>4, <2>1, <2>2, EndWithoutStream
<1>5. CASE buffer = <<>> /\ stream # <<>>
  <2>1. BeginFetch("one", 1) /\ buffer' = <<>>
    BY <1>5 DEF FetchOne
  <2> QED
    BY <1>1, <1>2, <1>5, <2>1, BeginFetchKeeps
<1> QED
  BY <1>3, <1>4, <1>5

LEMMA FetchManyKeeps == ASSUME IInv, FetchMany PROVE IInv'
<1>1. CursorTypeOK /\ CallOK /\ RowsOK /\ EndIsComplete /\ fetch = "none" /\ fetched = <<>>
  BY DEF IInv, FetchMany, CallOK
<1>2. stream' = stream /\ total' = total /\ raised' = raised /\ buffer' = <<>>
  BY DEF FetchMany, Return, BeginFetch
<1>3. PICK n \in Sizes :
        IF stream = <<>> THEN Return(buffer, Len(buffer) < n) ELSE BeginFetch("many", n)
  BY DEF FetchMany
<1>4. CASE stream = <<>>
  <2>1. buffer = <<>>
    BY <1>1, <1>4 DEF CallOK
  <2>2. /\ fetch' = "none" /\ fetched' = <<>> /\ failing' = FALSE
        /\ got' = got \o <<>> /\ ended' \in BOOLEAN /\ size' = size
    BY <1>3, <1>4, <2>1 DEF Return
  <2>3. got' = got
    BY <2>2, HandsType, ConcatLaws
  <2> QED
    BY <1>1, <1>2, <1>4, <2>2, <2>3, EndWithoutStream
<1>5. CASE stream # <<>>
  <2>1. BeginFetch("many", n) /\ n \in Nat
    BY <1>3, <1>5
  <2> QED
    BY <1>1, <1>2, <1>5, <2>1, BeginFetchKeeps
<1> QED
  BY <1>4, <1>5

LEMMA FetchAllKeeps == ASSUME IInv, FetchAll PROVE IInv'
<1>1. CursorTypeOK /\ CallOK /\ RowsOK /\ EndIsComplete /\ fetch = "none" /\ fetched = <<>>
  BY DEF IInv, FetchAll, CallOK
<1>2. stream' = stream /\ total' = total /\ raised' = raised /\ buffer' = <<>>
  BY DEF FetchAll, Return, BeginFetch
<1>3. CASE stream = <<>>
  <2>1. /\ fetch' = "none" /\ fetched' = <<>> /\ failing' = FALSE
        /\ got' = got \o <<>> /\ ended' = TRUE /\ size' = size
    BY <1>3 DEF FetchAll, Return
  <2>2. got' = got
    BY <2>1, HandsType, ConcatLaws
  <2> QED
    BY <1>1, <1>2, <1>3, <2>1, <2>2, EndWithoutStream
<1>4. CASE stream # <<>>
  <2>1. BeginFetch("all", 0)
    BY <1>4 DEF FetchAll
  <2> QED
    BY <1>1, <1>2, <1>4, <2>1, BeginFetchKeeps
<1> QED
  BY <1>3, <1>4

LEMMA ManyIsFullKeeps == ASSUME IInv, ManyIsFull PROVE IInv'
<1>1. /\ CursorTypeOK /\ CallOK /\ RowsOK /\ EndIsComplete /\ fetch = "many"
      /\ buffer = <<>> /\ stream # <<>> /\ ~failing
  BY DEF IInv, ManyIsFull, CallOK
<1>2. /\ fetch' = "none" /\ fetched' = <<>> /\ failing' = FALSE /\ got' = got \o fetched
      /\ ended' = ended /\ size' = size /\ raised' = raised
      /\ stream' = stream /\ buffer' = buffer /\ total' = total
  BY <1>1 DEF ManyIsFull, Return, CursorTypeOK
<1>3. got \in Seq(Nat) /\ fetched \in Seq(Nat) /\ got' \in Seq(Nat)
  BY <1>2, HandsType, ConcatLaws
<1>4. Held' = Held
  BY <1>1, <1>2, <1>3, ConcatLaws DEF Held
<1>5. CursorTypeOK'
  <2>1. fetched' \in Seq(Nat)
    BY <1>2, ConcatLaws
  <2> QED
    BY <1>1, <1>2, <1>3, <2>1 DEF CursorTypeOK
<1>6. CallOK'
  BY <1>1, <1>2 DEF CallOK
<1>7. RowsOK'
  BY <1>1, <1>2, <1>4 DEF RowsOK
<1>8. EndIsComplete'
  <2>1. ASSUME ended, ~raised PROVE Len(got) = total /\ got' = got
    BY <1>1, <1>2, <1>3, <2>1, NothingHeld, ConcatLaws
  <2> QED
    BY <1>2, <2>1 DEF EndIsComplete
<1> QED
  BY <1>5, <1>6, <1>7, <1>8 DEF IInv

\* A fetch polls: what the stream hands out, with the rows that have left it.
LEMMA FetchPolls ==
  ASSUME IInv, fetch \in {"one", "many", "all"}, NEW y \in Poll(stream[1])
  PROVE  /\ CursorTypeOK /\ CallOK /\ EndIsComplete /\ buffer = <<>> /\ stream # <<>>
         /\ Held = got \o fetched /\ got \in Seq(Nat) /\ fetched \in Seq(Nat)
         /\ y.item.tag \in {"stats", "row", "error", "end"} /\ y.stream \in StreamType
         /\ y.item.tag # "row" => Sound(Held, y.stream, total)
         /\ y.item.tag = "row" =>
              y.item.row \in Nat /\ Sound(Append(Held, y.item.row), y.stream, total)
         /\ ~raised /\ ~failing =>
              CASE y.item.tag = "stats" -> Lossless(Held, y.stream, total)
                [] y.item.tag = "row"   -> Lossless(Append(Held, y.item.row), y.stream, total)
                [] y.item.tag = "end"   -> Len(Held) = total /\ Lossless(Held, y.stream, total)
                [] OTHER                -> TRUE
<1>1. CursorTypeOK /\ CallOK /\ EndIsComplete /\ buffer = <<>> /\ stream # <<>>
  BY DEF IInv, CallOK
<1>2. Held = got \o fetched /\ got \in Seq(Nat) /\ fetched \in Seq(Nat)
  BY HandsType DEF Held
<1>3. Sound(Held, stream[1], total) /\ (~raised /\ ~failing => Lossless(Held, stream[1], total))
  BY <1>1, OpenFacts
<1>4. y.item.tag \in {"stats", "row", "error", "end"}
  BY <1>3, PollSound
<1>5. y.item.tag # "row" => Sound(Held, y.stream, total)
  BY <1>3, PollSound
<1>6. y.item.tag = "row" =>
        y.item.row \in Nat /\ Sound(Append(Held, y.item.row), y.stream, total)
  BY <1>3, PollSound
<1>7. ~raised /\ ~failing =>
        CASE y.item.tag = "stats" -> Lossless(Held, y.stream, total)
          [] y.item.tag = "row"   -> Lossless(Append(Held, y.item.row), y.stream, total)
          [] y.item.tag = "end"   -> Len(Held) = total /\ Lossless(Held, y.stream, total)
          [] OTHER                -> TRUE
  BY <1>3, PollSound
<1>8. y.stream \in StreamType
  BY <1>5, <1>6 DEF Sound, StreamOK
<1> QED
  BY <1>1, <1>2, <1>4, <1>5, <1>6, <1>7, <1>8

\* An end that was told stays true: no row comes after it.
LEMMA NoRowAfterEnd ==
  ASSUME IInv, fetch \in {"one", "many", "all"}, NEW y \in Poll(stream[1]),
         y.item.tag = "row", ended, ~raised, ~failing
  PROVE  FALSE
<1>1. Len(got) = total /\ fetched = <<>>
  BY NothingHeld
<1>2. /\ Held = got /\ got \in Seq(Nat) /\ y.item.row \in Nat
      /\ Sound(Append(got, y.item.row), y.stream, total)
      /\ Lossless(Append(got, y.item.row), y.stream, total)
  BY <1>1, FetchPolls, ConcatLaws
<1>3. Len(Append(got, y.item.row)) = Len(got) + 1 /\ Len(got) \in Nat
  BY <1>2, AppendFacts, SeqFacts
<1>4. Len(Append(got, y.item.row)) <= total
  BY <1>2, LosslessBound
<1> QED
  BY <1>1, <1>3, <1>4

\* A fetch that goes on with the stream, its rows in the call's hands.
LEMMA ContinueKeeps ==
  ASSUME IInv, fetch \in {"one", "many", "all"}, NEW y \in Poll(stream[1]),
         stream' = <<y.stream>>, NEW result, NEW err \in BOOLEAN, Continue(result, err),
         UNCHANGED <<buffer, total>>,
         err => fetch = "all", failing => err,
         \/ y.item.tag = "row" /\ result = Append(fetched, y.item.row) /\ fetch # "one"
         \/ y.item.tag = "stats" /\ result = fetched
         \/ y.item.tag = "error" /\ result = fetched /\ err
  PROVE  IInv'
<1>1. /\ fetched' = result /\ failing' = err /\ fetch' = fetch /\ size' = size /\ got' = got
      /\ raised' = raised /\ ended' = ended /\ buffer' = buffer /\ total' = total
  BY DEF Continue
<1>2. /\ CursorTypeOK /\ CallOK /\ EndIsComplete /\ buffer = <<>>
      /\ Held = got \o fetched /\ got \in Seq(Nat) /\ fetched \in Seq(Nat)
      /\ y.stream \in StreamType
  BY FetchPolls
<1>3. Held' = got \o result
  BY <1>1 DEF Held
<1>4. /\ result \in Seq(Nat)
      /\ Sound(Held', y.stream, total)
      /\ ~raised /\ ~err => Lossless(Held', y.stream, total)
  <2>1. CASE y.item.tag = "row"
    <3>1. result = Append(fetched, y.item.row) /\ y.item.row \in Nat
      BY <2>1, FetchPolls
    <3>2. Held' = Append(Held, y.item.row) /\ result \in Seq(Nat)
      BY <1>2, <1>3, <3>1, ConcatLaws
    <3> QED
      BY <2>1, <3>2, FetchPolls
  <2>2. CASE y.item.tag # "row"
    <3>1. Held' = Held
      BY <1>2, <1>3, <2>2
    <3> QED
      BY <1>2, <2>2, <3>1, FetchPolls
  <2> QED
    BY <2>1, <2>2
<1>5. CursorTypeOK'
  BY <1>1, <1>2, <1>4 DEF CursorTypeOK
<1>6. CallOK'
  <2>1. fetch = "one" => result = <<>>
    BY <1>2 DEF CallOK
  <2> QED
    BY <1>1, <1>2, <2>1 DEF CallOK
<1>7. RowsOK' /\ EndIsComplete'
  BY <1>1, <1>2, <1>4 DEF RowsOK, EndIsComplete
<1> QED
  BY <1>5, <1>6, <1>7 DEF IInv

\* A fetch that returns and leaves the stream open: at a row, or at the end.
LEMMA ReturnKeeps ==
  ASSUME IInv, fetch \in {"one", "many"}, NEW y \in Poll(stream[1]),
         stream' = <<y.stream>>, NEW result, NEW last \in BOOLEAN, Return(result, last),
         UNCHANGED <<buffer, total>>,
         \/ y.item.tag = "row" /\ fetch = "one" /\ result = <<y.item.row>> /\ ~last
         \/ y.item.tag = "end" /\ result = fetched
  PROVE  IInv'
<1>1. /\ CursorTypeOK /\ CallOK /\ EndIsComplete /\ buffer = <<>> /\ ~failing
      /\ Held = got \o fetched /\ got \in Seq(Nat) /\ fetched \in Seq(Nat)
      /\ y.stream \in StreamType
  BY FetchPolls DEF CallOK
<1>2. /\ fetch' = "none" /\ fetched' = <<>> /\ failing' = FALSE /\ got' = got \o result
      /\ ended' = (ended \/ last) /\ size' = size /\ raised' = raised
      /\ buffer' = <<>> /\ total' = total
  BY <1>1 DEF Return
<1>3. CASE y.item.tag = "row"
  <2>1. fetched = <<>> /\ result = <<y.item.row>> /\ y.item.row \in Nat /\ ended' = ended
    BY <1>1, <1>2, <1>3, FetchPolls DEF CallOK, CursorTypeOK
  <2>2. Held = got /\ got' = Append(got, y.item.row) /\ got' \in Seq(Nat)
    BY <1>1, <1>2, <2>1, ConcatLaws
  <2>3. Held' = Append(Held, y.item.row)
    BY <1>2, <2>2, ConcatLaws DEF Held
  <2>4. /\ Sound(Held', y.stream, total)
        /\ ~raised => Lossless(Held', y.stream, total)
    BY <1>1, <1>3, <2>3, FetchPolls
  <2>5. CursorTypeOK' /\ CallOK'
    <3>1. fetched' \in Seq(Nat)
      BY <1>2, ConcatLaws
    <3>2. CursorTypeOK'
      BY <1>1, <1>2, <2>1, <2>2, <3>1 DEF CursorTypeOK
    <3> QED
      BY <1>1, <1>2, <3>2 DEF CallOK
  <2>6. RowsOK'
    BY <1>1, <1>2, <2>4 DEF RowsOK
  <2>7. EndIsComplete'
    BY <1>1, <1>2, <1>3, <2>1, NoRowAfterEnd DEF EndIsComplete
  <2> QED
    BY <2>5, <2>6, <2>7 DEF IInv
<1>4. CASE y.item.tag = "end"
  <2>1. result = fetched /\ got' = Held /\ got' \in Seq(Nat)
    BY <1>1, <1>2, <1>4, ConcatLaws
  <2>2. Held' = Held
    BY <1>2, <2>1, ConcatLaws DEF Held
  <2>3. /\ Sound(Held', y.stream, total)
        /\ ~raised => Len(Held) = total /\ Lossless(Held', y.stream, total)
    BY <1>1, <1>4, <2>2, FetchPolls
  <2>4. CursorTypeOK' /\ CallOK'
    <3>1. fetched' \in Seq(Nat) /\ ended' \in BOOLEAN
      BY <1>1, <1>2, ConcatLaws DEF CursorTypeOK
    <3>2. CursorTypeOK'
      BY <1>1, <1>2, <2>1, <3>1 DEF CursorTypeOK
    <3> QED
      BY <1>1, <1>2, <3>2 DEF CallOK
  <2>5. RowsOK'
    BY <1>1, <1>2, <2>3 DEF RowsOK
  <2>6. EndIsComplete'
    BY <1>1, <1>2, <2>1, <2>3 DEF EndIsComplete
  <2> QED
    BY <2>4, <2>5, <2>6 DEF IInv
<1> QED
  BY <1>3, <1>4

\* The rows collected are given up.
LEMMA PollOneOrManyKeeps == ASSUME IInv, PollOneOrMany PROVE IInv'
<1>1. PICK y \in Poll(stream[1]) :
        /\ stream' = <<y.stream>>
        /\ CASE y.item.tag = "stats" -> Continue(fetched, FALSE)
             [] y.item.tag = "row" /\ fetch = "one" -> Return(<<y.item.row>>, FALSE)
             [] y.item.tag = "row" /\ fetch = "many" ->
                  Continue(Append(fetched, y.item.row), FALSE)
             [] y.item.tag = "error" -> Raise
             [] y.item.tag = "end" -> Return(fetched, TRUE)
  BY DEF PollOneOrMany
<1>2. fetch \in {"one", "many"} /\ UNCHANGED <<buffer, total>>
  BY DEF PollOneOrMany
<1>3. /\ CursorTypeOK /\ CallOK /\ EndIsComplete /\ buffer = <<>> /\ ~failing
      /\ Held = got \o fetched /\ got \in Seq(Nat) /\ fetched \in Seq(Nat)
      /\ y.item.tag \in {"stats", "row", "error", "end"} /\ y.stream \in StreamType
  BY <1>1, <1>2, FetchPolls DEF CallOK
<1>4. CASE y.item.tag = "stats"
  <2>1. Continue(fetched, FALSE)
    BY <1>1, <1>4
  <2> QED
    BY <1>1, <1>2, <1>3, <1>4, <2>1, ContinueKeeps
<1>5. CASE y.item.tag = "row" /\ fetch = "one"
  <2>1. Return(<<y.item.row>>, FALSE)
    BY <1>1, <1>5
  <2> QED
    BY <1>1, <1>2, <1>5, <2>1, ReturnKeeps
<1>6. CASE y.item.tag = "row" /\ fetch = "many"
  <2>1. Continue(Append(fetched, y.item.row), FALSE)
    BY <1>1, <1>6
  <2> QED
    BY <1>1, <1>2, <1>3, <1>6, <2>1, ContinueKeeps
<1>7. CASE y.item.tag = "end"
  <2>1. Return(fetched, TRUE)
    BY <1>1, <1>7
  <2> QED
    BY <1>1, <1>2, <1>7, <2>1, ReturnKeeps
<1>8. CASE y.item.tag = "error"
  <2>1. /\ fetch' = "none" /\ fetched' = <<>> /\ failing' = FALSE /\ raised' = TRUE
        /\ size' = size /\ got' = got /\ ended' = ended /\ buffer' = <<>> /\ total' = total
    BY <1>1, <1>2, <1>3, <1>8 DEF Raise
  <2>2. Held' = got
    BY <1>3, <2>1, ConcatLaws DEF Held
  <2>3. Sound(Held', y.stream, total)
    BY <1>1, <1>2, <1>3, <1>8, <2>2, FetchPolls, PrefixSound
  <2>4. CursorTypeOK'
    <3>1. fetched' \in Seq(Nat)
      BY <2>1, ConcatLaws
    <3> QED
      BY <1>1, <1>3, <2>1, <3>1 DEF CursorTypeOK
  <2>5. CallOK' /\ RowsOK' /\ EndIsComplete'
    BY <1>1, <2>1, <2>3 DEF CallOK, RowsOK, EndIsComplete
  <2> QED
    BY <2>4, <2>5 DEF IInv
<1> QED
  BY <1>2, <1>3, <1>4, <1>5, <1>6, <1>7, <1>8

\* The stream is read to its end and dropped; the rows are given up if there was an error.
LEMMA PollAllKeeps == ASSUME IInv, PollAll PROVE IInv'
<1>1. PICK y \in Poll(stream[1]) :
        /\ stream' = IF y.item.tag = "end" THEN <<>> ELSE <<y.stream>>
        /\ CASE y.item.tag = "stats" -> Continue(fetched, failing)
             [] y.item.tag = "row" -> Continue(Append(fetched, y.item.row), failing)
             [] y.item.tag = "error" -> Continue(fetched, TRUE)
             [] y.item.tag = "end" /\ failing -> Raise
             [] y.item.tag = "end" /\ ~failing -> Return(fetched, TRUE)
  BY DEF PollAll
<1>2. fetch = "all" /\ UNCHANGED <<buffer, total>>
  BY DEF PollAll
<1>3. /\ CursorTypeOK /\ CallOK /\ EndIsComplete /\ buffer = <<>>
      /\ Held = got \o fetched /\ got \in Seq(Nat) /\ fetched \in Seq(Nat)
      /\ y.item.tag \in {"stats", "row", "error", "end"} /\ failing \in BOOLEAN
  BY <1>1, <1>2, FetchPolls DEF CursorTypeOK
<1>4. CASE y.item.tag = "stats"
  <2>1. Continue(fetched, failing) /\ stream' = <<y.stream>>
    BY <1>1, <1>4
  <2> QED
    BY <1>1, <1>2, <1>3, <1>4, <2>1, ContinueKeeps
<1>5. CASE y.item.tag = "row"
  <2>1. Continue(Append(fetched, y.item.row), failing) /\ stream' = <<y.stream>>
    BY <1>1, <1>5
  <2> QED
    BY <1>1, <1>2, <1>3, <1>5, <2>1, ContinueKeeps
<1>6. CASE y.item.tag = "error"
  <2>1. Continue(fetched, TRUE) /\ stream' = <<y.stream>>
    BY <1>1, <1>6
  <2> QED
    BY <1>1, <1>2, <1>3, <1>6, <2>1, ContinueKeeps
<1>7. CASE y.item.tag = "end"
  <2>1. Sound(got, y.stream, total) /\ Sound(Held, y.stream, total)
    BY <1>1, <1>2, <1>3, <1>7, FetchPolls, PrefixSound
  <2>2. CASE failing
    <3>1. /\ fetch' = "none" /\ fetched' = <<>> /\ failing' = FALSE /\ raised' = TRUE /\ stream' = <<>>
          /\ size' = size /\ got' = got /\ ended' = ended /\ buffer' = <<>> /\ total' = total
      BY <1>1, <1>2, <1>3, <1>7, <2>2 DEF Raise
    <3>2. CursorTypeOK'
      <4>1. fetched' \in Seq(Nat)
        BY <3>1, ConcatLaws
      <4> QED
        BY <1>3, <3>1, <4>1 DEF CursorTypeOK
    <3>3. CallOK' /\ RowsOK' /\ EndIsComplete'
      BY <2>1, <3>1 DEF CallOK, RowsOK, EndIsComplete, Sound
    <3> QED
      BY <3>2, <3>3 DEF IInv
  <2>3. CASE ~failing
    <3>1. /\ fetch' = "none" /\ fetched' = <<>> /\ failing' = FALSE /\ raised' = raised /\ stream' = <<>>
          /\ size' = size /\ got' = Held /\ ended' = TRUE /\ buffer' = <<>> /\ total' = total
      BY <1>1, <1>2, <1>3, <1>7, <2>3 DEF Return
    <3>2. ~raised => Len(Held) = total /\ Lossless(Held, y.stream, total)
      BY <1>1, <1>2, <1>7, <2>3, FetchPolls
    <3>3. CursorTypeOK'
      <4>1. fetched' \in Seq(Nat) /\ got' \in Seq(Nat)
        BY <1>3, <3>1, ConcatLaws
      <4> QED
        BY <1>3, <3>1, <4>1 DEF CursorTypeOK
    <3>4. CallOK' /\ EndIsComplete'
      BY <3>1, <3>2 DEF CallOK, EndIsComplete
    <3>5. RowsOK'
      BY <2>1, <3>1, <3>2 DEF RowsOK, Sound, Lossless
    <3> QED
      BY <3>3, <3>4, <3>5 DEF IInv
  <2> QED
    BY <1>3, <2>2, <2>3
<1> QED
  BY <1>3, <1>4, <1>5, <1>6, <1>7

LEMMA NextKeeps == ASSUME IInv, [CursorNext]_cursorVars PROVE IInv'
<1>1. CASE UNCHANGED cursorVars
  BY <1>1 DEF cursorVars, fetchVars, historyVars, IInv, CursorTypeOK, CallOK, RowsOK, Held, EndIsComplete
<1>2. CASE CursorNext
  BY <1>2, ExecuteFailsKeeps, ExecuteKeeps, PollFirstKeeps, ExecuteManyKeeps, CloseKeeps,
     FetchOneKeeps, FetchManyKeeps, FetchAllKeeps, ManyIsFullKeeps, PollOneOrManyKeeps, PollAllKeeps
     DEF CursorNext
<1> QED
  BY <1>1, <1>2

LEMMA InvariantHolds == CursorSpec => []IInv
<1>1. CursorInit => IInv
  BY InitIInv
<1>2. IInv /\ [CursorNext]_cursorVars => IInv'
  BY NextKeeps
<1> QED
  BY <1>1, <1>2, PTL DEF CursorSpec

-----------------------------------------------------------------------------
(* Theorems *)

\* While there is a stream, the rows the program has have left it first.
LEMMA GotIsSound ==
  ASSUME IInv, stream # <<>>
  PROVE  /\ Sound(got, stream[1], total) /\ got \in Seq(Nat)
         /\ \A i \in DOMAIN got : i \in DOMAIN Held /\ Held[i] = got[i]
<1> DEFINE g == IF fetch = "none" THEN buffer ELSE fetched
<1>1. Held = got \o g /\ got \in Seq(Nat) /\ g \in Seq(Nat)
  BY HandsType DEF Held
<1>2. Sound(Held, stream[1], total)
  BY OpenFacts
<1> HIDE DEF g
<1>3. \A i \in 1 .. Len(got) : i \in 1 .. Len(got) + Len(g) /\ (got \o g)[i] = got[i]
  BY <1>1, ConcatFacts, SeqFacts
<1>4. DOMAIN got = 1 .. Len(got) /\ DOMAIN (got \o g) = 1 .. Len(got) + Len(g)
  BY <1>1
<1> QED
  BY <1>1, <1>2, <1>3, <1>4, PrefixSound

\* The state of a cursor and of the stream under it has its type.
THEOREM TypeCorrect == CursorSpec => []CursorTypeOK
<1>1. IInv => CursorTypeOK
  BY DEF IInv
<1> QED
  BY <1>1, InvariantHolds, PTL

\* Whatever mix of execute, executemany, fetchone, fetchmany, fetchall and close a program
\* calls, and whatever the server answers or fails to, the rows it gets are rows of the
\* statement it last executed, none twice and none out of order.
THEOREM RowsComeInOrder == CursorSpec => []FetchedInOrder
<1>1. ASSUME IInv PROVE FetchedInOrder
  <2>1. Increasing(got) /\ \A i \in DOMAIN got : 0 < got[i] /\ got[i] <= total
    BY <1>1, GotIsSound DEF IInv, RowsOK, Sound
  <2>2. /\ DOMAIN got = 1 .. Len(got) /\ Len(got) \in Nat /\ total \in Nat
        /\ \A i \in DOMAIN got : got[i] \in Nat
    BY <1>1, SeqFacts DEF IInv, CursorTypeOK
  <2>3. ASSUME NEW i \in 1 .. Len(got), i > 1 PROVE got[i - 1] < got[i]
    <3>1. i - 1 \in 1 .. Len(got) /\ i - 1 < i
      BY <2>2, <2>3
    <3> QED
      BY <2>1, <2>2, <3>1 DEF Increasing
  <2> QED
    BY <2>1, <2>2, <2>3 DEF FetchedInOrder
<1> QED
  BY <1>1, InvariantHolds, PTL

\* A program none of whose calls about a statement has raised an error has its rows from
\* the first on, without a gap.
THEOREM NoRowIsSkipped == CursorSpec => []NoSilentLoss
<1>1. ASSUME IInv PROVE NoSilentLoss
  <2>1. DOMAIN got = 1 .. Len(got)
    BY <1>1, SeqFacts DEF IInv, CursorTypeOK
  <2>2. CASE stream = <<>>
    BY <1>1, <2>1, <2>2 DEF IInv, RowsOK, NoSilentLoss
  <2>3. CASE stream # <<>>
    BY <1>1, <2>1, <2>3, GotIsSound, OpenFacts DEF NoSilentLoss, Lossless
  <2> QED
    BY <2>2, <2>3
<1> QED
  BY <1>1, InvariantHolds, PTL

\* A fetch says that there are no more rows only to a program that has them all, or was
\* told of an error; and that stays so, however it goes on.
THEOREM EndsAreComplete == CursorSpec => []EndIsComplete
<1>1. IInv => EndIsComplete
  BY DEF IInv
<1> QED
  BY <1>1, InvariantHolds, PTL

\* A program that has the last row of a result over REST has had every page read, /final
\* included: no query is left to its time-out for want of one more fetch.
THEOREM LastRowFinalizes == CursorSpec => []FinalBeforeLast
<1>1. ASSUME IInv PROVE FinalBeforeLast
  <2> SUFFICES ASSUME total > 0, got # <<>>, Last(got) = total, stream # <<>>
               PROVE  stream[1].pages = <<>> \/ stream[1].format = "flight"
    BY DEF FinalBeforeLast
  <2>1. Sound(got, stream[1], total) /\ got \in Seq(Nat) /\ total \in Nat
    BY <1>1, GotIsSound DEF IInv, CursorTypeOK
  <2>2. Len(got) \in DOMAIN got /\ got[Len(got)] = total
    BY <2>1, SeqFacts DEF Last
  <2> QED
    BY <2>1, <2>2 DEF Sound
<1> QED
  BY <1>1, InvariantHolds, PTL

=============================================================================
