--------------------------- MODULE RoutingProofs ---------------------------
(***************************************************************************)
(* Proofs about the router, for tables, hosts and paths of any length.     *)
(*                                                                         *)
(* The score of a route is a number that orders routes the way the         *)
(* documentation does, and the score of a site says how closely it names   *)
(* the host; the greatest of each is then the right answer.  That needs    *)
(* patterns shorter than the distance between the score of a prefix and    *)
(* the score of an exact match.                                            *)
(***************************************************************************)
EXTENDS Serving, SequenceTheorems, NaturalsInduction, WellFoundedInduction, TLAPS

\* Min is what it should be on every set of naturals that is not empty.
LEMMA LeastPosition ==
    ASSUME NEW S, S \subseteq Nat, S # {}
    PROVE  Min(S) \in S /\ \A y \in S : Min(S) <= y
<1> DEFINE R == OpToRel(<, Nat)
<1>1. IsWellFoundedOn(R, Nat)
  BY NatLessThanWellFounded, Zenon
<1>2. \A x, y \in Nat : y < x => <<y, x>> \in R
  BY Zenon DEF OpToRel
<1> HIDE DEF R
<1>3. PICK x \in S : \A y \in S : ~(<<y, x>> \in R)
  BY <1>1, WFMin, Zenon
<1>4. \A y \in S : ~(y < x)
  BY <1>2, <1>3, Zenon
<1>5. \A y \in S : x <= y
  BY <1>4
<1> QED
  BY <1>5, Zenon DEF Min

\* So is Max on the sets of positions up to n.
LEMMA GreatestPosition ==
    ASSUME NEW n \in Nat, NEW S, S \subseteq 0..n, S # {}
    PROVE  Max(S) \in S /\ \A y \in S : y <= Max(S)
<1> DEFINE T == {n - x : x \in S}
<1>1. T \subseteq Nat /\ T # {}
  <2>1. \A x \in S : n - x \in Nat
    OBVIOUS
  <2> QED
    BY <2>1, Zenon
<1>2. Min(T) \in T /\ \A y \in T : Min(T) <= y
  BY <1>1, LeastPosition, Zenon
<1>3. PICK x \in S : Min(T) = n - x
  BY <1>2, Zenon
<1>4. \A y \in S : y <= x
  <2> SUFFICES ASSUME NEW y \in S PROVE y <= x
    OBVIOUS
  <2>1. n - x <= n - y
    BY <1>2, <1>3
  <2> QED
    BY <2>1
<1> QED
  BY <1>4, Zenon DEF Max

-----------------------------------------------------------------------------
\* max_by_key: nothing when no key matches, otherwise an element whose key is
\* at least every other.
LEMMA MaxByKeyIsGreatest ==
    ASSUME NEW s, NEW keys, NEW n \in Nat, NEW B \in Nat, DOMAIN s = 1..n,
           \A i \in 1..n : keys[i] \in 0..B
    PROVE  \/ MaxByKey(s, keys) = {} /\ \A i \in 1..n : keys[i] = NoMatch
           \/ \E i \in 1..n : /\ MaxByKey(s, keys) = {s[i]} /\ keys[i] # NoMatch
                              /\ \A j \in 1..n : keys[j] <= keys[i]
<1> DEFINE hits == {i \in 1..n : keys[i] # NoMatch}
           scores == {keys[i] : i \in hits}
           top == {i \in hits : \A j \in hits : keys[j] <= keys[i]}
<1>1. MaxByKey(s, keys) = IF hits = {} THEN {} ELSE {s[Max(top)]}
  BY Zenon DEF MaxByKey
<1>2. CASE hits = {}
  BY <1>1, <1>2, Zenon
<1>3. CASE hits # {}
  <2>1. scores \subseteq 0..B /\ scores # {}
    BY <1>3, Zenon
  <2>2. Max(scores) \in scores /\ \A y \in scores : y <= Max(scores)
    <3> HIDE DEF scores
    <3> QED
      BY <2>1, GreatestPosition, Zenon
  <2>3. PICK i \in hits : keys[i] = Max(scores)
    BY <2>2, Zenon
  <2>4. i \in top
    BY <2>2, <2>3, Zenon
  <2>5. top \subseteq 0..n
    OBVIOUS
  <2>6. Max(top) \in top
    <3> HIDE DEF top
    <3> QED
      BY <2>4, <2>5, GreatestPosition, Zenon
  <2> DEFINE m == Max(top)
  <2>7. m \in 1..n /\ keys[m] # NoMatch /\ \A j \in hits : keys[j] <= keys[m]
    BY <2>6, Zenon
  <2>8. MaxByKey(s, keys) = {s[m]}
    BY <1>1, <1>3, Zenon
  <2> HIDE DEF m
  <2>9. \A j \in 1..n : keys[j] <= keys[m]
    <3> SUFFICES ASSUME NEW j \in 1..n, j \notin hits PROVE keys[j] <= keys[m]
      BY <2>7, Zenon
    <3>1. keys[j] = 0
      BY Zenon DEF NoMatch
    <3> QED
      BY <2>7, <3>1
  <2> QED
    BY <2>7, <2>8, <2>9, Zenon
<1> QED
  BY <1>2, <1>3, Zenon

-----------------------------------------------------------------------------
\* prefix_of shortens a pattern.
LEMMA FrontOf ==
    ASSUME NEW s \in Seq(STRING), s # <<>>
    PROVE  Front(s) \in Seq(STRING) /\ Len(Front(s)) <= Len(s)
<1>1. Len(s) \in Nat /\ \A i \in 1..Len(s) - 1 : s[i] \in STRING
  OBVIOUS
<1>2. 1 \in Int /\ Len(s) - 1 \in Int
  BY <1>1
<1>3. /\ SubSeq(s, 1, Len(s) - 1) \in Seq(STRING)
      /\ Len(SubSeq(s, 1, Len(s) - 1)) = IF 1 <= Len(s) - 1 THEN Len(s) - 1 - 1 + 1 ELSE 0
  BY <1>1, <1>2, SubSeqProperties
<1> QED
  BY <1>1, <1>3 DEF Front

\* prefix_of gives a path no longer than its pattern.
LEMMA PrefixOfType ==
    ASSUME NEW p \in Seq(STRING)
    PROVE  PrefixOf(p) \in Seq(STRING) /\ Len(PrefixOf(p)) \in Nat /\ Len(PrefixOf(p)) <= Len(p)
<1> DEFINE Strip(s, piece) == IF s # <<>> /\ Last(s) = piece THEN Front(s) ELSE s
           a == Strip(p, "*")
           b == Strip(a, "/")
<1>1. \A s \in Seq(STRING), piece \in {"*", "/"} : Strip(s, piece) \in Seq(STRING) /\ Len(Strip(s, piece)) <= Len(s)
  BY FrontOf
<1>2. a \in Seq(STRING) /\ Len(a) <= Len(p)
  BY <1>1
<1>3. b \in Seq(STRING) /\ Len(b) <= Len(a)
  <2> HIDE DEF a
  <2> QED
    BY <1>1, <1>2
<1>4. PrefixOf(p) = IF b = <<"/">> THEN <<>> ELSE b
  BY Zenon DEF PrefixOf
<1> HIDE DEF a, b
<1>5. Len(a) \in Nat /\ Len(b) \in Nat /\ Len(p) \in Nat
  BY <1>2, <1>3
<1>6. CASE b = <<"/">>
  <2>1. PrefixOf(p) = <<>> /\ <<>> \in Seq(STRING) /\ Len(<<>>) = 0
    BY <1>4, <1>6
  <2> QED
    BY <1>5, <2>1
<1>7. CASE b # <<"/">>
  BY <1>2, <1>3, <1>4, <1>5, <1>7
<1> QED
  BY <1>6, <1>7

\* A sequence is the beginning of another when it is it piece by piece.
LEMMA Beginning ==
    ASSUME NEW S, NEW s \in Seq(S), NEW t \in Seq(S), NEW n \in 0..Len(t)
    PROVE  /\ SubSeq(t, 1, n) \in Seq(S) /\ Len(SubSeq(t, 1, n)) = n
           /\ \A i \in 1..n : SubSeq(t, 1, n)[i] = t[i]
           /\ SubSeq(t, 1, n) = s <=> Len(s) = n /\ \A i \in 1..n : s[i] = t[i]
<1>0. Len(t) \in Nat /\ Len(s) \in Nat /\ n \in Int /\ 1 \in Int /\ \A i \in 1..n : t[i] \in S
  OBVIOUS
<1>1. /\ SubSeq(t, 1, n) \in Seq(S)
      /\ Len(SubSeq(t, 1, n)) = IF 1 <= n THEN n - 1 + 1 ELSE 0
      /\ \A i \in 1..n - 1 + 1 : SubSeq(t, 1, n)[i] = t[1 + i - 1]
  BY <1>0, SubSeqProperties
<1>2. Len(SubSeq(t, 1, n)) = n
  BY <1>1
<1>3. \A i \in 1..n : SubSeq(t, 1, n)[i] = t[i]
  <2> SUFFICES ASSUME NEW i \in 1..n PROVE SubSeq(t, 1, n)[i] = t[i]
    OBVIOUS
  <2>1. i \in 1..n - 1 + 1 /\ 1 + i - 1 = i
    BY <1>0
  <2> QED
    BY <1>1, <2>1
<1>4. ASSUME Len(s) = n, \A i \in 1..n : s[i] = t[i] PROVE SubSeq(t, 1, n) = s
  <2>1. Len(SubSeq(t, 1, n)) = Len(s) /\ \A i \in 1..Len(SubSeq(t, 1, n)) : SubSeq(t, 1, n)[i] = s[i]
    BY <1>2, <1>3, <1>4
  <2> QED
    BY <1>1, <2>1, SeqEqual, Zenon
<1>5. ASSUME SubSeq(t, 1, n) = s PROVE Len(s) = n /\ \A i \in 1..n : s[i] = t[i]
  BY <1>2, <1>3, <1>5, Zenon
<1> QED
  BY <1>1, <1>2, <1>3, <1>4, <1>5, Zenon

\* starts_with, piece by piece.
LEMMA PrefixByPiece ==
    ASSUME NEW S, NEW s \in Seq(S), NEW t \in Seq(S)
    PROVE  IsPrefix(s, t) <=> Len(s) <= Len(t) /\ \A i \in 1..Len(s) : s[i] = t[i]
<1>0. Len(t) \in Nat /\ Len(s) \in Nat /\ Len(s) \in 0..Len(s)
  OBVIOUS
<1>1. SubSeq(s, 1, Len(s)) = s
  BY <1>0, Beginning
<1>2. Len(s) <= Len(t) => (SubSeq(t, 1, Len(s)) = s <=> \A i \in 1..Len(s) : s[i] = t[i])
  <2> SUFFICES ASSUME Len(s) <= Len(t)
               PROVE  SubSeq(t, 1, Len(s)) = s <=> \A i \in 1..Len(s) : s[i] = t[i]
    OBVIOUS
  <2>1. Len(s) \in 0..Len(t)
    BY <1>0
  <2> QED
    BY <2>1, Beginning
<1>3. IsPrefix(s, t) <=> Len(s) <= Len(t) /\ s = SubSeq(t, 1, Len(s))
  BY <1>1, Zenon DEF IsPrefix
<1> QED
  BY <1>2, <1>3, Zenon

\* with_slash: a prefix route matches at the boundaries of segments.
LEMMA PrefixBoundary ==
    ASSUME NEW prefix \in Seq(STRING), NEW path \in Seq(STRING)
    PROVE  (prefix = <<>> \/ path = prefix \/ IsPrefix(WithSlash(prefix), path))
             <=> \E n \in 0..Len(path) : /\ SubSeq(path, 1, n) = prefix
                                         /\ n \in {0, Len(path)} \/ "/" \in {path[n], path[n + 1]}
<1> DEFINE S == STRING \cup {"/"}
           m == Len(prefix)
           slashed == Append(prefix, "/")
<1>0. /\ prefix \in Seq(S) /\ path \in Seq(S) /\ "/" \in S
      /\ m \in Nat /\ Len(path) \in Nat
  BY SeqMonotonic
<1>1. slashed \in Seq(S) /\ Len(slashed) = m + 1 /\ slashed[m + 1] = "/" /\ \A i \in 1..m : slashed[i] = prefix[i]
  BY <1>0, AppendProperties
<1>2. prefix = <<>> <=> m = 0
  BY <1>0
<1> HIDE DEF S, m, slashed
<1>3. WithSlash(prefix) = IF prefix[m] = "/" THEN prefix ELSE slashed
  BY Zenon DEF WithSlash, Last, m, slashed
<1>4. /\ IsPrefix(prefix, path) <=> m <= Len(path) /\ \A i \in 1..m : prefix[i] = path[i]
      /\ IsPrefix(slashed, path) <=> m + 1 <= Len(path) /\ \A i \in 1..m + 1 : slashed[i] = path[i]
  <2>1. IsPrefix(prefix, path) <=> Len(prefix) <= Len(path) /\ \A i \in 1..Len(prefix) : prefix[i] = path[i]
    BY <1>0, PrefixByPiece
  <2>2. IsPrefix(slashed, path) <=> Len(slashed) <= Len(path) /\ \A i \in 1..Len(slashed) : slashed[i] = path[i]
    BY <1>0, <1>1, PrefixByPiece
  <2>3. Len(prefix) = m /\ Len(slashed) = m + 1
    BY <1>1, Zenon DEF m
  <2> QED
    BY <2>1, <2>2, <2>3, Zenon
<1>5. \A n \in 0..Len(path) : SubSeq(path, 1, n) = prefix <=> m = n /\ \A i \in 1..n : prefix[i] = path[i]
  <2> SUFFICES ASSUME NEW n \in 0..Len(path)
               PROVE  SubSeq(path, 1, n) = prefix <=> m = n /\ \A i \in 1..n : prefix[i] = path[i]
    OBVIOUS
  <2>1. SubSeq(path, 1, n) = prefix <=> Len(prefix) = n /\ \A i \in 1..n : prefix[i] = path[i]
    BY <1>0, Beginning
  <2> QED
    BY <2>1, Zenon DEF m
<1>6. (\E n \in 0..Len(path) : /\ SubSeq(path, 1, n) = prefix
                               /\ n \in {0, Len(path)} \/ "/" \in {path[n], path[n + 1]})
        <=> /\ m <= Len(path) /\ \A i \in 1..m : prefix[i] = path[i]
            /\ m \in {0, Len(path)} \/ "/" \in {path[m], path[m + 1]}
  <2>1. m <= Len(path) <=> m \in 0..Len(path)
    BY <1>0
  <2> QED
    BY <1>5, <2>1, Zenon
<1>7. path = prefix <=> m = Len(path) /\ \A i \in 1..m : prefix[i] = path[i]
  BY <1>0, SeqEqual, Zenon DEF m
<1>70. m = Len(path) => m <= Len(path)
  BY <1>0
<1>8. CASE m = 0
  BY <1>0, <1>2, <1>6, <1>8
<1>9. CASE m # 0 /\ prefix[m] = "/"
  <2>1. m \in 1..m
    BY <1>0, <1>9
  <2>2. (\A i \in 1..m : prefix[i] = path[i]) => "/" \in {path[m], path[m + 1]}
    BY <1>9, <2>1, Zenon
  <2>3. prefix # <<>> /\ WithSlash(prefix) = prefix
    BY <1>2, <1>3, <1>9, Zenon
  <2> QED
    BY <1>4, <1>6, <1>7, <1>70, <2>2, <2>3, Zenon
<1>10. CASE m # 0 /\ prefix[m] # "/"
  <2>1. m \in 1..m /\ m + 1 \in 1..m + 1 /\ \A i \in 1..m + 1 : i = m + 1 \/ i \in 1..m
    BY <1>0, <1>10
  <2>2. (\A i \in 1..m + 1 : slashed[i] = path[i]) <=> "/" = path[m + 1] /\ \A i \in 1..m : prefix[i] = path[i]
    <3>1. \A i \in 1..m : i \in 1..m + 1
      BY <1>0
    <3> QED
      BY <1>1, <2>1, <3>1, Zenon
  <2>3. (\A i \in 1..m : prefix[i] = path[i]) => path[m] # "/"
    BY <1>10, <2>1, Zenon
  <2>4. m <= Len(path) /\ m # Len(path) <=> m + 1 <= Len(path)
    BY <1>0
  <2>6. prefix # <<>> /\ WithSlash(prefix) = slashed
    BY <1>2, <1>3, <1>10, Zenon
  <2>7. m \in {0, Len(path)} \/ "/" \in {path[m], path[m + 1]}
          <=> m = Len(path) \/ "/" = path[m] \/ "/" = path[m + 1]
    BY <1>10, Zenon
  <2> QED
    BY <1>4, <1>6, <1>7, <1>70, <2>2, <2>3, <2>4, <2>6, <2>7, Zenon
<1> QED
  BY <1>8, <1>9, <1>10, Zenon

-----------------------------------------------------------------------------
\* A route as the table has it, and the score of an exact match.
IsRoute(r) == /\ r.kind \in {"exact", "prefix", "regex"}
              /\ r.pattern \in Seq(STRING) /\ Len(r.pattern) < 999000

ExactScore == 1000000

\* What makes a prefix match.
Reached(prefix, path) == prefix = <<>> \/ path = prefix \/ IsPrefix(WithSlash(prefix), path)

\* Whether the route is for the request's method.
Asks(r, method) == r.method = {} \/ method \in r.method

\* score, one kind of route at a time.
LEMMA ScoreByKind ==
    ASSUME NEW r, NEW path, NEW method
    PROVE  /\ ~Asks(r, method) => Score(r, path, method) = 0
           /\ Asks(r, method) /\ r.kind = "exact" =>
                 Score(r, path, method) = IF r.pattern = path THEN ExactScore ELSE 0
           /\ Asks(r, method) /\ r.kind = "prefix" =>
                 Score(r, path, method) = IF Reached(PrefixOf(r.pattern), path)
                                          THEN 1000 + Len(PrefixOf(r.pattern)) ELSE 0
           /\ Asks(r, method) /\ r.kind = "regex" =>
                 Score(r, path, method) = IF r.pattern = path THEN 10 ELSE 0
  BY SMT DEF Score, Asks, Reached, ExactScore, NoMatch

\* A prefix of a pattern within the bound scores less than an exact match.
LEMMA PrefixBelowExact ==
    ASSUME NEW r, IsRoute(r)
    PROVE  /\ PrefixOf(r.pattern) \in Seq(STRING) /\ Len(PrefixOf(r.pattern)) \in Nat
           /\ 1000 + Len(PrefixOf(r.pattern)) \in Nat /\ 1000 + Len(PrefixOf(r.pattern)) < ExactScore
           /\ ExactScore \in Nat /\ 10 < ExactScore
<1>1. PrefixOf(r.pattern) \in Seq(STRING) /\ Len(PrefixOf(r.pattern)) <= Len(r.pattern)
  <2>1. r.pattern \in Seq(STRING)
    BY SMT DEF IsRoute
  <2> QED
    BY <2>1, PrefixOfType, SMT
<1> QED
  BY <1>1, SMT DEF IsRoute, ExactScore

\* score: what a route that matches scores, and that it matches when it covers
\* the request.
LEMMA ScoreIsCover ==
    ASSUME NEW r, IsRoute(r), NEW path \in Seq(STRING), NEW method
    PROVE  /\ Score(r, path, method) \in 0..ExactScore
           /\ Score(r, path, method) # NoMatch <=> Covers(r, path, method)
<1> DEFINE prefix == PrefixOf(r.pattern)
<1>1. /\ prefix \in Seq(STRING) /\ Len(prefix) \in Nat
      /\ 1000 + Len(prefix) \in Nat /\ 1000 + Len(prefix) < ExactScore
      /\ ExactScore \in Nat /\ 10 < ExactScore
  BY PrefixBelowExact, SMT
<1>2. Reached(prefix, path)
        <=> \E n \in 0..Len(path) : /\ SubSeq(path, 1, n) = prefix
                                    /\ n \in {0, Len(path)} \/ "/" \in {path[n], path[n + 1]}
  <2> HIDE DEF prefix
  <2> QED
    BY <1>1, PrefixBoundary DEF Reached
<1>3. Covers(r, path, method)
        <=> Asks(r, method) /\ IF r.kind = "prefix" THEN Reached(prefix, path) ELSE r.pattern = path
  BY <1>2, Zenon DEF Covers, Asks
<1>4. r.kind \in {"exact", "prefix", "regex"}
  BY SMT DEF IsRoute
<1>5. /\ ~Asks(r, method) => Score(r, path, method) = 0
      /\ Asks(r, method) /\ r.kind = "exact" =>
            Score(r, path, method) = IF r.pattern = path THEN ExactScore ELSE 0
      /\ Asks(r, method) /\ r.kind = "prefix" =>
            Score(r, path, method) = IF Reached(prefix, path) THEN 1000 + Len(prefix) ELSE 0
      /\ Asks(r, method) /\ r.kind = "regex" =>
            Score(r, path, method) = IF r.pattern = path THEN 10 ELSE 0
  BY ScoreByKind, SMT
<1> HIDE DEF prefix
<1> QED
  BY <1>1, <1>3, <1>4, <1>5, SMT DEF NoMatch

\* The more specific of two routes that cover a request scores higher.
LEMMA MoreSpecificScores ==
    ASSUME NEW q, NEW r, IsRoute(q), IsRoute(r), NEW path \in Seq(STRING), NEW method,
           Covers(q, path, method), Covers(r, path, method), MoreSpecific(q, r)
    PROVE  Score(r, path, method) < Score(q, path, method)
<1>1. /\ Len(PrefixOf(q.pattern)) \in Nat /\ 1000 + Len(PrefixOf(q.pattern)) < ExactScore
      /\ Len(PrefixOf(r.pattern)) \in Nat /\ 1000 + Len(PrefixOf(r.pattern)) < ExactScore
      /\ ExactScore \in Nat /\ 10 < ExactScore
  BY PrefixBelowExact, SMT
<1>2. Score(q, path, method) # 0 /\ Score(r, path, method) # 0
  BY ScoreIsCover, SMT DEF NoMatch
<1>3. Asks(q, method) /\ Asks(r, method)
  BY <1>2, ScoreByKind, SMT
<1>4. /\ q.kind = "exact" => Score(q, path, method) = ExactScore
      /\ q.kind = "prefix" => Score(q, path, method) = 1000 + Len(PrefixOf(q.pattern))
  BY <1>2, <1>3, ScoreByKind, SMT
<1>5. /\ r.kind = "prefix" => Score(r, path, method) = 1000 + Len(PrefixOf(r.pattern))
      /\ r.kind = "regex" => Score(r, path, method) = 10
  BY <1>2, <1>3, ScoreByKind, SMT
<1>6. r.kind \in {"exact", "prefix", "regex"}
  BY SMT DEF IsRoute
<1> QED
  BY <1>1, <1>4, <1>5, <1>6, SMT DEF MoreSpecific

-----------------------------------------------------------------------------
\* ends_with, and that the host is longer: a proper suffix.
LEMMA SuffixByPiece ==
    ASSUME NEW S, NEW s \in Seq(S), NEW t \in Seq(S)
    PROVE  Len(t) > Len(s) /\ IsSuffix(s, t)
             <=> \E n \in 2..Len(t) + 1 : SubSeq(t, n, Len(t)) = s
<1> DEFINE m == Len(s)
           l == Len(t)
           Agree == \A i \in 1..m : s[i] = t[(l - m) + i]
<1>0. m \in Nat /\ l \in Nat
  OBVIOUS
<1>1. /\ Reverse(s) \in Seq(S) /\ Len(Reverse(s)) = m /\ \A i \in 1..m : Reverse(s)[i] = s[(m - i) + 1]
      /\ Reverse(t) \in Seq(S) /\ Len(Reverse(t)) = l /\ \A i \in 1..l : Reverse(t)[i] = t[(l - i) + 1]
  BY <1>0, IsASeq DEF Reverse
<1>2. IsSuffix(s, t) <=> m <= l /\ \A i \in 1..m : Reverse(s)[i] = Reverse(t)[i]
  <2>1. IsPrefix(Reverse(s), Reverse(t)) <=> Len(Reverse(s)) <= Len(Reverse(t))
                      /\ \A i \in 1..Len(Reverse(s)) : Reverse(s)[i] = Reverse(t)[i]
    BY <1>1, PrefixByPiece
  <2> QED
    BY <1>1, <2>1 DEF IsSuffix
<1>3. m <= l => (IsSuffix(s, t) <=> Agree)
  <2> SUFFICES ASSUME m <= l PROVE IsSuffix(s, t) <=> Agree
    OBVIOUS
  <2>1. ASSUME IsSuffix(s, t), NEW i \in 1..m PROVE s[i] = t[(l - m) + i]
    <3>1. (m - i) + 1 \in 1..m /\ (m - i) + 1 \in 1..l /\ (m - ((m - i) + 1)) + 1 = i
          /\ (l - ((m - i) + 1)) + 1 = (l - m) + i
      BY <1>0
    <3>2. Reverse(s)[(m - i) + 1] = Reverse(t)[(m - i) + 1]
      BY <1>2, <2>1, <3>1
    <3> QED
      BY <1>1, <3>1, <3>2, Zenon
  <2>2. ASSUME Agree, NEW i \in 1..m PROVE Reverse(s)[i] = Reverse(t)[i]
    <3>1. (m - i) + 1 \in 1..m /\ i \in 1..l /\ (l - m) + ((m - i) + 1) = (l - i) + 1
      BY <1>0
    <3> QED
      BY <1>1, <2>2, <3>1, Zenon
  <2> QED
    BY <1>2, <2>1, <2>2
<1>4. ASSUME NEW n \in 2..l + 1
      PROVE  SubSeq(t, n, l) = s <=> n = (l - m) + 1 /\ Agree
  <2>1. n \in Int /\ l \in Int /\ \A i \in n..l : t[i] \in S
    BY <1>0
  <2>2. /\ SubSeq(t, n, l) \in Seq(S)
        /\ Len(SubSeq(t, n, l)) = IF n <= l THEN l - n + 1 ELSE 0
        /\ \A i \in 1..l - n + 1 : SubSeq(t, n, l)[i] = t[n + i - 1]
    BY <2>1, SubSeqProperties
  <2>3. Len(SubSeq(t, n, l)) = l - n + 1
    BY <1>0, <2>2
  <2>4. ASSUME SubSeq(t, n, l) = s PROVE n = (l - m) + 1 /\ Agree
    <3>1. m = l - n + 1
      BY <2>3, <2>4
    <3>2. n = (l - m) + 1
      BY <1>0, <3>1
    <3>3. ASSUME NEW i \in 1..m PROVE s[i] = t[(l - m) + i]
      <4>1. i \in 1..l - n + 1 /\ n + i - 1 = (l - m) + i
        BY <1>0, <3>1, <3>2
      <4> QED
        BY <2>2, <2>4, <4>1
    <3> QED
      BY <3>2, <3>3
  <2>5. ASSUME n = (l - m) + 1, Agree PROVE SubSeq(t, n, l) = s
    <3>1. Len(SubSeq(t, n, l)) = m
      BY <1>0, <2>3, <2>5
    <3>2. ASSUME NEW i \in 1..m PROVE SubSeq(t, n, l)[i] = s[i]
      <4>1. i \in 1..l - n + 1 /\ n + i - 1 = (l - m) + i
        BY <1>0, <2>5
      <4> QED
        BY <2>2, <2>5, <4>1
    <3> QED
      BY <2>2, <3>1, <3>2, SeqEqual, Zenon
  <2> QED
    BY <2>4, <2>5
<1> HIDE DEF Agree
<1>5. l > m => (l - m) + 1 \in 2..l + 1
  BY <1>0
<1>6. ASSUME NEW n \in 2..l + 1, n = (l - m) + 1 PROVE l > m /\ m <= l
  BY <1>0, <1>6
<1>7. l > m => m <= l
  BY <1>0
<1>8. l > m /\ IsSuffix(s, t) => SubSeq(t, (l - m) + 1, l) = s
  BY <1>3, <1>4, <1>5, <1>7, Zenon
<1>9. ASSUME NEW n \in 2..l + 1, SubSeq(t, n, l) = s PROVE l > m /\ IsSuffix(s, t)
  <2>1. n = (l - m) + 1 /\ Agree
    BY <1>4, <1>9
  <2> QED
    BY <1>3, <1>6, <2>1
<1> QED
  BY <1>5, <1>8, <1>9, Zenon

\* A wildcard scores when the host extends it.
LEMMA WildcardExtends ==
    ASSUME NEW pat \in Seq(STRING), NEW host \in Seq(STRING)
    PROVE  (/\ IsPrefix(<<"*", ".">>, pat)
            /\ Len(host) > Len(pat) - 2
            /\ IsSuffix(SubSeq(pat, 3, Len(pat)), host))
              <=> Extends(host, pat)
<1> DEFINE S == STRING \cup {"*", "."}
           star == <<"*", ".">>
           rest == SubSeq(pat, 3, Len(pat))
<1>0. Len(pat) \in Nat /\ Len(host) \in Nat
  OBVIOUS
<1>00. pat \in Seq(S)
  BY SeqMonotonic
<1>1. star \in Seq(S) /\ Len(star) = 2 /\ star[1] = "*" /\ star[2] = "."
  OBVIOUS
<1> HIDE DEF S, star, rest
<1>2. IsPrefix(star, pat) <=> Len(pat) >= 2 /\ pat[1] = "*" /\ pat[2] = "."
  <2>1. IsPrefix(star, pat) <=> Len(star) <= Len(pat) /\ \A i \in 1..Len(star) : star[i] = pat[i]
    <3>1. star \in Seq(S) /\ pat \in Seq(S)
      BY <1>00, <1>1, Zenon
    <3> QED
      BY <3>1, PrefixByPiece
  <2>2. (\A i \in 1..2 : star[i] = pat[i]) <=> star[1] = pat[1] /\ star[2] = pat[2]
    <3>1. 1..2 = {1, 2}
      OBVIOUS
    <3> QED
      BY <3>1, Zenon
  <2>3. Len(pat) >= 2 <=> 2 <= Len(pat)
    BY <1>0
  <2> QED
    BY <1>1, <2>1, <2>2, <2>3, Zenon
<1>3. ASSUME Len(pat) >= 2
      PROVE  Len(host) > Len(pat) - 2 /\ IsSuffix(rest, host)
               <=> \E n \in 2..Len(host) + 1 : SubSeq(host, n, Len(host)) = rest
  <2>1. 3 \in Int /\ Len(pat) \in Int /\ \A i \in 3..Len(pat) : pat[i] \in STRING
    BY <1>0
  <2>2. rest \in Seq(STRING) /\ Len(rest) = IF 3 <= Len(pat) THEN Len(pat) - 3 + 1 ELSE 0
    BY <2>1, SubSeqProperties DEF rest
  <2>3. Len(rest) = Len(pat) - 2
    <3>0. Len(pat) >= 2 /\ Len(pat) \in Nat
      BY <1>0, <1>3, Zenon
    <3>1. \A n \in Nat : n >= 2 => n = 2 \/ 3 <= n
      OBVIOUS
    <3>2. CASE Len(pat) = 2
      BY <2>2, <3>2
    <3>3. CASE 3 <= Len(pat)
      BY <1>0, <2>2, <3>3
    <3> QED
      BY <3>0, <3>1, <3>2, <3>3, Zenon
  <2>4. Len(host) > Len(rest) /\ IsSuffix(rest, host)
          <=> \E n \in 2..Len(host) + 1 : SubSeq(host, n, Len(host)) = rest
    BY <2>2, SuffixByPiece
  <2> QED
    BY <2>3, <2>4, Zenon
<1> QED
  BY <1>2, <1>3, Zenon DEF Extends, star, rest

\* A pattern's score says which of the three ways it names the host.
LEMMA PatternScoreIs ==
    ASSUME NEW pat \in Seq(STRING), NEW host \in Seq(STRING)
    PROVE  PatternScore(pat, host) = IF pat = host THEN 3
                                     ELSE IF Extends(host, pat) THEN 2
                                     ELSE IF pat = <<":default">> THEN 1 ELSE 0
<1>1. pat = <<":default">> => ~Extends(host, pat)
  <2>1. pat = <<":default">> => ~(Len(pat) >= 2)
    OBVIOUS
  <2> QED
    BY <2>1, Zenon DEF Extends
<1> QED
  BY <1>1, WildcardExtends, Zenon DEF PatternScore, NoMatch

\* host_score is how closely the site names the host.
LEMMA HostScoreIsCloseness ==
    ASSUME NEW site, site.hosts \in Seq(Seq(STRING)), NEW host \in Seq(STRING)
    PROVE  HostScore(site, host) = Closeness(site, host) /\ Closeness(site, host) \in 0..3
<1> DEFINE names == ToSet(site.hosts)
           scores == {PatternScore(p, host) : p \in names}
<1>1. names \subseteq Seq(STRING) /\ (site.hosts = <<>> <=> names = {})
  <2>1. ToSet(site.hosts) = {site.hosts[i] : i \in DOMAIN site.hosts}
    BY Zenon DEF ToSet
  <2>2. DOMAIN site.hosts = 1..Len(site.hosts) /\ Len(site.hosts) \in Nat
        /\ \A i \in 1..Len(site.hosts) : site.hosts[i] \in Seq(STRING)
    OBVIOUS
  <2>3. site.hosts = <<>> <=> 1..Len(site.hosts) = {}
    <3>1. site.hosts = <<>> <=> Len(site.hosts) = 0
      BY EmptySeq
    <3> QED
      BY <2>2, <3>1
  <2> QED
    BY <2>1, <2>2, <2>3, Zenon
<1>2. Closeness(site, host) = IF host \in names THEN 3
                              ELSE IF \E p \in names : Extends(host, p) THEN 2
                              ELSE IF <<":default">> \in names THEN 1 ELSE 0
  BY Zenon DEF Closeness
<1>3. \A p \in names : PatternScore(p, host) = IF p = host THEN 3
                                               ELSE IF Extends(host, p) THEN 2
                                               ELSE IF p = <<":default">> THEN 1 ELSE 0
  BY <1>1, PatternScoreIs
<1>4. HostScore(site, host) = IF names = {} THEN 0 ELSE Max(scores)
  BY <1>1, Zenon DEF HostScore, NoMatch
<1> HIDE DEF names
<1>5. CASE names = {}
  <2>1. Closeness(site, host) = 0
    BY <1>2, <1>5
  <2> QED
    BY <1>4, <1>5, <2>1
<1>6. CASE names # {}
  <2>1. \A p \in names : PatternScore(p, host) \in 0..3
    BY <1>3
  <2>2. scores \subseteq 0..3 /\ scores # {}
    BY <1>6, <2>1, Zenon
  <2>3. Max(scores) \in scores /\ \A y \in scores : y <= Max(scores)
    <3> HIDE DEF scores
    <3> QED
      BY <2>2, GreatestPosition, Zenon
  <2>4. PICK top \in names : Max(scores) = PatternScore(top, host)
    BY <2>3, Zenon
  <2>5. \A p \in names : PatternScore(p, host) <= PatternScore(top, host)
    BY <2>3, <2>4, Zenon
  <2> HIDE DEF scores
  <2>6. PatternScore(top, host) = Closeness(site, host) /\ Closeness(site, host) \in 0..3
    <3>1. CASE host \in names
      <4>1. PatternScore(host, host) = 3
        BY <1>3, <3>1
      <4> QED
        BY <1>2, <2>1, <2>5, <3>1, <4>1
    <3>2. CASE host \notin names /\ \E p \in names : Extends(host, p)
      <4>1. PICK p \in names : Extends(host, p)
        BY <3>2, Zenon
      <4>2. PatternScore(p, host) = 2 /\ PatternScore(top, host) \in 0..2
        BY <1>3, <3>2, <4>1
      <4> QED
        BY <1>2, <2>5, <3>2, <4>2
    <3>3. CASE host \notin names /\ (~\E p \in names : Extends(host, p)) /\ <<":default">> \in names
      <4>1. PatternScore(<<":default">>, host) = 1 /\ PatternScore(top, host) \in 0..1
        BY <1>3, <3>3
      <4> QED
        BY <1>2, <2>5, <3>3, <4>1
    <3>4. CASE host \notin names /\ (~\E p \in names : Extends(host, p)) /\ <<":default">> \notin names
      <4>1. PatternScore(top, host) = 0
        BY <1>3, <3>4, Zenon
      <4> QED
        BY <1>2, <3>4, <4>1
    <3> QED
      BY <3>1, <3>2, <3>3, <3>4, Zenon
  <2> QED
    BY <1>4, <1>6, <2>4, <2>6, Zenon
<1> QED
  BY <1>5, <1>6

-----------------------------------------------------------------------------
\* What IsRouter says of one site and of its routes.
LEMMA SiteTypes ==
    ASSUME NEW router, IsRouter(router), NEW site \in ToSet(router)
    PROVE  /\ site.hosts \in Seq(Seq(STRING)) /\ site.routes \in Seq(ToSet(site.routes))
           /\ \A r \in ToSet(site.routes) : IsRoute(r)
  BY SMT DEF IsRouter, IsRoute

\* The elements of a sequence are those at its positions.
LEMMA Positions ==
    ASSUME NEW s, s \in Seq(ToSet(s))
    PROVE  /\ DOMAIN s = 1..Len(s) /\ Len(s) \in Nat
           /\ ToSet(s) = {s[i] : i \in 1..Len(s)}
<1>1. DOMAIN s = 1..Len(s) /\ Len(s) \in Nat
  OBVIOUS
<1> QED
  BY <1>1, Zenon DEF ToSet

\* Within a site, the route chosen covers the request and none that covers it
\* is more specific; none is chosen only when none covers it.
LEMMA RouteInSite ==
    ASSUME NEW routes, routes \in Seq(ToSet(routes)), \A r \in ToSet(routes) : IsRoute(r),
           NEW path \in Seq(STRING), NEW method
    PROVE  LET answer == MaxByKey(routes, [i \in DOMAIN routes |-> Score(routes[i], path, method)])
               covering == {r \in ToSet(routes) : Covers(r, path, method)}
           IN  /\ answer = {} => covering = {}
               /\ \A r \in answer : r \in covering /\ ~\E q \in covering : MoreSpecific(q, r)
<1> DEFINE keys == [i \in DOMAIN routes |-> Score(routes[i], path, method)]
           n == Len(routes)
           answer == MaxByKey(routes, keys)
           covering == {r \in ToSet(routes) : Covers(r, path, method)}
<1>1. DOMAIN routes = 1..n /\ n \in Nat /\ ToSet(routes) = {routes[i] : i \in 1..n}
  BY Positions, Zenon
<1>2. \A i \in 1..n : keys[i] = Score(routes[i], path, method) /\ IsRoute(routes[i])
  BY <1>1, Zenon
<1>3. ExactScore \in Nat
  BY SMT DEF ExactScore
<1> HIDE DEF keys, n
<1>4. \A i \in 1..n : /\ keys[i] \in 0..ExactScore
                      /\ keys[i] # NoMatch <=> Covers(routes[i], path, method)
  BY <1>2, ScoreIsCover, Zenon
<1>5. \/ answer = {} /\ \A i \in 1..n : keys[i] = NoMatch
      \/ \E i \in 1..n : /\ answer = {routes[i]} /\ keys[i] # NoMatch
                         /\ \A j \in 1..n : keys[j] <= keys[i]
  BY <1>1, <1>3, <1>4, MaxByKeyIsGreatest, Zenon
<1> HIDE DEF answer
<1>6. CASE answer = {} /\ \A i \in 1..n : keys[i] = NoMatch
  <2>1. covering = {}
    BY <1>1, <1>4, <1>6, Zenon
  <2> QED
    BY <1>6, <2>1, Zenon DEF answer, keys
<1>7. ASSUME NEW i \in 1..n, answer = {routes[i]}, keys[i] # NoMatch, \A j \in 1..n : keys[j] <= keys[i]
      PROVE  answer # {} /\ \A r \in answer : r \in covering /\ ~\E q \in covering : MoreSpecific(q, r)
  <2>1. routes[i] \in covering
    BY <1>1, <1>4, <1>7, Zenon
  <2>2. ASSUME NEW q \in covering, MoreSpecific(q, routes[i]) PROVE FALSE
    <3>1. PICK j \in 1..n : q = routes[j]
      BY <1>1, Zenon
    <3>2. Covers(routes[j], path, method) /\ Covers(routes[i], path, method)
      BY <1>4, <1>7, <2>2, <3>1, Zenon
    <3>3. Score(routes[i], path, method) < Score(routes[j], path, method)
      BY <1>2, <2>2, <3>1, <3>2, MoreSpecificScores, Zenon
    <3>4. keys[i] < keys[j] /\ keys[j] <= keys[i]
      BY <1>2, <1>7, <3>3, Zenon
    <3>5. keys[i] \in Nat /\ keys[j] \in Nat
      <4>1. keys[i] \in 0..ExactScore /\ keys[j] \in 0..ExactScore
        BY <1>4, Zenon
      <4> QED
        BY <1>3, <4>1, SMT
    <3> QED
      BY <3>4, <3>5, SMT
  <2> QED
    BY <1>7, <2>1, <2>2, Zenon
<1> QED
  BY <1>5, <1>6, <1>7, Zenon DEF answer, keys

\* Router::route gives the right answer, for every table, host, path and method.
THEOREM RouteIsRight ==
    ASSUME NEW router, IsRouter(router),
           NEW host \in Seq(STRING), NEW path \in Seq(STRING), NEW method
    PROVE  RightAnswer(router, host, path, method, Route(router, host, path, method))
<1> DEFINE n == Len(router)
           keys == [i \in DOMAIN router |-> HostScore(router[i], host)]
           In(s) == MaxByKey(s.routes, [i \in DOMAIN s.routes |-> Score(s.routes[i], path, method)])
           site == MaxByKey(router, keys)
           answer == Route(router, host, path, method)
           sites == ToSet(router)
           Best(s) == Closeness(s, host) > 0
                      /\ \A t \in sites : Closeness(t, host) <= Closeness(s, host)
           covering(s) == {r \in ToSet(s.routes) : Covers(r, path, method)}
<1>0. router \in Seq(ToSet(router))
  BY SMT DEF IsRouter
<1>1. DOMAIN router = 1..n /\ n \in Nat /\ sites = {router[i] : i \in 1..n}
  BY <1>0, Positions, Zenon
<1>2. answer = UNION {In(s) : s \in site}
  BY Zenon DEF Route
<1>3. \A i \in 1..n : keys[i] = Closeness(router[i], host) /\ keys[i] \in 0..3
  <2> SUFFICES ASSUME NEW i \in 1..n PROVE keys[i] = Closeness(router[i], host) /\ keys[i] \in 0..3
    BY Zenon
  <2>1. router[i] \in ToSet(router) /\ keys[i] = HostScore(router[i], host)
    BY <1>1, Zenon
  <2>2. router[i].hosts \in Seq(Seq(STRING))
    BY <2>1, SiteTypes, Zenon
  <2>3. HostScore(router[i], host) = Closeness(router[i], host) /\ Closeness(router[i], host) \in 0..3
    BY <2>2, HostScoreIsCloseness
  <2> QED
    BY <2>1, <2>3, Zenon
<1>4. \A s \in sites : /\ In(s) = {} => covering(s) = {}
                       /\ \A r \in In(s) : r \in covering(s) /\ ~\E q \in covering(s) : MoreSpecific(q, r)
  <2> SUFFICES ASSUME NEW s \in sites
               PROVE  /\ In(s) = {} => covering(s) = {}
                      /\ \A r \in In(s) : r \in covering(s) /\ ~\E q \in covering(s) : MoreSpecific(q, r)
    BY Zenon
  <2>1. s.routes \in Seq(ToSet(s.routes)) /\ \A r \in ToSet(s.routes) : IsRoute(r)
    BY SiteTypes, Zenon
  <2> QED
    BY <2>1, RouteInSite, Zenon
<1>5. RightAnswer(router, host, path, method, answer)
        <=> IF ~\E s \in sites : Best(s) THEN answer = {}
            ELSE \E s \in sites :
                    /\ Best(s)
                    /\ answer = {} => covering(s) = {}
                    /\ \A r \in answer : /\ r \in covering(s)
                                         /\ ~\E q \in covering(s) : MoreSpecific(q, r)
  BY Zenon DEF RightAnswer
<1> HIDE DEF n, keys, answer, In, sites, covering
<1>6. \/ site = {} /\ \A i \in 1..n : keys[i] = NoMatch
      \/ \E i \in 1..n : /\ site = {router[i]} /\ keys[i] # NoMatch
                         /\ \A j \in 1..n : keys[j] <= keys[i]
  BY <1>1, <1>3, MaxByKeyIsGreatest, Zenon
<1> HIDE DEF site
<1>7. CASE site = {} /\ \A i \in 1..n : keys[i] = NoMatch
  <2>1. answer = {}
    BY <1>2, <1>7, Zenon
  <2>2. \A s \in sites : Closeness(s, host) = 0
    BY <1>1, <1>3, <1>7, Zenon DEF NoMatch
  <2>3. ~(0 > 0)
    OBVIOUS
  <2>4. ~\E s \in sites : Best(s)
    BY <2>2, <2>3, Zenon
  <2> QED
    BY <1>5, <2>1, <2>4, Zenon DEF answer
<1>8. ASSUME NEW i \in 1..n, site = {router[i]}, keys[i] # NoMatch, \A j \in 1..n : keys[j] <= keys[i]
      PROVE  RightAnswer(router, host, path, method, answer)
  <2>1. answer = In(router[i]) /\ router[i] \in sites
    BY <1>1, <1>2, <1>8, Zenon
  <2>2. keys[i] > 0
    BY <1>3, <1>8 DEF NoMatch
  <2>3. Best(router[i])
    BY <1>1, <1>3, <1>8, <2>2, Zenon
  <2> HIDE DEF Best
  <2> QED
    BY <1>4, <1>5, <2>1, <2>3, Zenon
<1> QED
  BY <1>6, <1>7, <1>8, Zenon DEF answer

-----------------------------------------------------------------------------
\* A server whose table is one the artifacts' types allow serves every request
\* of every host and path by the most specific route of the closest site.
THEOREM MostSpecificTheorem == ServeSpec => []MostSpecificWins
<1> DEFINE SInv == IsRouter(table.router) /\ MostSpecificWins
<1>1. ServeInit => SInv
  <2>1. NotAsked.method = "none"
    BY DEF NotAsked
  <2> QED
    BY <2>1, Zenon DEF ServeInit, MostSpecificWins
<1>2. SInv /\ [ServeNext]_svars => SInv'
  <2> SUFFICES ASSUME SInv, [ServeNext]_svars PROVE SInv'
    BY Zenon
  <2>1. CASE ServeNext
    <3>1. PICK h \in Hosts, p \in Paths, m \in Methods : Answer(h, p, m)
      BY <2>1, Zenon DEF ServeNext
    <3>2. h \in Seq(STRING) /\ p \in Seq(STRING)
      BY ServingAssumption, Zenon
    <3>3. /\ table' = table /\ asked' = [host |-> h, path |-> p, method |-> m]
          /\ served' = Route(table.router, h, p, m)
      BY <3>1, Zenon DEF Answer
    <3>4. RightAnswer(table.router, h, p, m, Route(table.router, h, p, m))
      BY <3>2, RouteIsRight, Zenon
    <3>5. asked'.host = h /\ asked'.path = p /\ asked'.method = m
      BY <3>3, SMT
    <3>6. IsRouter(table.router)' /\ RightAnswer(table'.router, asked'.host, asked'.path, asked'.method, served')
      BY <3>3, <3>4, <3>5, Zenon
    <3> QED
      BY <3>6, Zenon DEF MostSpecificWins
  <2>2. CASE UNCHANGED svars
    <3>1. table' = table /\ asked' = asked /\ served' = served
      BY <2>2, Zenon DEF svars
    <3> QED
      BY <3>1, Zenon DEF MostSpecificWins
  <2> QED
    BY <2>1, <2>2, Zenon
<1> QED
  BY <1>1, <1>2, PTL DEF ServeSpec
=============================================================================
