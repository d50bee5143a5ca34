---------------------------- MODULE CrawlProofs -----------------------------
(***************************************************************************)
(* Theorems about CrawlSelection, BrowserCrawl and HttpCrawl, for every    *)
(* set of posts and every cap, for any number of sources, posts, tabs,     *)
(* rounds and tries, and for any sites and feeds.                          *)
(***************************************************************************)
EXTENDS CrawlSelection, BrowserCrawl, HttpCrawl, FiniteSetTheorems, WellFoundedInduction, TLAPS

\* Induction over the naturals, for a property that is a set.
LEMMA SetInduction ==
  ASSUME NEW S, 0 \in S, \A n \in Nat : n \in S => n + 1 \in S
  PROVE  Nat \subseteq S
  <1> DEFINE Missing == Nat \ S
  <1> SUFFICES ASSUME Missing # {} PROVE FALSE
    OBVIOUS
  <1>1. PICK n \in Missing : \A m \in Missing : ~(<<m, n>> \in OpToRel(<, Nat))
    BY NatLessThanWellFounded, WFMin
  <1>2. n # 0 /\ n \in Nat /\ n - 1 \in Nat
    OBVIOUS
  <1>3. <<n - 1, n>> \in OpToRel(<, Nat)
    BY <1>2 DEF OpToRel
  <1>4. n - 1 \in S
    BY <1>1, <1>2, <1>3
  <1>5. n \in S
    BY <1>2, <1>4
  <1>6. QED
    BY <1>5

\* A member of SetToSeqs lists the set, each of its members once.
LEMMA ListType ==
  ASSUME NEW T, NEW S, S \subseteq T, IsFiniteSet(S), NEW list \in SetToSeqs(S)
  PROVE  /\ list \in Seq(T) /\ ToSet(list) = S
         /\ Len(list) \in Nat /\ DOMAIN list = 1..Len(list)
         /\ \A i, j \in 1..Len(list) : list[i] \in S /\ (i # j => list[i] # list[j])
  <1> DEFINE n == Cardinality(S)
  <1>1. n \in Nat
    BY FS_CardinalityType
  <1>2. list \in [1..n -> S] /\ \A i, j \in 1..n : i # j => list[i] # list[j]
    BY DEF SetToSeqs
  <1>3. list \in Injection(1..n, S) /\ IsFiniteSet(1..n) /\ Cardinality(1..n) = n
    <2> HIDE DEF n
    <2>1. IsFiniteSet(1..n) /\ Cardinality(1..n) = n
      BY <1>1, FS_Interval
    <2>2. DOMAIN list = 1..n /\ \A a, b \in 1..n : list[a] = list[b] => a = b
      BY <1>2
    <2>3. QED
      BY <1>2, <2>1, <2>2 DEF Injection, IsInjective
  <1>4. list \in Surjection(1..n, S)
    BY <1>3, FS_Injection
  <1> HIDE DEF n
  <1>5. list \in Seq(S) /\ list \in Seq(T)
    BY <1>1, <1>2
  <1>6. Len(list) = n /\ DOMAIN list = 1..n
    BY <1>1, <1>2, <1>5
  <1>7. ToSet(list) = S
    BY <1>2, <1>4, <1>6 DEF ToSet, Surjection
  <1>8. QED
    BY <1>1, <1>2, <1>5, <1>6, <1>7

LEMMA PostsFinite == ASSUME NEW S, S \subseteq Post PROVE IsFiniteSet(S) /\ Cardinality(S) \in Nat
  BY PostAssumption, FS_Subset, FS_CardinalityType

(***************************************************************************)
(* What is known of the posts                                              *)
(***************************************************************************)

\* The first n rows without those that are saved, as the loop of OthersSeen makes them.
OthersAre(f, saved, n) ==
    f = [i \in 0..n |-> IF i = 0 THEN <<>>
                        ELSE IF lastSeen[i] \in saved THEN f[i - 1] ELSE Append(f[i - 1], lastSeen[i])]

LEMMA OthersExist ==
  ASSUME NEW saved
  PROVE  \A n \in Nat : \E f : OthersAre(f, saved, n)
  <1> DEFINE S == {n \in Nat : \E f : OthersAre(f, saved, n)}
  <1>1. 0 \in S
    <2> DEFINE f == [i \in 0..0 |-> <<>>]
    <2>1. OthersAre(f, saved, 0)
      BY DEF OthersAre
    <2>2. QED
      BY <2>1
  <1>2. ASSUME NEW n \in Nat, n \in S PROVE n + 1 \in S
    <2>1. PICK f : OthersAre(f, saved, n)
      BY <1>2
    <2> DEFINE Longer(s, i) == IF lastSeen[i] \in saved THEN s ELSE Append(s, lastSeen[i])
               g == [i \in 0..(n + 1) |-> IF i = n + 1 THEN Longer(f[n], n + 1) ELSE f[i]]
               h == [i \in 0..(n + 1) |-> IF i = 0 THEN <<>> ELSE Longer(g[i - 1], i)]
    <2>2. ASSUME NEW i \in 0..(n + 1) PROVE g[i] = h[i]
      <3>1. CASE i = n + 1
        <4>1. g[i - 1] = f[n] /\ i # 0
          BY <3>1
        <4>2. h[i] = Longer(f[n], n + 1)
          BY <3>1, <4>1
        <4>3. QED
          BY <3>1, <4>2
      <3>2. CASE i \in 0..n
        <4>1. f[i] = IF i = 0 THEN <<>> ELSE Longer(f[i - 1], i)
          BY <2>1, <3>2 DEF OthersAre
        <4>2. i # 0 => g[i - 1] = f[i - 1]
          BY <3>2
        <4>3. g[i] = f[i]
          BY <3>2
        <4>4. QED
          BY <4>1, <4>2, <4>3
      <3>3. QED
        BY <3>1, <3>2
    <2>3. g = h
      BY <2>2
    <2>4. OthersAre(g, saved, n + 1)
      BY <2>3 DEF OthersAre
    <2>5. QED
      BY <2>4
  <1>3. QED
    BY <1>1, <1>2, SetInduction

\* OthersSeen(saved) is what was seen and is not saved, each row once.
LEMMA OthersOnce ==
  ASSUME NEW saved, lastSeen \in Seq(Post), IsInjective(lastSeen)
  PROVE  /\ OthersSeen(saved) \in Seq(Post)
         /\ ToSet(OthersSeen(saved)) = ToSet(lastSeen) \ saved
         /\ IsInjective(OthersSeen(saved))
  <1> DEFINE L == Len(lastSeen)
  <1>1. /\ L \in Nat /\ DOMAIN lastSeen = 1..L
        /\ \A i \in 1..L : lastSeen[i] \in Post
        /\ \A i, j \in 1..L : lastSeen[i] = lastSeen[j] => i = j
    BY DEF IsInjective
  <1>2. PICK f : OthersAre(f, saved, L) /\ OthersSeen(saved) = f[L]
    <2> DEFINE f == CHOOSE f : OthersAre(f, saved, L)
    <2>1. OthersAre(f, saved, L)
      BY <1>1, OthersExist
    <2>2. OthersSeen(saved) = f[L]
      BY DEF OthersSeen, OthersAre
    <2>3. QED
      BY <2>1, <2>2
  <1> DEFINE Upto(n) == {lastSeen[i] : i \in 1..n} \ saved
             OK(s, n) == s \in Seq(Post) /\ ToSet(s) = Upto(n) /\ IsInjective(s)
             Done == {n \in Nat : n \in 0..L => OK(f[n], n)}
  <1>3. 0 \in Done
    <2>1. f[0] = <<>>
      BY <1>1, <1>2 DEF OthersAre
    <2>2. <<>> \in Seq(Post) /\ ToSet(<<>>) = {} /\ IsInjective(<<>>)
      BY DEF ToSet, IsInjective
    <2>3. Upto(0) = {}
      OBVIOUS
    <2> HIDE DEF Upto
    <2>4. OK(f[0], 0)
      BY <2>1, <2>2, <2>3
    <2>5. QED
      BY <2>4
  <1>4. ASSUME NEW n \in Nat, n \in Done PROVE n + 1 \in Done
    <2> SUFFICES ASSUME n + 1 \in 0..L PROVE OK(f[n + 1], n + 1)
      OBVIOUS
    <2> DEFINE p == lastSeen[n + 1]
    <2>1. f[n + 1] = IF p \in saved THEN f[n] ELSE Append(f[n], p)
      <3>1. \A i \in 0..L : f[i] = IF i = 0 THEN <<>>
                                   ELSE IF lastSeen[i] \in saved THEN f[i - 1] ELSE Append(f[i - 1], lastSeen[i])
        BY <1>2 DEF OthersAre
      <3>2. n + 1 \in 0..L /\ n + 1 # 0 /\ (n + 1) - 1 = n
        OBVIOUS
      <3>3. QED
        BY <3>1, <3>2
    <2>2. OK(f[n], n) /\ p \in Post /\ n + 1 \in 1..L
      BY <1>1, <1>4
    <2>3. Upto(n + 1) = Upto(n) \union ({p} \ saved)
      BY <1>1, <2>2
    <2>4. p \notin Upto(n)
      BY <1>1, <2>2
    <2> HIDE DEF Upto, p
    <2>5. CASE p \in saved
      BY <2>1, <2>2, <2>3, <2>5
    <2>6. CASE p \notin saved
      <3> DEFINE s == f[n]
                 t == Append(s, p)
      <3>1. /\ s \in Seq(Post) /\ Len(s) \in Nat /\ DOMAIN s = 1..Len(s)
            /\ ToSet(s) = Upto(n) /\ \A i, j \in 1..Len(s) : s[i] = s[j] => i = j
        BY <2>2 DEF IsInjective
      <3> HIDE DEF s
      <3>2. /\ t \in Seq(Post) /\ Len(t) = Len(s) + 1 /\ DOMAIN t = 1..(Len(s) + 1)
            /\ t[Len(s) + 1] = p /\ \A i \in 1..Len(s) : t[i] = s[i]
        BY <2>2, <3>1
      <3>3. \A i \in 1..Len(s) : s[i] # p
        BY <2>4, <3>1 DEF ToSet
      <3> HIDE DEF t
      <3>4. IsInjective(t)
        BY <3>1, <3>2, <3>3 DEF IsInjective
      <3>5. ToSet(t) = Upto(n + 1)
        BY <2>3, <2>6, <3>1, <3>2 DEF ToSet
      <3>6. QED
        BY <2>1, <2>6, <3>2, <3>4, <3>5 DEF s, t
    <2>7. QED
      BY <2>5, <2>6
  <1>5. Nat \subseteq Done
    BY <1>3, <1>4, SetInduction
  <1>6. OK(f[L], L)
    <2>1. L \in Nat
      BY <1>1
    <2> HIDE DEF OK, L
    <2>2. L \in 0..L /\ L \in Done
      BY <2>1, <1>5
    <2>3. QED
      BY <2>2
  <1>7. Upto(L) = ToSet(lastSeen) \ saved
    BY <1>1 DEF ToSet
  <1>8. QED
    BY <1>2, <1>6, <1>7

\* Rows of a crawl after those it has not touched.
LEMMA OneAfterAnother ==
  ASSUME NEW s \in Seq(Post), NEW t \in Seq(Post), IsInjective(s), IsInjective(t),
         ToSet(s) \intersect ToSet(t) = {}
  PROVE  /\ s \o t \in Seq(Post) /\ IsInjective(s \o t)
         /\ ToSet(s \o t) = ToSet(s) \union ToSet(t)
  <1> DEFINE m == Len(s)
             n == Len(t)
             u == s \o t
  <1>1. /\ m \in Nat /\ n \in Nat /\ DOMAIN s = 1..m /\ DOMAIN t = 1..n
        /\ u \in Seq(Post) /\ DOMAIN u = 1..(m + n)
        /\ \A i \in 1..(m + n) : u[i] = IF i <= m THEN s[i] ELSE t[i - m]
    OBVIOUS
  <1>2. /\ \A i, j \in 1..m : s[i] = s[j] => i = j
        /\ \A i, j \in 1..n : t[i] = t[j] => i = j
        /\ \A i \in 1..m, j \in 1..n : s[i] # t[j]
    <2>1. /\ \A i, j \in 1..m : s[i] = s[j] => i = j
          /\ \A i, j \in 1..n : t[i] = t[j] => i = j
      BY <1>1 DEF IsInjective
    <2>2. /\ \A i \in 1..m : s[i] \in ToSet(s)
          /\ \A j \in 1..n : t[j] \in ToSet(t)
      BY <1>1 DEF ToSet
    <2>3. QED
      BY <2>1, <2>2
  <1> HIDE DEF m, n, u
  <1>3. ASSUME NEW i \in 1..(m + n), NEW j \in 1..(m + n), u[i] = u[j] PROVE i = j
    <2>1. CASE i <= m /\ j <= m
      BY <1>1, <1>2, <1>3, <2>1
    <2>2. CASE i > m /\ j > m
      <3>1. i - m \in 1..n /\ j - m \in 1..n /\ t[i - m] = t[j - m]
        BY <1>1, <1>3, <2>2
      <3>2. i - m = j - m
        BY <1>2, <3>1
      <3>3. QED
        BY <1>1, <3>2
    <2>3. CASE i <= m /\ j > m
      <3>1. j - m \in 1..n /\ i \in 1..m /\ s[i] = t[j - m]
        BY <1>1, <1>3, <2>3
      <3>2. QED
        BY <1>2, <3>1
    <2>4. CASE i > m /\ j <= m
      <3>1. i - m \in 1..n /\ j \in 1..m /\ s[j] = t[i - m]
        BY <1>1, <1>3, <2>4
      <3>2. QED
        BY <1>2, <3>1
    <2>5. QED
      BY <1>1, <2>1, <2>2, <2>3, <2>4
  <1>4. \A x : (\E i \in 1..(m + n) : x = u[i]) <=> (\E i \in 1..m : x = s[i]) \/ (\E j \in 1..n : x = t[j])
    <2>1. \A i \in 1..m : i \in 1..(m + n) /\ u[i] = s[i]
      BY <1>1
    <2>2. \A j \in 1..n : m + j \in 1..(m + n) /\ u[m + j] = t[j]
      BY <1>1
    <2>3. \A i \in 1..(m + n) : (i \in 1..m /\ u[i] = s[i]) \/ (i - m \in 1..n /\ u[i] = t[i - m])
      BY <1>1
    <2>4. QED
      BY <2>1, <2>2, <2>3
  <1>5. ToSet(u) = ToSet(s) \union ToSet(t)
    <2>1. \A x : x \in ToSet(u) <=> \E i \in 1..(m + n) : x = u[i]
      BY <1>1 DEF ToSet
    <2>2. \A x : x \in ToSet(s) <=> \E i \in 1..m : x = s[i]
      BY <1>1 DEF ToSet
    <2>3. \A x : x \in ToSet(t) <=> \E i \in 1..n : x = t[i]
      BY <1>1 DEF ToSet
    <2>4. QED
      BY <1>4, <2>1, <2>2, <2>3
  <1>6. QED
    BY <1>1, <1>3, <1>5 DEF IsInjective, u

\* With the types of the variables, lastSeen is a sequence.
SelectionInv ==
    /\ SelectionTypeOK
    /\ lastSeen \in Seq(Post) /\ comments \in [Post -> Int] /\ counted \in [Post -> Int]

LEMMA SelectionInitInv == SelectionInit => SelectionInv
  <1> SUFFICES ASSUME SelectionInit PROVE SelectionInv
    OBVIOUS
  <1>1. \A p \in Post : comments[p] = 0 /\ counted[p] = NotStored /\ MaxComments[p] \in Nat
    BY SelectionSizes DEF SelectionInit
  <1>2. \A p \in Post : comments[p] \in 0..MaxComments[p] /\ counted[p] \in NotStored..comments[p]
    BY <1>1 DEF NotStored
  <1>3. lastSeen \in Seq(Post) /\ ToSet(lastSeen) = {} /\ IsInjective(lastSeen)
    BY DEF SelectionInit, ToSet, IsInjective
  <1>4. ToSet(lastSeen) = {p \in Post : counted[p] # NotStored}
    BY <1>1, <1>3
  <1>5. comments \in [Post -> Int] /\ counted \in [Post -> Int]
    BY DEF SelectionInit, NotStored
  <1>6. QED
    BY <1>2, <1>3, <1>4, <1>5 DEF SelectionInit, SelectionInv, SelectionTypeOK

LEMMA SelectedPosts == ASSUME NEW urls \in Selection(feed), feed \subseteq Post PROVE urls \subseteq Post
  <1>1. Wanted(feed) \subseteq Post /\ Due \subseteq Post
    BY DEF Wanted, Due, Waiting
  <1>2. \A first \in kSubset(MaxPosts - Cardinality(Due \ feed), Wanted(feed)) : first \subseteq Wanted(feed)
    BY DEF kSubset
  <1>3. QED
    BY <1>1, <1>2 DEF Selection

LEMMA SaveType ==
  ASSUME SelectionInv, NEW fetched, Save(fetched)
  PROVE  SelectionInv'
  <1> DEFINE saved == {p \in fetched : Kept(p)}
  <1>1. /\ picked \subseteq Post /\ fetched \subseteq picked /\ saved \subseteq Post
        /\ lastSeen \in Seq(Post) /\ IsInjective(lastSeen)
        /\ ToSet(lastSeen) = {p \in Post : counted[p] # NotStored}
        /\ comments \in [Post -> Int] /\ counted \in [Post -> Int]
    BY DEF Save, SelectionInv, SelectionTypeOK
  <1>2. counted' = [p \in Post |-> IF p \in saved THEN comments[p] ELSE counted[p]]
    BY DEF Save
  <1>3. PICK saving \in SetToSeqs(saved) : lastSeen' = OthersSeen(saved) \o saving
    BY DEF Save
  <1>4. \A p \in Post : comments[p] \in 0..MaxComments[p] /\ counted[p] \in NotStored..comments[p]
    BY DEF SelectionInv, SelectionTypeOK
  <1>5. UNCHANGED <<feed, age, comments, fresh>> /\ picked' = {} /\ crawling' = FALSE /\ results' \subseteq Post
    BY <1>1 DEF Save, facebook
  <1> HIDE DEF saved
  <1>6. counted' \in [Post -> Int] /\ \A p \in Post : counted'[p] \in NotStored..comments'[p]
    BY <1>1, <1>2, <1>4, <1>5, SelectionSizes DEF NotStored
  <1>7. /\ saving \in Seq(Post) /\ ToSet(saving) = saved /\ IsInjective(saving)
    <2>1. IsFiniteSet(saved)
      BY <1>1, PostsFinite
    <2>2. /\ saving \in Seq(Post) /\ ToSet(saving) = saved /\ DOMAIN saving = 1..Len(saving)
          /\ \A i, j \in 1..Len(saving) : i # j => saving[i] # saving[j]
      BY <1>1, <1>3, <2>1, ListType
    <2>3. QED
      BY <2>2 DEF IsInjective
  <1>8. /\ OthersSeen(saved) \in Seq(Post) /\ IsInjective(OthersSeen(saved))
        /\ ToSet(OthersSeen(saved)) = ToSet(lastSeen) \ saved
    BY <1>1, OthersOnce
  <1>9. /\ lastSeen' \in Seq(Post) /\ IsInjective(lastSeen')
        /\ ToSet(lastSeen') = (ToSet(lastSeen) \ saved) \union saved
    BY <1>3, <1>7, <1>8, OneAfterAnother
  <1>10. ToSet(lastSeen') = {p \in Post : counted'[p] # NotStored}
    <2>1. \A p \in Post : counted'[p] # NotStored <=> (p \in saved \/ counted[p] # NotStored)
      BY <1>1, <1>2, <1>4, SelectionSizes DEF NotStored
    <2>2. QED
      BY <1>1, <1>9, <2>1
  <1>11. /\ feed \subseteq Post /\ fresh \subseteq Post /\ age \in [Post -> {"unborn", "new", "old"}]
    BY DEF SelectionInv, SelectionTypeOK
  <1>12. QED
    BY <1>1, <1>4, <1>5, <1>6, <1>9, <1>10, <1>11 DEF SelectionInv, SelectionTypeOK

LEMMA SelectionStep == SelectionInv /\ [SelectionNext]_selectionVars => SelectionInv'
  <1> SUFFICES ASSUME SelectionInv, [SelectionNext]_selectionVars PROVE SelectionInv'
    OBVIOUS
  <1> USE DEF SelectionInv, SelectionTypeOK
  <1>1. ASSUME NEW p \in Post, Publish(p) \/ Age(p) \/ Leave(p) \/ Quiet(p) PROVE SelectionInv'
    <2>1. UNCHANGED <<comments, counted, lastSeen, crawling, picked, results>>
      BY <1>1 DEF Publish, Age, Leave, Quiet, Unchanged
    <2>2. feed' \subseteq Post /\ fresh' \subseteq Post /\ age' \in [Post -> {"unborn", "new", "old"}]
      BY <1>1 DEF Publish, Age, Leave, Quiet
    <2>3. QED
      BY <2>1, <2>2
  <1>2. ASSUME NEW p \in Post, Reply(p) PROVE SelectionInv'
    <2>1. UNCHANGED <<age, counted, lastSeen, crawling, picked, results>>
      BY <1>2 DEF Reply, Unchanged
    <2>2. /\ comments[p] < MaxComments[p] /\ comments' = [comments EXCEPT ![p] = comments[p] + 1]
          /\ feed' \subseteq Post /\ fresh' \subseteq Post
      BY <1>2 DEF Reply
    <2>3. comments \in [Post -> Int] /\ counted \in [Post -> Int] /\ MaxComments \in [Post -> Nat]
      BY SelectionSizes
    <2>4. \A q \in Post : comments[q] \in 0..MaxComments[q] /\ counted[q] \in NotStored..comments[q]
      OBVIOUS
    <2>5. /\ comments' \in [Post -> Int]
          /\ \A q \in Post : comments'[q] \in 0..MaxComments[q] /\ counted[q] \in NotStored..comments'[q]
      BY <2>2, <2>3, <2>4 DEF NotStored
    <2>6. QED
      BY <2>1, <2>2, <2>5
  <1>3. CASE Discover
    <2>1. picked' \subseteq Post /\ crawling' = TRUE /\ UNCHANGED <<feed, age, comments, fresh, counted, lastSeen, results>>
      BY <1>3, SelectedPosts DEF Discover, facebook
    <2>2. QED
      BY <2>1
  <1>4. CASE SaveSome
    BY <1>4, SaveType DEF SaveSome
  <1>5. CASE Fail
    BY <1>5 DEF Fail, facebook
  <1>6. CASE UNCHANGED selectionVars
    BY <1>6 DEF selectionVars
  <1>7. QED
    BY <1>1, <1>2, <1>3, <1>4, <1>5, <1>6 DEF SelectionNext

\* The rows count no more comments than there are, and list_posts_to_recheck has every stored
\* post once, however often crawls have seen it.
THEOREM SelectionTypeCorrect == SelectionSpec => []SelectionTypeOK
  <1>1. SelectionInv => SelectionTypeOK
    BY DEF SelectionInv
  <1>2. QED
    BY SelectionInitInv, SelectionStep, <1>1, PTL DEF SelectionSpec

(***************************************************************************)
(* The cap                                                                 *)
(***************************************************************************)

\* Over the cap, the rechecks outside the feed and what fills the room they leave are the
\* cap together.
LEMMA SelectionBounded ==
  ASSUME NEW seen, seen \subseteq Post, ~Profile, NEW urls \in Selection(seen)
  PROVE  Cardinality(urls) <= MaxPosts
  <1> DEFINE recheckOnly == Due \ seen
             all == Wanted(seen) \union recheckOnly
             room == MaxPosts - Cardinality(recheckOnly)
  <1>1. recheckOnly \subseteq Post /\ Wanted(seen) \subseteq Post
    BY DEF Due, Waiting, Wanted
  <1>2. CASE urls = all /\ Cardinality(all) <= MaxPosts
    BY <1>2
  <1>3. ASSUME NEW first \in kSubset(room, Wanted(seen)), urls = first \union recheckOnly
        PROVE  Cardinality(urls) <= MaxPosts
    <2>1. first \subseteq Post /\ Cardinality(first) = room
      BY <1>1, <1>3 DEF kSubset
    <2>2. IsFiniteSet(first) /\ IsFiniteSet(recheckOnly) /\ Cardinality(recheckOnly) \in Nat
          /\ Cardinality(first \intersect recheckOnly) \in Nat
      BY <1>1, <2>1, PostsFinite
    <2>3. Cardinality(first \union recheckOnly) =
              Cardinality(first) + Cardinality(recheckOnly) - Cardinality(first \intersect recheckOnly)
      BY <2>2, FS_Union
    <2>4. QED
      BY <1>3, <2>1, <2>2, <2>3, SelectionSizes
  <1>4. \/ urls = all /\ Cardinality(all) <= MaxPosts
        \/ \E first \in kSubset(room, Wanted(seen)) : urls = first \union recheckOnly
    BY DEF Selection
  <1>5. QED
    BY <1>2, <1>3, <1>4

FetchInv == feed \subseteq Post /\ FetchBounded

\* What Facebook does.
Outside == \E p \in Post : Publish(p) \/ Age(p) \/ Leave(p) \/ Reply(p) \/ Quiet(p)

LEMMA FetchStep == FetchInv /\ [SelectionNext]_selectionVars => FetchInv'
  <1> SUFFICES ASSUME FetchInv, [SelectionNext]_selectionVars PROVE FetchInv'
    OBVIOUS
  <1>1. CASE Outside
    BY <1>1 DEF Outside, Publish, Age, Leave, Reply, Quiet, Unchanged, FetchInv, FetchBounded
  <1>2. CASE Discover
    BY <1>2, SelectionBounded DEF Discover, facebook, FetchInv, FetchBounded
  <1>3. CASE SaveSome \/ Fail
    <2>1. picked' = {} /\ UNCHANGED feed
      BY <1>3 DEF SaveSome, Save, Fail, facebook
    <2>2. QED
      BY <2>1, FS_EmptySet, SelectionSizes DEF FetchInv, FetchBounded
  <1>4. CASE UNCHANGED selectionVars
    BY <1>4 DEF selectionVars, facebook, FetchInv, FetchBounded
  <1>5. QED
    BY <1>1, <1>2, <1>3, <1>4 DEF SelectionNext, Outside

\* No crawl fetches more than its cap, whatever the feed and the stored posts are.
THEOREM FetchesBounded == SelectionSpec => []FetchBounded
  <1>1. SelectionInit => FetchInv
    BY FS_EmptySet, SelectionSizes DEF SelectionInit, FetchInv, FetchBounded
  <1>2. FetchInv /\ [SelectionNext]_selectionVars => FetchInv'
    BY FetchStep
  <1>3. FetchInv => FetchBounded
    BY DEF FetchInv
  <1>4. QED
    BY <1>1, <1>2, <1>3, PTL DEF SelectionSpec

(***************************************************************************)
(* What is reported                                                        *)
(***************************************************************************)

RowsInv ==
    /\ comments \in [Post -> Nat] /\ counted \in [Post -> Nat \union {NotStored}]
    /\ picked \subseteq Post
    /\ ReportedStored

\* A post that is reported was new, and so was kept, or has had a row before.
LEMMA SaveReports ==
  ASSUME RowsInv, NEW fetched \in SUBSET picked, Save(fetched)
  PROVE  RowsInv'
  <1>1. counted' = [p \in Post |-> IF p \in fetched /\ Kept(p) THEN comments[p] ELSE counted[p]]
    BY DEF Save
  <1>2. counted' \in [Post -> Nat \union {NotStored}] /\ UNCHANGED comments /\ picked' = {}
    BY <1>1 DEF RowsInv, Save, facebook
  <1>3. ASSUME NEW p \in fetched, Reported(p), p \notin Copies PROVE p \in Post /\ counted'[p] # NotStored
    <2>1. Kept(p) /\ p \in Post
      BY <1>3 DEF Reported, Kept, RowsInv
    <2>2. counted'[p] \in Nat
      BY <1>1, <2>1 DEF RowsInv
    <2>3. QED
      BY <2>1, <2>2 DEF NotStored
  <1>4. ReportedStored'
    BY <1>3 DEF ReportedStored, Save
  <1>5. QED
    BY <1>2, <1>4 DEF RowsInv

LEMMA RowsStep == RowsInv /\ FetchInv /\ [SelectionNext]_selectionVars => RowsInv'
  <1> SUFFICES ASSUME RowsInv, FetchInv, [SelectionNext]_selectionVars PROVE RowsInv'
    OBVIOUS
  <1>1. CASE Outside
    <2>1. comments' \in [Post -> Nat] /\ UNCHANGED <<counted, picked, results>>
      BY <1>1 DEF Outside, Publish, Age, Leave, Reply, Quiet, Unchanged, RowsInv
    <2>2. QED
      BY <2>1 DEF RowsInv, ReportedStored
  <1>2. CASE Discover
    <2>1. picked' \subseteq Post
      BY <1>2 DEF Discover, Selection, FetchInv, Wanted, Due, Waiting, kSubset
    <2>2. QED
      BY <1>2, <2>1 DEF Discover, facebook, RowsInv, ReportedStored
  <1>3. CASE SaveSome
    BY <1>3, SaveReports DEF SaveSome
  <1>4. CASE Fail
    BY <1>4 DEF Fail, facebook, RowsInv, ReportedStored
  <1>5. CASE UNCHANGED selectionVars
    BY <1>5 DEF selectionVars, facebook, RowsInv, ReportedStored
  <1>6. QED
    BY <1>1, <1>2, <1>3, <1>4, <1>5 DEF SelectionNext, Outside

\* Every post a crawl reports has a row, unless it is a copy of another one.
THEOREM ReportsStored == SelectionSpec => []ReportedStored
  <1>1. SelectionInit => RowsInv /\ FetchInv
    BY FS_EmptySet, SelectionSizes DEF SelectionInit, RowsInv, ReportedStored, FetchInv, FetchBounded, NotStored
  <1>2. RowsInv /\ FetchInv /\ [SelectionNext]_selectionVars => (RowsInv /\ FetchInv)'
    BY RowsStep, FetchStep
  <1>3. RowsInv => ReportedStored
    BY DEF RowsInv
  <1>4. QED
    BY <1>1, <1>2, <1>3, PTL DEF SelectionSpec

(***************************************************************************)
(* The session of a profile's crawl is spared                              *)
(*                                                                         *)
(* SessionSpared speaks of all tabs of the context, a semaphore only of    *)
(* those of its own source.  The invariant therefore says that no task of  *)
(* an earlier source is left: every way to the next source comes when the  *)
(* tasks have returned or cancels them.                                    *)
(***************************************************************************)

TabState == {"none", "waiting", "loading", "kept", "skipped", "raised", "cancelled"}

\* The feed is scrolled only while both of its bounds leave a round, and afresh for every source.
BrowserInv ==
    /\ BrowserTypeOK
    /\ phase = "open" => rounds = 0 /\ quiet = 0
    /\ phase = "scroll" => rounds < MaxRounds /\ quiet < Patience

LEMMA BrowserSizes == Sources \in Nat \ {0} /\ MaxRounds \in Nat \ {0} /\ Patience \in Nat \ {0} /\ Tries \in Nat \ {0}
  BY BrowserAssumption

LEMMA TabsOf == ASSUME tab \in [Link -> TabState], NEW p, NEW state \in TabState
                PROVE  [tab EXCEPT ![p] = state] \in [Link -> TabState] /\ AfterRaise(p) \in [Link -> TabState]
  <1>1. "raised" \in TabState /\ "cancelled" \in TabState
    BY DEF TabState
  <1>2. [tab EXCEPT ![p] = state] \in [Link -> TabState]
    OBVIOUS
  <1>3. AfterRaise(p) \in [Link -> TabState]
    BY <1>1 DEF AfterRaise
  <1>4. QED
    BY <1>2, <1>3

\* The session is closed, or the next source is opened.
LEMMA EndSource ==
  ASSUME BrowserInv, NEW after \in [Link -> TabState], Close(after) \/ NextSource(after),
         kind' = kind, session' \in {"live", "expired", "checkpoint"},
         named' \subseteq 1..Sources, refreshed' \in BOOLEAN, met' \in BOOLEAN, tries' = tries
  PROVE  BrowserInv'
  <1>1. CASE Close(after)
    <2>1. phase' = "closed" /\ UNCHANGED <<source, rounds, quiet, found>>
      BY <1>1 DEF Close
    <2>2. tab' \in [Link -> TabState]
      BY <1>1 DEF Close, TabState
    <2>3. QED
      BY <2>1, <2>2 DEF BrowserInv, BrowserTypeOK, TabState
  <1>2. CASE NextSource(after) /\ ~Close(after)
    <2>1. /\ source # Sources /\ source' = source + 1 /\ phase' = "open"
          /\ rounds' = 0 /\ quiet' = 0 /\ found' = {} /\ tab' = after
      BY <1>2 DEF NextSource
    <2>2. source \in 1..Sources
      BY DEF BrowserInv, BrowserTypeOK
    <2>3. source' \in 1..Sources /\ rounds' \in 0..MaxRounds /\ quiet' \in 0..Patience
      BY <2>1, <2>2, BrowserSizes
    <2>4. QED
      BY <2>1, <2>3 DEF BrowserInv, BrowserTypeOK, TabState
  <1>3. QED
    BY <1>1, <1>2

\* A task goes on.
LEMMA TaskStep ==
  ASSUME BrowserInv, tab' \in [Link -> TabState], tries' \in [Link -> 0..Tries], met' \in BOOLEAN,
         UNCHANGED <<kind, session, source, phase, rounds, quiet, found, named, refreshed>>
  PROVE  BrowserInv'
  BY DEF BrowserInv, BrowserTypeOK, TabState

LEMMA LoadedType ==
  ASSUME BrowserInv, NEW p \in Link, Loaded(p)
  PROVE  BrowserInv'
  <1>1. /\ tab \in [Link -> TabState] /\ tries \in [Link -> 0..Tries] /\ met \in BOOLEAN
        /\ session \in {"live", "expired", "checkpoint"} /\ named \subseteq 1..Sources /\ refreshed \in BOOLEAN
    BY DEF BrowserInv, BrowserTypeOK, TabState
  <1>2. UNCHANGED <<kind, session, named, refreshed>>
    BY DEF Loaded
  <1>3. AfterRaise(p) \in [Link -> TabState]
    BY <1>1, TabsOf DEF TabState
  <1>4. ASSUME NEW state \in {"kept", "skipped"}, Settle(p, state), met' \in BOOLEAN PROVE BrowserInv'
    <2>1. state \in TabState
      BY DEF TabState
    <2>2. tab' \in [Link -> TabState] /\ UNCHANGED <<source, phase, rounds, quiet, found, tries>>
      BY <1>1, <1>4, <2>1, TabsOf DEF Settle
    <2>3. QED
      BY <1>1, <1>2, <1>4, <2>2, TaskStep
  <1>5. ASSUME Raise(p), met' = met PROVE BrowserInv'
    <2>1. UNCHANGED tries
      BY <1>5 DEF Raise
    <2>2. CASE Awaited(p)
      <3>1. NextSource(AfterRaise(p))
        BY <1>5, <2>2 DEF Raise
      <3>2. QED
        BY <1>1, <1>2, <1>3, <1>5, <2>1, <3>1, EndSource
    <2>3. CASE ~Awaited(p)
      <3>1. tab' = AfterRaise(p) /\ UNCHANGED <<source, phase, rounds, quiet, found>>
        BY <1>5, <2>3 DEF Raise
      <3>2. QED
        BY <1>1, <1>2, <1>3, <1>5, <2>1, <3>1, TaskStep
    <2>4. QED
      BY <2>2, <2>3
  <1>6. CASE LoadPost(p)
    <2>1. CASE \E result \in PostPage : Settle(p, result) /\ met' = (met \/ session = "checkpoint")
      <3>1. PICK result \in PostPage : Settle(p, result) /\ met' = (met \/ session = "checkpoint")
        BY <2>1
      <3>2. result \in {"kept", "skipped"}
        BY DEF PostPage
      <3>3. met' \in BOOLEAN
        BY <1>1, <3>1
      <3>4. QED
        BY <1>4, <3>1, <3>2, <3>3
    <2>2. CASE Raise(p) /\ UNCHANGED met
      BY <1>5, <2>2
    <2>3. QED
      BY <1>6, <2>1, <2>2 DEF LoadPost
  <1>7. CASE LoadComments(p)
    <2>1. CASE Close(AfterRaise(p)) /\ met' = TRUE /\ UNCHANGED tries
      <3>1. met' \in BOOLEAN
        BY <2>1
      <3>2. QED
        BY <1>1, <1>2, <1>3, <2>1, <3>1, EndSource
    <2>2. CASE Settle(p, "kept") /\ UNCHANGED met
      BY <1>1, <1>4, <2>2
    <2>3. CASE /\ tries[p] + 1 < Tries
               /\ tries' = [tries EXCEPT ![p] = tries[p] + 1]
               /\ UNCHANGED <<source, phase, rounds, quiet, found, tab, met>>
      <3>1. tries' \in [Link -> 0..Tries]
        BY <1>1, <2>3, BrowserSizes
      <3>2. QED
        BY <1>1, <1>2, <2>3, <3>1, TaskStep
    <2>4. CASE Raise(p) /\ UNCHANGED met
      BY <1>5, <2>4
    <2>5. QED
      BY <1>7, <2>1, <2>2, <2>3, <2>4 DEF LoadComments
  <1>8. QED
    BY <1>6, <1>7 DEF Loaded

\* A round of the scrolling.
LEMMA RoundType ==
  ASSUME BrowserInv, NEW shown \in SUBSET (Own \ found), NEW new \in BOOLEAN, NEW last \in BOOLEAN,
         Round(shown, new, last)
  PROVE  BrowserInv'
  <1>1. /\ phase = "scroll" /\ rounds' = rounds + 1 /\ quiet' = IF new THEN 0 ELSE quiet + 1
        /\ UNCHANGED <<kind, session, source, tab, tries, named, refreshed, met>>
    BY DEF Round
  <1>2. phase' = IF quiet' = Patience \/ rounds' = MaxRounds \/ last THEN "choose" ELSE "scroll"
    BY DEF Round
  <1>3. found' \subseteq Link
    BY DEF Round, Own, BrowserInv, BrowserTypeOK
  <1>4. rounds \in 0..MaxRounds /\ quiet \in 0..Patience /\ rounds < MaxRounds /\ quiet < Patience
    BY <1>1 DEF BrowserInv, BrowserTypeOK
  <1>5. /\ rounds' \in 0..MaxRounds /\ quiet' \in 0..Patience
        /\ quiet' # Patience /\ rounds' # MaxRounds => rounds' < MaxRounds /\ quiet' < Patience
    BY <1>1, <1>4, BrowserSizes
  <1>6. /\ phase' \in {"choose", "scroll"}
        /\ phase' = "scroll" => rounds' < MaxRounds /\ quiet' < Patience
    BY <1>2, <1>5
  <1>7. QED
    BY <1>1, <1>2, <1>3, <1>5, <1>6 DEF BrowserInv, BrowserTypeOK

LEMMA BrowserStepType == BrowserInv /\ [BrowserNext]_browserVars => BrowserInv'
  <1> SUFFICES ASSUME BrowserInv, [BrowserNext]_browserVars PROVE BrowserInv'
    OBVIOUS
  <1>1. /\ tab \in [Link -> TabState] /\ tries \in [Link -> 0..Tries] /\ met \in BOOLEAN
        /\ session \in {"live", "expired", "checkpoint"} /\ named \subseteq 1..Sources /\ refreshed \in BOOLEAN
        /\ source \in 1..Sources
    BY DEF BrowserInv, BrowserTypeOK, TabState
  <1>2. CASE LoseSession
    <2>1. session' \in {"live", "expired", "checkpoint"}
      BY <1>2 DEF LoseSession
    <2>2. QED
      BY <1>2, <2>1 DEF LoseSession, BrowserInv, BrowserTypeOK
  <1>3. CASE OpenSource
    <2>1. phase = "open" /\ UNCHANGED <<kind, session, tries, refreshed, met>>
      BY <1>3 DEF OpenSource
    <2>2. ASSUME (Close(tab) \/ NextSource(tab)), UNCHANGED named PROVE BrowserInv'
      BY <1>1, <2>1, <2>2, EndSource
    <2>3. ASSUME BeginScroll, Named PROVE BrowserInv'
      <3>1. phase' = "scroll" /\ UNCHANGED <<source, rounds, quiet, found, tab>>
        BY <2>3 DEF BeginScroll
      <3>2. named' \subseteq 1..Sources
        BY <1>1, <2>3 DEF Named
      <3>3. rounds' < MaxRounds /\ quiet' < Patience
        BY <2>1, <3>1, BrowserSizes DEF BrowserInv
      <3>4. QED
        BY <2>1, <3>1, <3>2, <3>3 DEF BrowserInv, BrowserTypeOK
    <2>4. QED
      BY <1>3, <2>2, <2>3 DEF OpenSource, OpenFeed, OpenTimeline
  <1>4. CASE Login
    <2>1. session' \in {"live", "expired", "checkpoint"} /\ refreshed' = TRUE /\ UNCHANGED <<kind, tries, named, met>>
      BY <1>1, <1>4 DEF Login
    <2>2. NextSource(tab) \/ Close(tab)
      BY <1>4 DEF Login
    <2>3. named' \subseteq 1..Sources /\ met' \in BOOLEAN /\ refreshed' \in BOOLEAN
      BY <1>1, <2>1
    <2>4. QED
      BY <1>1, <2>1, <2>2, <2>3, EndSource
  <1>5. CASE OutOfTime
    BY <1>1, <1>5, EndSource DEF OutOfTime
  <1>6. CASE ScrollFeed
    <2>1. PICK shown \in SUBSET (Own \ found) : Round(shown, shown # {}, FALSE)
      BY <1>6 DEF ScrollFeed
    <2>2. (shown # {}) \in BOOLEAN /\ FALSE \in BOOLEAN
      OBVIOUS
    <2>3. QED
      BY <2>1, <2>2, RoundType
  <1>7. CASE ScrollTimeline
    <2>1. PICK shown \in SUBSET (Own \ found), noise \in BOOLEAN, old \in BOOLEAN :
            Round(shown, shown # {} \/ noise, old /\ found \union shown # {})
      BY <1>7 DEF ScrollTimeline
    <2>2. (shown # {} \/ noise) \in BOOLEAN /\ (old /\ found \union shown # {}) \in BOOLEAN
      OBVIOUS
    <2>3. QED
      BY <2>1, <2>2, RoundType
  <1>8. CASE ScrollError
    BY <1>1, <1>8, EndSource DEF ScrollError
  <1>9. CASE Choose
    <2>1. tab' \in [Link -> TabState]
      BY <1>1, <1>9 DEF Choose, TabState
    <2>2. phase' = "fetch" /\ UNCHANGED <<kind, session, source, rounds, quiet, found, tries, named, refreshed, met>>
      BY <1>9 DEF Choose
    <2>3. QED
      BY <2>1, <2>2 DEF BrowserInv, BrowserTypeOK, TabState
  <1>10. CASE Finish
    <2>1. UNCHANGED <<kind, session, tries, named, refreshed, met>>
      BY <1>10 DEF Finish
    <2>2. CASE NextSource(tab)
      BY <1>1, <2>1, <2>2, EndSource
    <2>3. CASE phase' = "login" /\ UNCHANGED <<source, rounds, quiet, found, tab>>
      BY <2>1, <2>3 DEF BrowserInv, BrowserTypeOK
    <2>4. QED
      BY <1>10, <2>2, <2>3 DEF Finish
  <1>11. ASSUME NEW p \in Link, Load(p) PROVE BrowserInv'
    <2>1. tab' \in [Link -> TabState]
      BY <1>1, <1>11, TabsOf DEF Load, TabState
    <2>2. QED
      BY <1>1, <1>11, <2>1, TaskStep DEF Load
  <1>12. CASE UNCHANGED browserVars
    BY <1>12 DEF browserVars, BrowserInv, BrowserTypeOK
  <1>13. QED
    BY <1>2, <1>3, <1>4, <1>5, <1>6, <1>7, <1>8, <1>9, <1>10, <1>11, <1>12, LoadedType DEF BrowserNext, BrowserStep

\* A session keeps its types: the batch never runs past its last source, and no feed is
\* scrolled and no post tried more often than the bounds allow.
THEOREM BrowserTypeCorrect == BrowserSpec => []BrowserTypeOK
  <1>1. BrowserInit => BrowserInv
    <2> SUFFICES ASSUME BrowserInit PROVE BrowserInv
      OBVIOUS
    <2>1. source \in 1..Sources /\ rounds \in 0..MaxRounds /\ quiet \in 0..Patience
      BY BrowserSizes DEF BrowserInit
    <2>2. tab \in [Link -> TabState] /\ tries \in [Link -> 0..Tries]
      BY BrowserSizes DEF BrowserInit, TabState
    <2>3. QED
      BY <2>1, <2>2 DEF BrowserInit, BrowserInv, BrowserTypeOK, TabState
  <1>2. BrowserInv => BrowserTypeOK
    BY DEF BrowserInv
  <1>3. QED
    BY <1>1, <1>2, BrowserStepType, PTL DEF BrowserSpec

\* Tasks belong to the source at hand and are there only while it is waited for; after
\* the checkpoint the session is closed.
SparedInv == kind = "profile" =>
    /\ tab \in [Link -> TabState]
    /\ found \subseteq Own
    /\ Pending \subseteq Own
    /\ Pending # {} => phase = "fetch"
    /\ Cardinality(Loading) <= Tabs
    /\ met => phase = "closed"

\* There are finitely many posts, and with them finitely many tabs.
LEMMA LinksFinite == IsFiniteSet(Link) /\ Tabs \in Nat /\ Sources \in Nat
<1>1. Sources \in Nat /\ Links \in Nat /\ Tabs \in Nat
  BY BrowserAssumption
<1>2. IsFiniteSet(1..Sources) /\ IsFiniteSet(1..Links)
  BY <1>1, FS_Interval
<1>3. QED
  BY <1>1, <1>2, FS_Product DEF Link

\* A step after which no task is left keeps the invariant.
LEMMA NoTabLeft ==
    ASSUME tab' \in [Link -> TabState], found' \subseteq Own', Pending' = {}, met' => phase' = "closed"
    PROVE  SparedInv'
<1>1. Loading' = {}
  BY DEF Loading, Pending
<1>2. Cardinality(Loading') <= Tabs
  BY <1>1, FS_EmptySet, LinksFinite
<1>3. QED
  BY <1>2 DEF SparedInv

\* Fewer loads keep the limit.
LEMMA FewerLoads ==
    ASSUME Cardinality(Loading) <= Tabs, Loading' \subseteq Loading
    PROVE  Cardinality(Loading') <= Tabs
<1>1. IsFiniteSet(Loading)
  BY LinksFinite, FS_Subset DEF Loading
<1>2. Cardinality(Loading') <= Cardinality(Loading) /\ Cardinality(Loading') \in Nat /\ Cardinality(Loading) \in Nat
  BY <1>1, FS_Subset, FS_CardinalityType
<1>3. QED
  BY <1>2, LinksFinite

\* Closing the context ends every task there is.
LEMMA Closed ==
    ASSUME NEW after \in [Link -> TabState], found \subseteq Own, Close(after),
           \A p \in Link \ Pending : after[p] \notin {"waiting", "loading"}
    PROVE  SparedInv'
<1>1. tab' \in [Link -> TabState] /\ found' \subseteq Own' /\ phase' = "closed"
  BY DEF Close, Own, TabState
<1>2. Pending' = {}
  BY DEF Close, Pending
<1>3. QED
  BY <1>1, <1>2, NoTabLeft

\* So does going on to the next source, when none of the tasks is left.
LEMMA NextOne ==
    ASSUME NEW after \in [Link -> TabState], found \subseteq Own, NextSource(after), ~met, met' = met,
           \A p \in Link : after[p] \notin {"waiting", "loading"}
    PROVE  SparedInv'
<1>1. CASE source = Sources
  BY <1>1, Closed DEF NextSource
<1>2. CASE source # Sources
  <2>1. tab' = after /\ found' = {}
    BY <1>2 DEF NextSource
  <2>2. Pending' = {}
    BY <2>1 DEF Pending
  <2>3. QED
    BY <2>1, <2>2, NoTabLeft
<1>3. QED
  BY <1>1, <1>2

\* Every step of a profile's crawl keeps the invariant.
LEMMA SparedStep ==
    ASSUME SparedInv, [BrowserNext]_browserVars
    PROVE  SparedInv'
<1>1. kind' = kind
  BY DEF BrowserNext, BrowserStep, browserVars, LoseSession, OpenSource, Login, OutOfTime, ScrollFeed,
         ScrollTimeline, Round, ScrollError, Choose, Finish, Load, Loaded
<1>2. CASE kind # "profile"
  BY <1>1, <1>2 DEF SparedInv
<1>3. CASE kind = "profile"
  <2>. USE <1>3
  <2>1. /\ tab \in [Link -> TabState] /\ found \subseteq Own /\ Pending \subseteq Own
        /\ Pending # {} => phase = "fetch"
        /\ Cardinality(Loading) <= Tabs
        /\ met => phase = "closed"
    BY DEF SparedInv
  <2>2. ASSUME Pending = {} PROVE \A p \in Link : tab[p] \notin {"waiting", "loading"}
    BY <2>2 DEF Pending
  <2>3. CASE LoseSession
    <3>1. UNCHANGED <<source, phase, found, tab, met>>
      BY <2>3 DEF LoseSession
    <3>2. QED
      BY <2>1, <3>1, <1>1 DEF SparedInv, Own, Pending, Loading
  <2>4. CASE OpenSource
    <3>1. Pending = {} /\ ~met /\ met' = met /\ OpenTimeline
      BY <2>1, <2>4 DEF OpenSource
    <3>2. CASE Close(tab)
      BY <2>1, <2>2, <3>1, <3>2, Closed
    <3>3. CASE NextSource(tab)
      BY <2>1, <2>2, <3>1, <3>3, NextOne
    <3>4. CASE BeginScroll
      BY <2>1, <3>1, <3>4, NoTabLeft DEF BeginScroll, Pending, Own
    <3>5. QED
      BY <3>1, <3>2, <3>3, <3>4 DEF OpenTimeline
  <2>5. CASE Login
    <3>1. Pending = {} /\ ~met /\ met' = met
      BY <2>1, <2>5 DEF Login
    <3>2. CASE Close(tab)
      BY <2>1, <2>2, <3>1, <3>2, Closed
    <3>3. CASE NextSource(tab)
      BY <2>1, <2>2, <3>1, <3>3, NextOne
    <3>4. QED
      BY <2>5, <3>2, <3>3 DEF Login
  <2>6. CASE OutOfTime
    <3>1. Close(tab)
      BY <2>6 DEF OutOfTime
    <3>2. \A p \in Link \ Pending : tab[p] \notin {"waiting", "loading"}
      BY DEF Pending
    <3>3. QED
      BY <2>1, <3>1, <3>2, Closed
  <2>7. CASE ScrollFeed \/ ScrollError
    BY <2>7 DEF ScrollFeed, ScrollError
  <2>8. CASE ScrollTimeline
    <3>1. phase = "scroll" /\ UNCHANGED <<source, tab, met>>
      BY <2>8 DEF ScrollTimeline, Round
    <3>2. found' \subseteq Own'
      BY <2>1, <2>8, <3>1 DEF ScrollTimeline, Round, Own
    <3>3. Pending' = {} /\ ~met
      BY <2>1, <3>1 DEF Pending
    <3>4. QED
      BY <2>1, <3>1, <3>2, <3>3, NoTabLeft
  <2>9. CASE Choose
    <3>1. Pending = {} /\ ~met /\ UNCHANGED <<source, found, met>> /\ phase' = "fetch"
      BY <2>1, <2>9 DEF Choose
    <3>2. PICK chosen \in SUBSET found : tab' = [p \in Link |-> IF p \in chosen THEN "waiting" ELSE tab[p]]
      BY <2>9 DEF Choose
    <3>3. tab' \in [Link -> TabState] /\ Pending' \subseteq Own' /\ Loading' \subseteq Loading
      BY <2>1, <2>2, <3>1, <3>2 DEF Pending, Loading, Own, TabState
    <3>4. Cardinality(Loading') <= Tabs
      BY <2>1, <3>3, FewerLoads
    <3>5. QED
      BY <2>1, <3>1, <3>3, <3>4 DEF SparedInv, Own
  <2>10. CASE Finish
    <3>1. Pending = {} /\ ~met /\ met' = met
      BY <2>1, <2>10 DEF Finish
    <3>2. CASE NextSource(tab)
      BY <2>1, <2>2, <3>1, <3>2, NextOne
    <3>3. CASE UNCHANGED <<source, found, tab>>
      BY <2>1, <3>1, <3>3, NoTabLeft DEF Pending, Own
    <3>4. QED
      BY <2>10, <3>2, <3>3 DEF Finish
  <2>11. ASSUME NEW p \in Link, Load(p) PROVE SparedInv'
    <3>1. /\ tab[p] = "waiting" /\ tab' = [tab EXCEPT ![p] = "loading"]
          /\ UNCHANGED <<source, phase, found, met>>
      BY <2>11 DEF Load
    <3>2. p \in Pending /\ phase = "fetch" /\ p[1] = source
      BY <2>1, <3>1 DEF Pending, Own
    <3>3. {q \in Loading : q[1] = p[1]} = Loading
      BY <2>1, <3>2 DEF Loading, Pending, Own
    <3>4. Cardinality(Loading) < Tabs
      BY <2>11, <3>3 DEF Load
    <3>5. Loading' = Loading \union {p} /\ p \notin Loading /\ Pending' = Pending
      BY <2>1, <3>1 DEF Loading, Pending
    <3>6. IsFiniteSet(Loading)
      BY LinksFinite, FS_Subset DEF Loading
    <3>7. Cardinality(Loading') = Cardinality(Loading) + 1 /\ Cardinality(Loading) \in Nat
      BY <3>5, <3>6, FS_AddElement, FS_CardinalityType
    <3>8. Cardinality(Loading') <= Tabs
      BY <3>4, <3>7, LinksFinite
    <3>9. tab' \in [Link -> TabState] /\ Own' = Own
      BY <2>1, <3>1 DEF TabState, Own
    <3>10. QED
      BY <2>1, <3>1, <3>2, <3>5, <3>8, <3>9 DEF SparedInv
  <2>12. ASSUME NEW p \in Link, Loaded(p) PROVE SparedInv'
    <3>1. tab[p] = "loading" /\ LoadComments(p)
      BY <2>12 DEF Loaded, LoadPost
    <3>2. p \in Pending /\ phase = "fetch" /\ p[1] = source /\ ~met
      BY <2>1, <3>1 DEF Pending, Own
    <3>3. /\ AfterRaise(p) \in [Link -> TabState]
          /\ \A q \in Link : AfterRaise(p)[q] \notin {"waiting", "loading"}
      BY <2>1 DEF AfterRaise, Pending, TabState
    <3>4. CASE Close(AfterRaise(p))
      BY <2>1, <3>3, <3>4, Closed
    <3>5. CASE Raise(p) /\ UNCHANGED met
      <4>1. NextSource(AfterRaise(p))
        BY <3>2, <3>5 DEF Raise, Awaited
      <4>2. QED
        BY <2>1, <3>2, <3>3, <3>5, <4>1, NextOne
    <3>6. CASE Settle(p, "kept") /\ UNCHANGED met
      <4>1. tab' = [tab EXCEPT ![p] = "kept"] /\ UNCHANGED <<source, phase, found, met>>
        BY <3>6 DEF Settle
      <4>2. tab' \in [Link -> TabState] /\ Pending' \subseteq Pending /\ Loading' \subseteq Loading
        BY <2>1, <4>1 DEF Pending, Loading, TabState
      <4>3. Cardinality(Loading') <= Tabs
        BY <2>1, <4>2, FewerLoads
      <4>4. QED
        BY <2>1, <3>2, <4>1, <4>2, <4>3 DEF SparedInv, Own
    <3>7. CASE UNCHANGED <<source, phase, found, tab, met>>
      BY <2>1, <3>7, <1>1 DEF SparedInv, Own, Pending, Loading
    <3>8. QED
      BY <3>1, <3>4, <3>5, <3>6, <3>7 DEF LoadComments
  <2>13. CASE UNCHANGED browserVars
    <3>1. UNCHANGED <<source, phase, found, tab, met>>
      BY <2>13 DEF browserVars
    <3>2. QED
      BY <2>1, <3>1, <1>1 DEF SparedInv, Own, Pending, Loading
  <2>14. QED
    BY <2>3, <2>4, <2>5, <2>6, <2>7, <2>8, <2>9, <2>10, <2>11, <2>12, <2>13 DEF BrowserNext, BrowserStep
<1>4. QED
  BY <1>2, <1>3

\* Never more tabs of a profile at work than its limit, and none after the checkpoint,
\* whatever fails in the tabs beside it and at whatever moment.
THEOREM SparedAlways == BrowserSpec => []SessionSpared
<1>1. BrowserInit => SparedInv
  <2>. SUFFICES ASSUME BrowserInit PROVE SparedInv
    OBVIOUS
  <2>1. /\ tab \in [Link -> TabState] /\ found = {} /\ met = FALSE
        /\ Pending = {} /\ Loading = {}
    BY DEF BrowserInit, Pending, Loading, TabState
  <2>2. Cardinality(Loading) <= Tabs
    BY <2>1, FS_EmptySet, LinksFinite
  <2>3. QED
    BY <2>1, <2>2 DEF SparedInv
<1>2. SparedInv /\ [BrowserNext]_browserVars => SparedInv'
  BY SparedStep
<1>3. SparedInv => SessionSpared
  BY DEF SparedInv, SessionSpared
<1>4. QED
  BY <1>1, <1>2, <1>3, PTL DEF BrowserSpec

(***************************************************************************)
(* Sites over HTTP                                                         *)
(***************************************************************************)

\* The pages a crawl of a site may store.
Fresh(s) == {Feed[s][i].page : i \in {k \in Dated(s) : Len(Feed[s]) - k < MaxPages}}

SiteTask(s) ==
    [step : {"none", "start", "discover", "pages", "over", "failed"}, attempt : 0..Attempts, pages : Seq(Fresh(s))]

Ordered ==
    /\ order \in [1..Cardinality(Site) -> Site]
    /\ \A i, j \in 1..Cardinality(Site) : order[i] = order[j] => i = j
    /\ \A s \in Site : \E i \in 1..Cardinality(Site) : order[i] = s

HttpInv ==
    /\ Ordered /\ dueSites \subseteq Site
    /\ lastStatus \in [Site -> {"", "running", "ok", "error"}]
    /\ dag \in {"idle", "crawl"} /\ pipeline \in BOOLEAN
    /\ DOMAIN tasks = Site /\ \A s \in Site : tasks[s] \in SiteTask(s)
    /\ stored \subseteq UNION {Fresh(s) : s \in Site}
    /\ stored \subseteq Pages \ Unstorable
    /\ RunBounded

LEMMA HttpSizes ==
  /\ Cardinality(Site) \in Nat /\ IsFiniteSet(Site)
  /\ MaxPages \in Nat \ {0} /\ BatchCap \in Nat \ {0} /\ Attempts \in Nat \ {0}
  /\ \A S : S \subseteq Site => IsFiniteSet(S) /\ Cardinality(S) \in Nat
  <1>1. IsFiniteSet(Site) /\ MaxPages \in Nat \ {0} /\ BatchCap \in Nat \ {0} /\ Attempts \in Nat \ {0}
    BY HttpAssumption
  <1>2. QED
    BY <1>1, FS_CardinalityType, FS_Subset

LEMMA Element == ASSUME NEW T, NEW q \in Seq(T), NEW i \in 1..Len(q) PROVE q[i] \in T
  OBVIOUS

LEMMA OfLength == ASSUME NEW T, NEW q \in Seq(T), NEW n, Len(q) = n PROVE q \in [1..n -> T]
  OBVIOUS

LEMMA Appended ==
  ASSUME NEW T, NEW q \in Seq(T), NEW x \in T, NEW n \in Nat, Len(q) = n - 1
  PROVE  /\ Append(q, x) \in [1..n -> T]
         /\ \A i \in 1..n : Append(q, x)[i] = IF i < n THEN q[i] ELSE x
  <1>1. Append(q, x) \in Seq(T) /\ Len(Append(q, x)) = n
    OBVIOUS
  <1>2. \A i \in 1..(n - 1) : Append(q, x)[i] = q[i]
    OBVIOUS
  <1>3. Append(q, x)[n] = x
    OBVIOUS
  <1>4. Append(q, x) \in [1..n -> T]
    BY <1>1, OfLength
  <1>5. QED
    BY <1>2, <1>3, <1>4

\* A feed is in the order of its dates, so the entries that count are its last ones.
LEMMA DatedLast ==
  ASSUME NEW s \in Site
  PROVE  /\ Len(Feed[s]) \in Nat /\ Cardinality(Dated(s)) \in 0..Len(Feed[s])
         /\ \A i \in 1..Len(Feed[s]) : i > Len(Feed[s]) - Cardinality(Dated(s)) => i \in Dated(s)
  <1> DEFINE entries == Feed[s]
             n == Len(entries)
             D == Dated(s)
  <1>1. entries \in Seq([page : Pages, date : Nat]) /\ n \in Nat /\ DOMAIN entries = 1..n
    <2>1. entries \in Seq([page : Pages, date : Nat])
      BY FeedAssumption
    <2>2. QED
      BY <2>1
  <1>2. \A i, j \in 1..n : i <= j => entries[i].date <= entries[j].date
    BY <1>1, FeedAssumption
  <1>3. \A i \in 1..n : entries[i].date \in Nat
    <2>1. \A i \in 1..n : entries[i] \in [page : Pages, date : Nat]
      BY <1>1, Element
    <2>2. QED
      BY <2>1
  <1>4. D \subseteq 1..n /\ \A i \in 1..n : i \in D <=> entries[i].date > 0 /\ entries[i].date >= Cutoff
    BY <1>1 DEF Dated
  <1>5. Cutoff \in Nat
    BY HttpAssumption
  <1> HIDE DEF D, entries, n
  <1>6. \A i, j \in 1..n : i \in D /\ i <= j => j \in D
    BY <1>2, <1>3, <1>4, <1>5
  <1>7. IsFiniteSet(1..n) /\ Cardinality(1..n) = n
    BY <1>1, FS_Interval
  <1>8. IsFiniteSet(D) /\ Cardinality(D) \in Nat /\ Cardinality(D) <= n
    BY <1>4, <1>7, FS_Subset, FS_CardinalityType
  <1>9. ASSUME NEW i \in 1..n, i > n - Cardinality(D), i \notin D PROVE FALSE
    <2>1. D \subseteq (i + 1)..n
      BY <1>1, <1>4, <1>6, <1>9
    <2>2. IsFiniteSet((i + 1)..n) /\ Cardinality((i + 1)..n) = n - i
      <3>1. i + 1 \in Int /\ n \in Int
        BY <1>1
      <3>2. Cardinality((i + 1)..n) = (IF i + 1 > n THEN 0 ELSE n - (i + 1) + 1) /\ IsFiniteSet((i + 1)..n)
        BY <3>1, FS_Interval
      <3>3. QED
        BY <1>1, <3>2
    <2>3. Cardinality(D) <= n - i
      BY <2>1, <2>2, FS_Subset
    <2>4. QED
      BY <1>1, <1>8, <1>9, <2>3
  <1>10. QED
    BY <1>1, <1>8, <1>9 DEF D, entries, n

\* What a crawl reads from a feed may be stored.
LEMMA FeedIsFresh ==
  ASSUME NEW s \in Site
  PROVE  FeedPages(s) \in Seq(Fresh(s))
  <1> DEFINE len == Len(Feed[s])
             c == Cardinality(Dated(s))
             n == IF c > MaxPages THEN MaxPages ELSE c
  <1>1. len \in Nat /\ c \in 0..len /\ \A i \in 1..len : i > len - c => i \in Dated(s)
    BY DatedLast
  <1>2. MaxPages \in Nat
    BY HttpSizes
  <1> HIDE DEF len, c
  <1>3. n \in Nat /\ n <= c /\ n <= MaxPages
    BY <1>1, <1>2
  <1>4. FeedPages(s) = [i \in 1..n |-> Feed[s][len - n + i].page]
    BY DEF FeedPages, len, c
  <1> HIDE DEF n
  <1>5. ASSUME NEW i \in 1..n PROVE Feed[s][len - n + i].page \in Fresh(s)
    <2>1. len - n + i \in 1..len /\ len - n + i > len - c /\ len - (len - n + i) < MaxPages
      BY <1>1, <1>2, <1>3
    <2>2. len - n + i \in {k \in Dated(s) : len - k < MaxPages}
      BY <1>1, <2>1
    <2>3. QED
      BY <2>2 DEF Fresh, len
  <1>6. QED
    BY <1>3, <1>4, <1>5

LEMMA FreshPages == \A s \in Site : Fresh(s) \subseteq Pages
  <1> SUFFICES ASSUME NEW s \in Site, NEW i \in Dated(s) PROVE Feed[s][i].page \in Pages
    BY DEF Fresh
  <1>1. Feed[s] \in Seq([page : Pages, date : Nat]) /\ i \in 1..Len(Feed[s])
    <2>1. Feed[s] \in Seq([page : Pages, date : Nat])
      BY FeedAssumption
    <2>2. QED
      BY <2>1 DEF Dated
  <1>2. Feed[s][i] \in [page : Pages, date : Nat]
    BY <1>1, Element
  <1>3. QED
    BY <1>2

\* A crawl puts its site at the end of the order and leaves the others as they were.
LEMMA OrderAfter ==
  ASSUME Ordered, NEW s \in Site, Crawled(s)
  PROVE  /\ Ordered' /\ dueSites' = dueSites \ {s}
         /\ \A x, y \in Site : Before(x, y) /\ ~Before(x, y)' => x = s
  <1> DEFINE n == Cardinality(Site)
  <1>1. n \in Nat /\ order \in Seq(Site) /\ Len(order) = n /\ DOMAIN order = 1..n
    BY HttpSizes DEF Ordered
  <1>2. PICK k \in 1..n : order[k] = s /\ order' = Append(RemoveAt(order, k), s)
    BY <1>1 DEF Crawled
  <1> HIDE DEF n
  <1>3. SubSeq(order, 1, k - 1) \in Seq(Site) /\ Len(SubSeq(order, 1, k - 1)) = k - 1
        /\ \A i \in 1..(k - 1) : SubSeq(order, 1, k - 1)[i] = order[i]
    BY <1>1, <1>2
  <1>4. SubSeq(order, k + 1, n) \in Seq(Site) /\ Len(SubSeq(order, k + 1, n)) = n - k
        /\ \A i \in 1..(n - k) : SubSeq(order, k + 1, n)[i] = order[k + i]
    BY <1>1, <1>2
  <1>5. RemoveAt(order, k) = SubSeq(order, 1, k - 1) \o SubSeq(order, k + 1, n)
    BY <1>1 DEF RemoveAt
  <1>6. /\ RemoveAt(order, k) \in Seq(Site) /\ Len(RemoveAt(order, k)) = n - 1
        /\ \A i \in 1..(n - 1) : RemoveAt(order, k)[i] = IF i < k THEN order[i] ELSE order[i + 1]
    BY <1>1, <1>2, <1>3, <1>4, <1>5
  <1>7. /\ order' \in [1..n -> Site]
        /\ \A i \in 1..n : order'[i] = IF i < k THEN order[i] ELSE IF i < n THEN order[i + 1] ELSE s
    <2> DEFINE r == RemoveAt(order, k)
    <2>1. r \in Seq(Site) /\ Len(r) = n - 1 /\ order' = Append(r, s)
      BY <1>2, <1>6
    <2>2. \A i \in 1..(n - 1) : r[i] = IF i < k THEN order[i] ELSE order[i + 1]
      BY <1>6
    <2> HIDE DEF r
    <2>3. order' \in [1..n -> Site] /\ \A i \in 1..n : order'[i] = IF i < n THEN r[i] ELSE s
      BY <1>1, <2>1, Appended
    <2>4. QED
      BY <1>1, <1>2, <2>2, <2>3
  <1>8. ASSUME NEW i \in 1..n, i # k
        PROVE  order'[IF i < k THEN i ELSE i - 1] = order[i] /\ (IF i < k THEN i ELSE i - 1) \in 1..n
    BY <1>1, <1>7, <1>8
  <1>9. order'[n] = s /\ n \in 1..n
    BY <1>1, <1>2, <1>7
  <1>10. Ordered'
    <2>1. \A i, j \in 1..n : order'[i] = order'[j] => i = j
      BY <1>1, <1>2, <1>7 DEF Ordered, n
    <2>2. \A x \in Site : \E i \in 1..n : order'[i] = x
      <3> SUFFICES ASSUME NEW x \in Site PROVE \E i \in 1..n : order'[i] = x
        OBVIOUS
      <3>1. PICK i \in 1..n : order[i] = x
        BY DEF Ordered, n
      <3>2. CASE i = k
        BY <1>2, <1>9, <3>1, <3>2
      <3>3. CASE i # k
        BY <1>8, <3>1, <3>3
      <3>4. QED
        BY <3>2, <3>3
    <2>3. QED
      BY <1>7, <2>1, <2>2 DEF Ordered, n
  <1>11. ASSUME NEW x \in Site, NEW y \in Site, Before(x, y), x # s
         PROVE  Before(x, y)'
    <2>1. PICK i \in 1..n, j \in 1..n : i < j /\ order[i] = x /\ order[j] = y
      BY <1>1, <1>11 DEF Before
    <2>2. i # k
      BY <1>2, <1>11, <2>1
    <2>3. DOMAIN order' = 1..n
      BY <1>7
    <2> DEFINE at == IF i < k THEN i ELSE i - 1
    <2>4. at \in 1..n /\ order'[at] = x
      BY <1>8, <2>1, <2>2
    <2>5. CASE j = k
      <3>1. at < n /\ order'[n] = y
        BY <1>1, <1>2, <1>9, <2>1, <2>2, <2>5
      <3>2. QED
        BY <1>9, <2>3, <2>4, <3>1 DEF Before
    <2>6. CASE j # k
      <3> DEFINE to == IF j < k THEN j ELSE j - 1
      <3>1. to \in 1..n /\ order'[to] = y
        BY <1>8, <2>1, <2>6
      <3>2. at < to
        BY <1>1, <2>1, <2>2, <2>6
      <3> HIDE DEF at, to
      <3>3. QED
        BY <2>3, <2>4, <3>1, <3>2 DEF Before
    <2>7. QED
      BY <2>5, <2>6
  <1>12. QED
    BY <1>10, <1>11 DEF Crawled

LEMMA PlacesFinite == ASSUME NEW n \in Nat, NEW S, S \subseteq 1..n PROVE IsFiniteSet(S) /\ Cardinality(S) \in Nat
  <1>1. IsFiniteSet(1..n)
    BY FS_Interval
  <1>2. QED
    BY <1>1, FS_Subset, FS_CardinalityType

\* The last of some places.
LEMMA LastPlace ==
  ASSUME NEW n \in Nat, NEW S, S \subseteq 1..n, S # {}
  PROVE  \E k \in S : \A i \in S : i <= k
  <1> DEFINE M == {n - i : i \in S}
  <1>1. M \subseteq Nat
    OBVIOUS
  <1>2. PICK m \in M : \A i \in M : ~(<<i, m>> \in OpToRel(<, Nat))
    <2>1. PICK i \in S : TRUE
      OBVIOUS
    <2>2. n - i \in M
      BY <2>1
    <2>3. QED
      BY <1>1, <2>2, NatLessThanWellFounded, WFMin
  <1>3. \A i \in M : ~(i < m)
    BY <1>1, <1>2 DEF OpToRel
  <1>4. PICK k \in S : m = n - k
    BY <1>2
  <1>5. \A i \in S : ~(n - i < n - k)
    BY <1>3, <1>4
  <1>6. \A i \in S : i <= k
    BY <1>5
  <1>7. QED
    BY <1>6

\* No run takes more than the cap, and a due site is left only for those before it.
LEMMA DueBounded == Ordered => DueFirst \subseteq Site /\ Cardinality(DueFirst) <= BatchCap
  <1> SUFFICES ASSUME Ordered PROVE DueFirst \subseteq Site /\ Cardinality(DueFirst) <= BatchCap
    OBVIOUS
  <1> DEFINE n == Cardinality(Site)
             places(k) == {j \in 1..k : order[j] \in dueSites}
             K == {k \in 1..n : order[k] \in dueSites /\ Cardinality(places(k)) <= BatchCap}
  <1>1. n \in Nat /\ DOMAIN order = 1..n /\ \A i \in 1..n : order[i] \in Site
    BY HttpSizes DEF Ordered
  <1>2. DueFirst = {order[k] : k \in K}
    BY <1>1 DEF DueFirst
  <1>3. DueFirst \subseteq Site
    BY <1>1, <1>2
  <1> HIDE DEF n
  <1>4. IsFiniteSet(K) /\ Cardinality(K) \in Nat
    BY <1>1, PlacesFinite
  <1>5. \A k \in 1..n : IsFiniteSet(places(k)) /\ Cardinality(places(k)) \in Nat
    BY <1>1, PlacesFinite
  <1>6. Cardinality(K) <= BatchCap
    <2>1. CASE K = {}
      <3>1. Cardinality(K) = 0
        BY <2>1, FS_EmptySet
      <3> HIDE DEF K
      <3>2. QED
        BY <3>1, HttpSizes
    <2>2. CASE K # {}
      <3>1. PICK k \in K : \A i \in K : i <= k
        BY <1>1, <2>2, LastPlace
      <3>2. k \in 1..n /\ K \subseteq places(k) /\ Cardinality(places(k)) <= BatchCap
        BY <3>1
      <3>3. Cardinality(K) <= Cardinality(places(k))
        BY <1>5, <3>2, FS_Subset
      <3> HIDE DEF places, K
      <3>4. QED
        BY <1>4, <1>5, <3>2, <3>3, HttpSizes
    <2>3. QED
      BY <2>1, <2>2
  <1>7. Cardinality(DueFirst) <= Cardinality(K)
    <2> DEFINE f == [k \in K |-> order[k]]
    <2>1. f \in Surjection(K, DueFirst)
      BY <1>2 DEF Surjection
    <2> HIDE DEF f
    <2>2. QED
      BY <1>4, <2>1, FS_Surjection
  <1>8. Cardinality(DueFirst) \in Nat
    BY <1>3, HttpSizes
  <1> HIDE DEF K
  <1>9. QED
    BY <1>3, <1>4, <1>6, <1>7, <1>8, HttpSizes

LEMMA FirstAreBefore ==
  ASSUME Ordered, NEW s \in dueSites, s \in Site, s \notin DueFirst, NEW x \in DueFirst
  PROVE  Before(x, s)
  <1> DEFINE n == Cardinality(Site)
             places(k) == {j \in 1..k : order[j] \in dueSites}
  <1>1. n \in Nat /\ DOMAIN order = 1..n
    BY HttpSizes DEF Ordered
  <1>2. PICK k \in 1..n : x = order[k] /\ Cardinality(places(k)) <= BatchCap
    BY <1>1 DEF DueFirst
  <1>3. PICK i \in 1..n : order[i] = s
    BY DEF Ordered
  <1>4. ~(Cardinality(places(i)) <= BatchCap)
    BY <1>1, <1>3 DEF DueFirst
  <1>5. ASSUME i <= k PROVE FALSE
    <2>1. places(i) \subseteq places(k) /\ places(k) \subseteq 1..k
      BY <1>1, <1>5
    <2>2. IsFiniteSet(places(k)) /\ Cardinality(places(k)) \in Nat
      BY <2>1, PlacesFinite
    <2>3. Cardinality(places(i)) <= Cardinality(places(k)) /\ Cardinality(places(i)) \in Nat
      BY <2>1, <2>2, FS_Subset, FS_CardinalityType
    <2> HIDE DEF places
    <2>4. QED
      BY <1>2, <1>4, <2>2, <2>3, HttpSizes
  <1>6. k < i
    BY <1>1, <1>5
  <1>7. QED
    BY <1>1, <1>2, <1>3, <1>6 DEF Before

LEMMA NewTask ==
  ASSUME NEW s, NEW step \in {"start", "failed"}, NEW attempt \in 0..Attempts
  PROVE  NoTask \in SiteTask(s) /\ [NoTask EXCEPT !.step = step, !.attempt = attempt] \in SiteTask(s)
  <1>1. <<>> \in Seq(Fresh(s)) /\ 0 \in 0..Attempts
    BY HttpSizes
  <1>2. NoTask \in SiteTask(s)
    BY <1>1 DEF NoTask, SiteTask
  <1>3. ASSUME NEW task \in SiteTask(s) PROVE [task EXCEPT !.step = step, !.attempt = attempt] \in SiteTask(s)
    BY DEF SiteTask
  <1>4. QED
    BY <1>2, <1>3

LEMMA FirstAttempt == 1 \in 0..Attempts
  BY HttpSizes

LEMMA HttpInitInv == HttpInit => HttpInv
  <1> SUFFICES ASSUME HttpInit PROVE HttpInv
    OBVIOUS
  <1> DEFINE n == Cardinality(Site)
  <1>1. order \in [1..n -> Site] /\ \A i, j \in 1..n : order[i] = order[j] => i = j
    BY DEF HttpInit, IsInjective
  <1>2. order \in Injection(1..n, Site)
    BY <1>1 DEF Injection, IsInjective
  <1>3. n \in Nat /\ IsFiniteSet(Site) /\ Cardinality(1..n) = n
    <2>1. n \in Nat /\ IsFiniteSet(Site)
      BY HttpSizes
    <2> HIDE DEF n
    <2>2. QED
      BY <2>1, FS_Interval
  <1>4. order \in Surjection(1..n, Site)
    BY <1>2, <1>3, FS_Injection
  <1>5. Ordered
    BY <1>1, <1>4 DEF Ordered, Surjection
  <1>6. \A s \in Site : tasks[s] = NoTask /\ NoTask \in SiteTask(s)
    BY FirstAttempt, NewTask DEF HttpInit
  <1>7. RunBounded
    <2>1. {s \in Site : tasks[s].step # "none"} = {}
      BY <1>6 DEF NoTask
    <2>2. QED
      BY <2>1, FS_EmptySet, HttpSizes DEF RunBounded
  <1>8. QED
    BY <1>5, <1>6, <1>7 DEF HttpInit, HttpInv

\* A step of a task keeps what the runs are bounded by.
LEMMA TaskMoves ==
  ASSUME HttpInv, NEW s \in Site, tasks[s].step # "none", NEW task \in SiteTask(s), tasks' = [tasks EXCEPT ![s] = task]
  PROVE  /\ DOMAIN tasks' = Site /\ \A x \in Site : tasks'[x] \in SiteTask(x)
         /\ RunBounded'
  <1>1. DOMAIN tasks' = Site /\ \A x \in Site : tasks'[x] = IF x = s THEN task ELSE tasks[x]
    BY DEF HttpInv
  <1>2. {x \in Site : tasks'[x].step # "none"} \subseteq {x \in Site : tasks[x].step # "none"}
    BY <1>1
  <1> DEFINE Old == {x \in Site : tasks[x].step # "none"}
             New == {x \in Site : tasks'[x].step # "none"}
  <1>3. IsFiniteSet(Old) /\ Cardinality(Old) \in Nat /\ Cardinality(New) \in Nat
    BY HttpSizes
  <1>4. Cardinality(New) <= Cardinality(Old)
    BY <1>2, <1>3, FS_Subset
  <1>5. Cardinality(Old) <= BatchCap
    BY DEF HttpInv, RunBounded
  <1>6. RunBounded'
    <2> HIDE DEF Old, New
    <2>1. Cardinality(New) <= BatchCap
      BY <1>3, <1>4, <1>5, HttpSizes
    <2>2. QED
      BY <2>1 DEF New, RunBounded
  <1>7. QED
    BY <1>1, <1>6 DEF HttpInv

LEMMA FailedTask ==
  ASSUME HttpInv, NEW s \in Site, Fails(s), tasks[s].step \in {"start", "discover", "pages"}
  PROVE  /\ DOMAIN tasks' = Site /\ \A x \in Site : tasks'[x] \in SiteTask(x)
         /\ RunBounded'
  <1>1. tasks[s].attempt \in 0..Attempts
    BY DEF HttpInv, SiteTask
  <1>2. AfterFailure(s) \in SiteTask(s)
    <2>1. CASE tasks[s].attempt < Attempts
      <3>1. tasks[s].attempt + 1 \in 0..Attempts
        BY <1>1, <2>1, HttpSizes
      <3>2. QED
        BY <2>1, <3>1, NewTask DEF AfterFailure
    <2>2. CASE ~(tasks[s].attempt < Attempts)
      BY <1>1, <2>2, NewTask DEF AfterFailure
    <2>3. QED
      BY <2>1, <2>2
  <1>3. QED
    BY <1>2, TaskMoves DEF Fails

LEMMA HttpNextInv == HttpInv /\ [HttpNext]_httpVars => HttpInv'
  <1> SUFFICES ASSUME HttpInv, [HttpNext]_httpVars PROVE HttpInv'
    OBVIOUS
  <1>1. /\ Ordered /\ dueSites \subseteq Site /\ RunBounded
        /\ lastStatus \in [Site -> {"", "running", "ok", "error"}]
        /\ dag \in {"idle", "crawl"} /\ pipeline \in BOOLEAN
        /\ DOMAIN tasks = Site /\ \A s \in Site : tasks[s] \in SiteTask(s)
        /\ stored \subseteq UNION {Fresh(s) : s \in Site} /\ stored \subseteq Pages \ Unstorable
    BY DEF HttpInv
  <1> DEFINE Tasks == DOMAIN tasks = Site /\ (\A s \in Site : tasks[s] \in SiteTask(s)) /\ RunBounded
  <1>2. ASSUME Tasks', UNCHANGED order, dueSites' \subseteq Site, lastStatus' \in [Site -> {"", "running", "ok", "error"}],
               dag' \in {"idle", "crawl"}, pipeline' \in BOOLEAN, UNCHANGED stored
        PROVE  HttpInv'
    BY <1>1, <1>2 DEF HttpInv, Ordered
  <1>3. ASSUME NEW s \in Site, Tasks', Crawled(s), lastStatus' \in [Site -> {"", "running", "ok", "error"}],
               UNCHANGED <<dag, pipeline, stored>>
        PROVE  HttpInv'
    <2>1. Ordered' /\ dueSites' = dueSites \ {s}
      BY <1>1, <1>3, OrderAfter
    <2>2. QED
      BY <1>1, <1>3, <2>1 DEF HttpInv
  <1>4. ASSUME NEW s \in Site, tasks[s].step # "none", NEW task \in SiteTask(s), tasks' = [tasks EXCEPT ![s] = task]
        PROVE  Tasks'
    BY <1>4, TaskMoves
  <1>5. ASSUME NEW s \in Site, Fails(s), tasks[s].step \in {"start", "discover", "pages"} PROVE Tasks'
    BY <1>5, FailedTask
  <1>6. CASE StartRun
    <2>1. Tasks'
      <3>1. tasks' = [s \in Site |-> IF s \in DueFirst THEN [NoTask EXCEPT !.step = "start", !.attempt = 1] ELSE NoTask]
        BY <1>6 DEF StartRun
      <3>2. \A s \in Site : tasks'[s] \in SiteTask(s)
        BY <3>1, FirstAttempt, NewTask
      <3>3. \A s \in Site : tasks'[s].step # "none" => s \in DueFirst
        BY <3>1 DEF NoTask
      <3>4. DueFirst \subseteq Site /\ Cardinality(DueFirst) <= BatchCap
        BY <1>1, DueBounded
      <3>5. {s \in Site : tasks'[s].step # "none"} \subseteq DueFirst
        BY <3>3
      <3> DEFINE New == {s \in Site : tasks'[s].step # "none"}
      <3>6. Cardinality(New) <= Cardinality(DueFirst) /\ Cardinality(New) \in Nat /\ Cardinality(DueFirst) \in Nat
        BY <3>4, <3>5, HttpSizes, FS_Subset
      <3>7. RunBounded'
        <4> HIDE DEF New
        <4>1. Cardinality(New) <= BatchCap
          BY <3>4, <3>6, HttpSizes
        <4>2. QED
          BY <4>1 DEF New, RunBounded
      <3>8. QED
        BY <3>1, <3>2, <3>7
    <2>2. QED
      BY <1>1, <1>2, <1>6, <2>1 DEF StartRun
  <1>7. CASE TriggerPipeline
    <2>1. Tasks'
      <3>1. tasks' = [s \in Site |-> NoTask]
        BY <1>7 DEF TriggerPipeline
      <3>2. \A s \in Site : tasks'[s] \in SiteTask(s)
        BY <3>1, FirstAttempt, NewTask
      <3>3. {s \in Site : tasks'[s].step # "none"} = {}
        BY <3>1 DEF NoTask
      <3>4. RunBounded'
        BY <3>3, FS_EmptySet, HttpSizes DEF RunBounded
      <3>5. QED
        BY <3>1, <3>2, <3>4
    <2>2. QED
      BY <1>1, <1>2, <1>7, <2>1 DEF TriggerPipeline
  <1>8. ASSUME UNCHANGED tasks PROVE Tasks'
    BY <1>1, <1>8 DEF RunBounded
  <1>9. CASE RunPipeline
    BY <1>1, <1>2, <1>8, <1>9 DEF RunPipeline
  <1>10. ASSUME NEW s \in Site, FallDue(s) PROVE HttpInv'
    BY <1>1, <1>2, <1>8, <1>10 DEF FallDue
  <1>11. ASSUME NEW s \in Site, RefuseSite(s) PROVE HttpInv'
    BY <1>1, <1>2, <1>5, <1>11 DEF RefuseSite
  <1>12. ASSUME NEW s \in Site, BeginSite(s) PROVE HttpInv'
    <2>1. [tasks[s] EXCEPT !.step = "discover"] \in SiteTask(s) /\ tasks[s].step = "start"
      BY <1>1, <1>12 DEF BeginSite, SiteTask
    <2>2. tasks' = [tasks EXCEPT ![s] = [tasks[s] EXCEPT !.step = "discover"]]
      BY <1>12 DEF BeginSite
    <2>3. Tasks'
      BY <1>4, <2>1, <2>2
    <2>4. lastStatus' \in [Site -> {"", "running", "ok", "error"}] /\ UNCHANGED <<order, dueSites, dag, stored, pipeline>>
      BY <1>1, <1>12 DEF BeginSite
    <2>5. QED
      BY <1>1, <1>2, <2>3, <2>4
  <1>13. ASSUME NEW s \in Site, ReadFeed(s) PROVE HttpInv'
    <2> DEFINE task == [[tasks[s] EXCEPT !.step = "pages"] EXCEPT !.pages = FeedPages(s)]
    <2>1. task \in SiteTask(s) /\ tasks[s].step = "discover"
      BY <1>1, <1>13, FeedIsFresh DEF ReadFeed, SiteTask
    <2>2. tasks' = [tasks EXCEPT ![s] = task]
      BY <1>1, <1>13 DEF ReadFeed
    <2>3. Tasks'
      BY <1>4, <2>1, <2>2
    <2>4. QED
      BY <1>1, <1>2, <1>13, <2>3 DEF ReadFeed
  <1>14. ASSUME NEW s \in Site, FailDiscovery(s) PROVE HttpInv'
    <2>1. Tasks' /\ Crawled(s) /\ UNCHANGED <<dag, pipeline, stored>>
      BY <1>5, <1>14 DEF FailDiscovery, MarkHttpFailed
    <2>2. lastStatus' \in [Site -> {"", "running", "ok", "error"}]
      BY <1>1, <1>14 DEF FailDiscovery, MarkHttpFailed
    <2>3. QED
      BY <1>3, <2>1, <2>2
  <1>15. ASSUME NEW s \in Site, Ask(s)
         PROVE  /\ Head(tasks[s].pages) \in Fresh(s)
                /\ tasks' = [tasks EXCEPT ![s].pages = Tail(@)] => Tasks'
    <2>1. tasks[s].pages \in Seq(Fresh(s)) /\ tasks[s].pages # <<>> /\ tasks[s].step = "pages"
      BY <1>1, <1>15 DEF Ask, SiteTask
    <2>2. Head(tasks[s].pages) \in Fresh(s) /\ Tail(tasks[s].pages) \in Seq(Fresh(s))
      BY <2>1
    <2>3. [tasks[s] EXCEPT !.pages = Tail(tasks[s].pages)] \in SiteTask(s)
      BY <1>1, <2>2 DEF SiteTask
    <2>4. ASSUME tasks' = [tasks EXCEPT ![s].pages = Tail(@)] PROVE Tasks'
      <3>1. tasks' = [tasks EXCEPT ![s] = [tasks[s] EXCEPT !.pages = Tail(tasks[s].pages)]]
        BY <2>4
      <3>2. QED
        BY <1>4, <2>1, <2>3, <3>1
    <2>5. QED
      BY <2>2, <2>4
  <1>16. ASSUME NEW s \in Site, SkipPage(s) PROVE HttpInv'
    <2>1. Tasks'
      BY <1>15, <1>16 DEF SkipPage
    <2>2. QED
      BY <1>1, <1>2, <1>16, <2>1 DEF SkipPage
  <1>17. ASSUME NEW s \in Site, StorePage(s) PROVE HttpInv'
    <2>1. Tasks' /\ Head(tasks[s].pages) \in Fresh(s) /\ Head(tasks[s].pages) \notin Unstorable
      BY <1>15, <1>17 DEF StorePage
    <2>2. stored' = stored \union {Head(tasks[s].pages)} /\ UNCHANGED <<order, dueSites, lastStatus, dag, pipeline>>
      BY <1>17 DEF StorePage
    <2>3. Ordered'
      BY <1>1, <2>2 DEF Ordered
    <2>4. QED
      BY <1>1, <2>1, <2>2, <2>3, FreshPages DEF HttpInv
  <1>18. ASSUME NEW s \in Site, FailStore(s) PROVE HttpInv'
    <2>1. Tasks'
      BY <1>5, <1>18 DEF FailStore, Ask
    <2>2. QED
      BY <1>1, <1>2, <1>18, <2>1 DEF FailStore
  <1>19. ASSUME NEW s \in Site, FinishSite(s) PROVE HttpInv'
    <2>1. [tasks[s] EXCEPT !.step = "over"] \in SiteTask(s) /\ tasks[s].step = "pages"
      BY <1>1, <1>19 DEF FinishSite, SiteTask
    <2>2. tasks' = [tasks EXCEPT ![s] = [tasks[s] EXCEPT !.step = "over"]]
      BY <1>19 DEF FinishSite
    <2>3. Tasks'
      BY <1>4, <2>1, <2>2
    <2>4. lastStatus' \in [Site -> {"", "running", "ok", "error"}] /\ Crawled(s) /\ UNCHANGED <<dag, stored, pipeline>>
      BY <1>1, <1>19 DEF FinishSite
    <2>5. QED
      BY <1>3, <2>3, <2>4
  <1>20. ASSUME NEW s \in Site, KillTask(s) PROVE HttpInv'
    <2>1. Tasks'
      BY <1>5, <1>20 DEF KillTask
    <2>2. QED
      BY <1>1, <1>2, <1>20, <2>1 DEF KillTask
  <1>21. CASE UNCHANGED httpVars
    BY <1>1, <1>2, <1>8, <1>21 DEF httpVars
  <1>22. QED
    BY <1>6, <1>7, <1>9, <1>10, <1>11, <1>12, <1>13, <1>14, <1>16, <1>17, <1>18, <1>19, <1>20, <1>21
       DEF HttpNext, SiteStep

LEMMA HttpAlways == HttpSpec => []HttpInv
  BY HttpInitInv, HttpNextInv, PTL DEF HttpSpec

\* What the DAGs keep about the sites, their tasks and what is stored is of its type: the
\* order stays one of all the sites, whatever crawls, fails and is killed.
THEOREM HttpTypeCorrect == HttpSpec => []HttpTypeOK
  <1>1. HttpInv => HttpTypeOK
    <2> SUFFICES ASSUME HttpInv PROVE HttpTypeOK
      OBVIOUS
    <2>1. Ordered /\ \A s \in Site : tasks[s] \in SiteTask(s)
      BY DEF HttpInv
    <2>2. Cardinality(Site) \in Nat /\ order \in Seq(Site) /\ Len(order) = Cardinality(Site)
      BY <2>1, HttpSizes DEF Ordered
    <2>3. ToSet(order) = Site
      BY <2>1, <2>2 DEF Ordered, ToSet
    <2>4. ASSUME NEW s \in Site
          PROVE  /\ tasks[s].step \in {"none", "start", "discover", "pages", "over", "failed"}
                 /\ tasks[s].attempt \in 0..Attempts /\ tasks[s].pages \in Seq(Pages)
      <3>1. tasks[s].pages \in Seq(Fresh(s)) /\ Fresh(s) \subseteq Pages
        BY <2>1, FreshPages DEF SiteTask
      <3>2. tasks[s].pages \in Seq(Pages)
        BY <3>1
      <3>3. QED
        BY <2>1, <3>2 DEF SiteTask
    <2>5. QED
      BY <2>2, <2>3, <2>4 DEF HttpInv, HttpTypeOK
  <1>2. QED
    BY <1>1, HttpAlways, PTL

\* However many sites are due, tasks fail and are tried again, a run has no more tasks
\* than get_due_targets hands it.
THEOREM RunsAreBounded == HttpSpec => []RunBounded
  <1>1. HttpInv => RunBounded
    BY DEF HttpInv
  <1>2. QED
    BY <1>1, HttpAlways, PTL

\* No page is stored that was not among the newest entries of a feed with a date after
\* the cutoff, though discovery and storing are steps apart.
THEOREM FreshIsStored == HttpSpec => []FreshStored
  <1>1. HttpInv => FreshStored
    <2> SUFFICES ASSUME HttpInv, NEW p \in stored
                 PROVE  \E s \in Site : \E i \in Dated(s) : Feed[s][i].page = p /\ Len(Feed[s]) - i < MaxPages
      BY DEF FreshStored
    <2>1. PICK s \in Site : p \in Fresh(s)
      BY DEF HttpInv
    <2>2. PICK i \in {k \in Dated(s) : Len(Feed[s]) - k < MaxPages} : p = Feed[s][i].page
      BY <2>1 DEF Fresh
    <2>3. QED
      BY <2>2
  <1>2. QED
    BY <1>1, HttpAlways, PTL

\* Nobody is overtaken: a site falls behind another one only by a crawl that leaves it
\* not due, and a run leaves a due site out only for those before it.
THEOREM TurnsInOrder == HttpSpec => InTurn
  <1> DEFINE Turn ==
        /\ \A s, x \in Site : Before(s, x) /\ ~Before(s, x)' => s \notin dueSites'
        /\ dag = "idle" /\ dag' = "crawl" =>
              \A s \in dueSites, x \in Site : tasks'[s].step = "none" /\ tasks'[x].step # "none" => Before(x, s)
  <1>1. ASSUME HttpInv, [HttpNext]_httpVars PROVE [Turn]_httpVars
    <2>1. Ordered /\ dueSites \subseteq Site
      BY <1>1 DEF HttpInv
    <2>2. ASSUME UNCHANGED order, ~(dag = "idle" /\ dag' = "crawl") PROVE Turn
      BY <2>2 DEF Before
    <2>3. ASSUME NEW s \in Site, Crawled(s), UNCHANGED dag PROVE Turn
      <3>1. dueSites' = dueSites \ {s} /\ \A x, y \in Site : Before(x, y) /\ ~Before(x, y)' => x = s
        BY <2>1, <2>3, OrderAfter
      <3>2. QED
        BY <2>3, <3>1
    <2>4. CASE StartRun
      <3>1. UNCHANGED order
        BY <2>4 DEF StartRun
      <3>2. tasks' = [s \in Site |-> IF s \in DueFirst THEN [NoTask EXCEPT !.step = "start", !.attempt = 1] ELSE NoTask]
        BY <2>4 DEF StartRun
      <3>3. \A s \in Site : tasks'[s].step # "none" <=> s \in DueFirst
        BY <3>2 DEF NoTask
      <3>4. \A s \in dueSites, x \in Site : tasks'[s].step = "none" /\ tasks'[x].step # "none" => Before(x, s)
        BY <2>1, <3>3, FirstAreBefore
      <3>5. QED
        BY <3>1, <3>4 DEF Before
    <2>5. CASE TriggerPipeline
      BY <2>2, <2>5 DEF TriggerPipeline
    <2>6. CASE RunPipeline
      BY <2>2, <2>6 DEF RunPipeline
    <2>7. ASSUME NEW s \in Site, FallDue(s) \/ KillTask(s) PROVE Turn
      BY <2>2, <2>7 DEF FallDue, KillTask
    <2>8. ASSUME NEW s \in Site, RefuseSite(s) \/ BeginSite(s) \/ ReadFeed(s) PROVE Turn
      BY <2>2, <2>8 DEF RefuseSite, BeginSite, ReadFeed
    <2>9. ASSUME NEW s \in Site, SkipPage(s) \/ StorePage(s) \/ FailStore(s) PROVE Turn
      BY <2>2, <2>9 DEF SkipPage, StorePage, FailStore
    <2>10. ASSUME NEW s \in Site, FailDiscovery(s) \/ FinishSite(s) PROVE Turn
      BY <2>3, <2>10 DEF FailDiscovery, FinishSite, MarkHttpFailed
    <2>11. CASE UNCHANGED httpVars
      BY <2>11
    <2>12. QED
      BY <1>1, <2>4, <2>5, <2>6, <2>7, <2>8, <2>9, <2>10, <2>11 DEF HttpNext, SiteStep
  <1>2. QED
    BY <1>1, HttpAlways, PTL DEF HttpSpec, InTurn
=============================================================================
