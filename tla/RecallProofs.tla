----------------------------- MODULE RecallProofs -----------------------------
(***************************************************************************)
(* Machine-checked proof about Recall, for any pages, limits and number of *)
(* runs: what a session is told fits, does not depend on what earlier ones *)
(* were told but for the notices, and of each change it is told once along *)
(* the log.                                                                *)
(***************************************************************************)
EXTENDS Recall, OrderingProofs

IsLibrary(library) == \A p \in DOMAIN Pages : library[p].day \in Int

----------------------------------------------------------------------------
(* What is listed, and how long it is.                                     *)

LEMMA ScopedFinite ==
    ASSUME RecallConstants, NEW S, S \subseteq Scoped
    PROVE  S \subseteq DOMAIN Pages /\ S \subseteq Int /\ IsFiniteSet(S)
<1>1. S \subseteq DOMAIN Pages
  BY DEF Scoped
<1> QED BY <1>1, FS_Subset DEF RecallConstants

LEMMA NewestFirstIs ==
    ASSUME RecallConstants, NEW library, IsLibrary(library), NEW S, S \subseteq Scoped
    PROVE  NewestFirst(library, S) \in Seq(S) /\ ToSet(NewestFirst(library, S)) = S
<1> DEFINE key == [p \in S |-> NewestKey(library, p)]
           f == [p \in S |-> -library[p].day]
           g == [p \in S |-> Pages[p].vault]
           h == [p \in S |-> p]
<1>1. IsFiniteSet(S) /\ S \subseteq Int /\ S \subseteq DOMAIN Pages
  BY ScopedFinite
<1>2. \A p \in S : key[p] = <<f[p], g[p], h[p]>> /\ f[p] \in Int /\ g[p] \in Int /\ h[p] \in Int
  <2> SUFFICES ASSUME NEW p \in S PROVE key[p] = <<f[p], g[p], h[p]>> /\ f[p] \in Int /\ g[p] \in Int /\ h[p] \in Int
    OBVIOUS
  <2>1. library[p].day \in Int /\ Pages[p].vault \in Int /\ p \in Int
    BY <1>1 DEF IsLibrary, RecallConstants
  <2> QED BY <2>1 DEF NewestKey
<1>3. \A p, q \in S : h[p] = h[q] => p = q
  OBVIOUS
<1> HIDE DEF f, g, h, key
<1>4. KeysDiffer(S, key)
  BY <1>2, <1>3, TriplesDiffer
<1>5. NewestFirst(library, S) = <<>> \o InOrder(S, key)
  <2> DEFINE keys == Table(key)
             below == [x \in S |-> Cardinality({y \in S : Less(keys[y], keys[x])})]
             place == Table(below)
  <2>1. NewestFirst(library, S) = <<>> \o [i \in 1..Cardinality(S) |-> CHOOSE x \in S : place[x] = i - 1]
    BY DEF NewestFirst, Sorted, SortedBy, key
  <2>2. below = Place(S, key)
    BY TableIs DEF Place, Below
  <2>3. place = Place(S, key)
    BY <2>2, TableIs
  <2> HIDE DEF place
  <2> QED BY <2>1, <2>3 DEF InOrder
<1> QED BY <1>1, <1>4, <1>5, SortedOnce

(* The pages that block C is about.                                        *)
Changed(r) == IF Listing(r.history) # {} THEN BaseItems(r.history) \cap Scoped
              ELSE {p \in Scoped : r.library[p].day + NoticeDays >= r.day}
ToNotice(r) == {p \in Changed(r) \ Noticed(r.history) : r.library[p].status \in Noticeable}

LEMMA NoticesAre ==
    ASSUME RecallConstants, NEW r, IsLibrary(r.library)
    PROVE  Notices(r) \in Seq(ToNotice(r)) /\ ToSet(Notices(r)) = ToNotice(r) /\ ToNotice(r) \subseteq Scoped
<1> DEFINE S == ToNotice(r)
           key == [p \in S |-> <<-r.library[p].day, -p>>]
           f == [p \in S |-> -r.library[p].day]
           g == [p \in S |-> -p]
<1>0. S \subseteq Scoped
  BY DEF ToNotice, Changed
<1>1. IsFiniteSet(S) /\ S \subseteq Int /\ S \subseteq DOMAIN Pages
  BY <1>0, ScopedFinite
<1>a. Notices(r) = Sorted(S, LAMBDA p : <<-r.library[p].day, -p>>)
  BY DEF Notices, ToNotice, Changed
<1> HIDE DEF S
<1>2. \A p \in S : key[p] = <<f[p], g[p]>> /\ f[p] \in Int /\ g[p] \in Int
  <2> SUFFICES ASSUME NEW p \in S PROVE key[p] = <<f[p], g[p]>> /\ f[p] \in Int /\ g[p] \in Int
    OBVIOUS
  <2>1. r.library[p].day \in Int /\ p \in Int
    BY <1>1 DEF IsLibrary
  <2> QED BY <2>1
<1>3. \A p, q \in S : f[p] = f[q] /\ g[p] = g[q] => p = q
  BY <1>1
<1>5. Notices(r) = <<>> \o InOrder(S, key)
  <2> DEFINE keys == Table(key)
             below == [x \in S |-> Cardinality({y \in S : Less(keys[y], keys[x])})]
             place == Table(below)
  <2>1. Notices(r) = <<>> \o [i \in 1..Cardinality(S) |-> CHOOSE x \in S : place[x] = i - 1]
    BY <1>a DEF Sorted, SortedBy
  <2> HIDE DEF key
  <2>2. below = Place(S, key)
    BY TableIs DEF Place, Below
  <2>3. place = Place(S, key)
    BY <2>2, TableIs
  <2> HIDE DEF place
  <2> QED BY <2>1, <2>3 DEF InOrder
<1> HIDE DEF f, g, key
<1>4. KeysDiffer(S, key)
  BY <1>2, <1>3, PairsDiffer
<1> QED BY <1>0, <1>1, <1>4, <1>5, SortedOnce DEF S

(* The longest prefix that fits.                                           *)
LEMMA PrefixIs ==
    ASSUME NEW A, NEW s \in Seq(A), NEW fitting, fitting \subseteq Nat
    PROVE  /\ Prefix(s, fitting) \in Seq(A) /\ ToSet(Prefix(s, fitting)) \subseteq ToSet(s)
           /\ Len(Prefix(s, fitting)) \in 0..Len(s)
           /\ Len(Prefix(s, fitting)) = 0 \/ Len(Prefix(s, fitting)) \in fitting
           /\ \A n \in fitting : n <= Len(s) => n <= Len(Prefix(s, fitting))
           /\ Len(s) \in fitting => Prefix(s, fitting) = s
<1> DEFINE S == {0} \cup {n \in fitting : n <= Len(s)}
<1>0. Len(s) \in Nat
  OBVIOUS
<1>1. S \subseteq 0..Len(s) /\ S # {}
  <2>1. \A n \in S : n \in 0..Len(s)
    BY <1>0
  <2>2. 0 \in S
    OBVIOUS
  <2> HIDE DEF S
  <2> QED BY <2>1, <2>2
<1> DEFINE m == Max(S)
<1>2. m \in S /\ \A n \in S : n <= m
  <2>1. \E k \in S : \A n \in S : n <= k
    BY <1>0, <1>1, GreatestIs
  <2>2. \A k, n \in S : n <= k <=> k >= n
    BY <1>1
  <2>3. \E k \in S : \A n \in S : k >= n
    BY <2>1, <2>2
  <2> HIDE DEF S
  <2>4. m \in S /\ \A n \in S : m >= n
    BY <2>3 DEF Max
  <2> QED BY <2>2, <2>4
<1>3. Prefix(s, fitting) = Top(s, m)
  BY DEF Prefix
<1> HIDE DEF m
<1>4. m \in 0..Len(s) /\ m \in Nat
  BY <1>0, <1>1, <1>2
<1>5. /\ Top(s, m) \in Seq(A) /\ Len(Top(s, m)) = m /\ ToSet(Top(s, m)) \subseteq ToSet(s)
      /\ \A i \in 1..m : Top(s, m)[i] = s[i]
  <2>1. Len(Top(s, m)) = IF m < Len(s) THEN m ELSE Len(s)
    BY <1>4, TopIs
  <2>2. Len(Top(s, m)) = m
    BY <1>0, <1>4, <2>1
  <2> QED BY <1>4, <2>2, TopIs
<1>6. m = 0 \/ m \in fitting
  BY <1>2
<1>7. \A n \in fitting : n <= Len(s) => n <= m
  BY <1>2
<1>8. Len(s) \in fitting => Top(s, m) = s
  <2> SUFFICES ASSUME Len(s) \in fitting PROVE Top(s, m) = s
    OBVIOUS
  <2>1. m = Len(s)
    BY <1>4, <1>7
  <2> QED BY <1>5, <2>1
<1> QED BY <1>3, <1>4, <1>5, <1>6, <1>7, <1>8

LEMMA ItemsAre ==
    ASSUME RecallConstants, NEW library, IsLibrary(library)
    PROVE  Items(library) \in Seq(Listable(library)) /\ Listable(library) \subseteq Current(library)
<1> DEFINE ordered == NewestFirst(library, Listable(library))
           UpTo(i) == {j \in 1..i : Category(library, ordered[j]) = Category(library, ordered[i])}
           S == {ordered[i] : i \in {j \in DOMAIN ordered : Cardinality(UpTo(j)) <= Caps[Category(library, ordered[j])]}}
<1>1. Listable(library) \subseteq Current(library) /\ Listable(library) \subseteq Scoped
  BY DEF Listable, Current
<1>2. ordered \in Seq(Listable(library))
  BY <1>1, NewestFirstIs
<1>3. Items(library) = NewestFirst(library, S)
  BY DEF Items
<1>4. S \subseteq Listable(library)
  <2> HIDE DEF ordered, UpTo
  <2>1. \A i \in DOMAIN ordered : ordered[i] \in Listable(library)
    BY <1>2
  <2> QED BY <2>1
<1> HIDE DEF S
<1>5. NewestFirst(library, S) \in Seq(S)
  BY <1>1, <1>4, NewestFirstIs
<1>6. NewestFirst(library, S) \in Seq(Listable(library))
  <2> DEFINE s == NewestFirst(library, S)
  <2>1. s \in Seq(S)
    BY <1>5
  <2> HIDE DEF s
  <2>2. s \in Seq(Listable(library))
    BY <1>4, <2>1
  <2> QED BY <2>2 DEF s
<1> QED BY <1>1, <1>3, <1>6

LEMMA PinsAre ==
    ASSUME RecallConstants, NEW library, IsLibrary(library)
    PROVE  PinsShown(library) \in Seq(Pinned(library)) /\ Pinned(library) \subseteq Current(library)
<1> DEFINE S == Pinned(library)
           key == [p \in S |-> <<-library[p].day, p>>]
           f == [p \in S |-> -library[p].day]
           g == [p \in S |-> p]
           pins == Sorted(S, LAMBDA p : <<-library[p].day, p>>)
<1>0. S \subseteq Current(library) /\ S \subseteq Scoped
  BY DEF Pinned, Current
<1> HIDE DEF S
<1>1. IsFiniteSet(S) /\ S \subseteq Int /\ S \subseteq DOMAIN Pages
  BY <1>0, ScopedFinite
<1>2. \A p \in S : key[p] = <<f[p], g[p]>> /\ f[p] \in Int /\ g[p] \in Int
  <2> SUFFICES ASSUME NEW p \in S PROVE key[p] = <<f[p], g[p]>> /\ f[p] \in Int /\ g[p] \in Int
    OBVIOUS
  <2>1. library[p].day \in Int /\ p \in Int
    BY <1>1 DEF IsLibrary
  <2> QED BY <2>1
<1>3. \A p, q \in S : f[p] = f[q] /\ g[p] = g[q] => p = q
  BY <1>1
<1>4. pins = <<>> \o InOrder(S, key)
  <2> DEFINE keys == Table(key)
             below == [x \in S |-> Cardinality({y \in S : Less(keys[y], keys[x])})]
             place == Table(below)
  <2>1. pins = <<>> \o [i \in 1..Cardinality(S) |-> CHOOSE x \in S : place[x] = i - 1]
    BY DEF Sorted, SortedBy
  <2> HIDE DEF key
  <2>2. below = Place(S, key)
    BY TableIs DEF Place, Below
  <2>3. place = Place(S, key)
    BY <2>2, TableIs
  <2> HIDE DEF pins, place
  <2> QED BY <2>1, <2>3 DEF InOrder
<1> HIDE DEF f, g, key
<1>5. KeysDiffer(S, key)
  BY <1>2, <1>3, PairsDiffer
<1>6. pins \in Seq(S)
  BY <1>1, <1>4, <1>5, SortedOnce
<1>7. PinsShown(library) = Prefix(pins, {n \in 0..Len(pins) : PinLines(Len(pins), n) <= PinTokens})
  BY DEF PinsShown, S
<1> HIDE DEF pins
<1>8. {n \in 0..Len(pins) : PinLines(Len(pins), n) <= PinTokens} \subseteq Nat
  OBVIOUS
<1>9. PinsShown(library) \in Seq(S)
  BY <1>6, <1>7, <1>8, PrefixIs
<1> QED BY <1>0, <1>9 DEF S

LEMMA SummaryIsLength ==
    ASSUME RecallConstants, NEW library, IsLibrary(library)
    PROVE  SummaryLength(library) \in Nat
<1> DEFINE lists == SummaryLists(library)
           brief == IF Brief(library) = {} THEN 0 ELSE 1
           Lines(sizes) == SummaryLines(sizes, brief, IF sizes = lists THEN 0 ELSE 1)
           fitting == {n \in {Lines(sizes) : sizes \in DropLongest(lists)} : n <= SummaryTokens}
<1>1. lists \in [1..3 -> Nat]
  <2> DEFINE S(i) == <<{p \in Current(library) : OpenWork(library, p)}, {p \in Current(library) : Pages[p].kind = "decision"},
                       {p \in Current(library) : Pages[p].correction}>>[i]
             Left(i) == ToSet(Top(NewestFirst(library, S(i)), ListLimit)) \ ToSet(PinsShown(library))
  <2>1. \A i \in 1..3 : S(i) \subseteq Scoped
    BY DEF Current
  <2>2. lists = [i \in 1..3 |-> Cardinality(Left(i))]
    BY TableIs DEF SummaryLists
  <2> HIDE DEF S
  <2>3. ASSUME NEW i \in 1..3 PROVE Cardinality(Left(i)) \in Nat
    <3>1. NewestFirst(library, S(i)) \in Seq(S(i)) /\ ToSet(NewestFirst(library, S(i))) = S(i)
      BY <2>1, NewestFirstIs
    <3>2. ToSet(Top(NewestFirst(library, S(i)), ListLimit)) \subseteq S(i)
      BY <3>1, TopIs DEF RecallConstants
    <3>3. Left(i) \subseteq Scoped
      BY <2>1, <3>2
    <3> QED BY <3>3, ScopedFinite, FS_CardinalityType
  <2> HIDE DEF Left
  <2> QED BY <2>2, <2>3
<1> HIDE DEF lists
<1>2. brief \in Nat
  OBVIOUS
<1> HIDE DEF brief
<1>3. \A sizes \in DropLongest(lists) : sizes[1] \in Nat /\ sizes[2] \in Nat /\ sizes[3] \in Nat
  BY <1>1 DEF DropLongest, RecallConstants
<1>4. \A sizes \in DropLongest(lists) : Lines(sizes) \in Nat
  <2> SUFFICES ASSUME NEW sizes \in DropLongest(lists) PROVE Lines(sizes) \in Nat
    OBVIOUS
  <2> DEFINE cut == IF sizes = lists THEN 0 ELSE 1
             filled == Cardinality({i \in 1..3 : sizes[i] > 0})
  <2>1. filled \in Nat
    <3> DEFINE three == (({} \cup {1}) \cup {2}) \cup {3}
    <3>1. IsFiniteSet(three)
      BY FS_EmptySet, FS_AddElement
    <3>2. {i \in 1..3 : sizes[i] > 0} \in SUBSET three
      OBVIOUS
    <3> HIDE DEF three
    <3> QED BY <3>1, <3>2, FS_Subset, FS_CardinalityType
  <2>2. cut \in Nat
    OBVIOUS
  <2>3. Lines(sizes) = IF brief + sizes[1] + sizes[2] + sizes[3] + cut = 0 THEN 0
                       ELSE 1 + brief + sizes[1] + sizes[2] + sizes[3] + cut + filled
    BY DEF SummaryLines
  <2> HIDE DEF cut, filled, Lines
  <2> QED BY <1>2, <1>3, <2>1, <2>2, <2>3
<1>5. SummaryLength(library) = IF fitting = {} THEN 0 ELSE Max(fitting)
  BY DEF SummaryLength, SummaryFit, lists, brief
<1> HIDE DEF Lines
<1>6. fitting \subseteq 0..SummaryTokens
  BY <1>4 DEF RecallConstants
<1> HIDE DEF fitting
<1>7. CASE fitting = {}
  BY <1>5, <1>7
<1>8. CASE fitting # {}
  <2>1. PICK m \in fitting : \A k \in fitting : k <= m
    BY <1>6, <1>8, GreatestIs DEF RecallConstants
  <2>2. \A k \in fitting : m >= k
    BY <1>6, <2>1
  <2>3. Max(fitting) \in fitting
    BY <2>2 DEF Max
  <2>4. Max(fitting) \in Nat
    <3>1. \A k \in 0..SummaryTokens : k \in Nat
      OBVIOUS
    <3> QED BY <1>6, <2>3, <3>1
  <2> QED BY <1>5, <1>8, <2>4
<1> QED BY <1>7, <1>8

----------------------------------------------------------------------------
(* A text is laid out in its limit, and its list before its notices.       *)

Roomy(rest, items) == TextLength(rest, items, 0, 0) <= MaxTokens
First(rest, items) == Prefix(items, {n \in 0..Len(items) : TextLength(rest, items, n, 0) + NoticeTokens <= MaxTokens})

LEMMA LengthIs ==
    ASSUME NEW A, NEW rest \in Nat, NEW items \in Seq(A), NEW n \in 0..Len(items), NEW m \in Nat
    PROVE  /\ TextLength(rest, items, n, m) \in Nat /\ TextLength(rest, items, n, m) >= rest
           /\ TextLength(rest, items, n, m) = TextLength(rest, items, n, 0) + (IF m = 0 THEN 0 ELSE 1 + m)
           /\ TextLength(rest, items, n, 0) >= TextLength(rest, items, 0, 0)
<1> DEFINE N == Len(items)
<1>1. N \in Nat /\ (items = <<>> <=> N = 0)
  OBVIOUS
<1>2. OmittedLine(N, n) = (IF n < N THEN 1 ELSE 0) /\ OmittedLine(N, 0) = (IF 0 < N THEN 1 ELSE 0)
  BY DEF OmittedLine
<1>3. TextLength(rest, items, n, m) = rest + (IF N = 0 THEN 0 ELSE 1 + n + OmittedLine(N, n)) + (IF m = 0 THEN 0 ELSE 1 + m)
  BY <1>1 DEF TextLength
<1>4. TextLength(rest, items, n, 0) = rest + (IF N = 0 THEN 0 ELSE 1 + n + OmittedLine(N, n)) + 0
  BY <1>1 DEF TextLength
<1>5. TextLength(rest, items, 0, 0) = rest + (IF N = 0 THEN 0 ELSE 1 + 0 + OmittedLine(N, 0)) + 0
  BY <1>1 DEF TextLength
<1> HIDE DEF N
<1>6. n \in Nat /\ n <= N
  BY <1>1 DEF N
<1> QED BY <1>1, <1>2, <1>3, <1>4, <1>5, <1>6

LEMMA LayoutOfIs ==
    ASSUME RecallConstants, NEW A, NEW B, NEW rest \in Nat, NEW items \in Seq(A), NEW notices \in Seq(B),
           NEW share \in Int, share <= NoticeTokens
    PROVE  LET layout == LayoutOf(rest, items, notices, share)
           IN  /\ layout.tokens \in Nat /\ layout.tokens <= MaxTokens
               /\ Roomy(rest, items) =>
                      /\ layout.tokens >= rest
                      /\ \E told \in Seq(B) : /\ ToSet(told) \subseteq ToSet(notices)
                                             /\ layout.shown = Shown("B", First(rest, items)) \cup Shown("C", told)
               /\ ~Roomy(rest, items) => layout.tokens = 0 /\ layout.shown = {}
<1> DEFINE first == First(rest, items)
           capped == Prefix(notices, {m \in 0..Len(notices) : 1 + m <= share})
           told == Prefix(capped, {m \in 0..Len(notices) : TextLength(rest, items, Len(first), m) <= MaxTokens})
           kept == Prefix(first, {n \in 0..Len(items) : TextLength(rest, items, n, Len(told)) <= MaxTokens})
           length == TextLength(rest, items, Len(kept), Len(told))
           layout == LayoutOf(rest, items, notices, share)
           Length(n, m) == TextLength(rest, items, n, m)
<1>0. layout = IF length <= MaxTokens THEN [tokens |-> length, shown |-> Shown("B", kept) \cup Shown("C", told)]
               ELSE [tokens |-> 0, shown |-> {}]
  BY DEF LayoutOf, First
<1>1. /\ first \in Seq(A) /\ Len(first) \in 0..Len(items)
      /\ Len(first) = 0 \/ TextLength(rest, items, Len(first), 0) + NoticeTokens <= MaxTokens
  <2> DEFINE fits == {n \in 0..Len(items) : TextLength(rest, items, n, 0) + NoticeTokens <= MaxTokens}
  <2>1. fits \subseteq Nat
    OBVIOUS
  <2>2. first = Prefix(items, fits)
    BY DEF First
  <2>3. \A n \in fits : TextLength(rest, items, n, 0) + NoticeTokens <= MaxTokens
    OBVIOUS
  <2> HIDE DEF fits, first
  <2>4. first \in Seq(A) /\ Len(first) \in 0..Len(items)
    BY <2>1, <2>2, PrefixIs
  <2>5. Len(first) = 0 \/ Len(first) \in fits
    BY <2>1, <2>2, PrefixIs
  <2> QED BY <2>3, <2>4, <2>5
<1> HIDE DEF first
<1>2. /\ capped \in Seq(B) /\ ToSet(capped) \subseteq ToSet(notices) /\ Len(capped) \in Nat
      /\ Len(capped) = 0 \/ 1 + Len(capped) <= share
  <2> DEFINE fits == {m \in 0..Len(notices) : 1 + m <= share}
  <2>1. fits \subseteq Nat /\ \A m \in fits : 1 + m <= share
    OBVIOUS
  <2>2. capped = Prefix(notices, fits)
    OBVIOUS
  <2> HIDE DEF fits, capped
  <2>3. capped \in Seq(B) /\ ToSet(capped) \subseteq ToSet(notices)
    BY <2>1, <2>2, PrefixIs
  <2>4. Len(capped) = 0 \/ Len(capped) \in fits
    BY <2>1, <2>2, PrefixIs
  <2> QED BY <2>1, <2>3, <2>4
<1> HIDE DEF capped
<1>3. /\ told \in Seq(B) /\ ToSet(told) \subseteq ToSet(notices) /\ Len(told) \in Nat /\ Len(told) <= Len(capped)
      /\ Len(told) = 0 \/ TextLength(rest, items, Len(first), Len(told)) <= MaxTokens
  <2> DEFINE fits == {m \in 0..Len(notices) : TextLength(rest, items, Len(first), m) <= MaxTokens}
  <2>1. fits \subseteq Nat
    OBVIOUS
  <2>2. told = Prefix(capped, fits)
    OBVIOUS
  <2>3. \A m \in fits : TextLength(rest, items, Len(first), m) <= MaxTokens
    OBVIOUS
  <2> HIDE DEF fits, told
  <2>4. Len(told) \in 0..Len(capped)
    BY <1>2, <2>1, <2>2, PrefixIs
  <2>5. Len(told) \in Nat /\ Len(told) <= Len(capped)
    BY <1>2, <2>4
  <2> QED BY <1>2, <2>1, <2>2, <2>3, <2>5, PrefixIs
<1> HIDE DEF told
<1>4. /\ Len(kept) \in 0..Len(first)
      /\ Length(Len(first), Len(told)) <= MaxTokens => kept = first
      /\ Len(first) = 0 => kept = first
  <2> DEFINE fits == {n \in 0..Len(items) : TextLength(rest, items, n, Len(told)) <= MaxTokens}
  <2>1. fits \subseteq Nat
    OBVIOUS
  <2>2. kept = Prefix(first, fits)
    OBVIOUS
  <2>3. Length(Len(first), Len(told)) <= MaxTokens => Len(first) \in fits
    BY <1>1
  <2> HIDE DEF fits, kept
  <2>4. kept \in Seq(A) /\ Len(kept) \in 0..Len(first)
    BY <1>1, <2>1, <2>2, PrefixIs
  <2>5. Len(first) = 0 => kept = first
    BY <1>1, <2>4
  <2> QED BY <1>1, <2>1, <2>2, <2>3, <2>4, <2>5, PrefixIs
<1> HIDE DEF kept
<1>5. MaxTokens \in Nat /\ NoticeTokens \in Nat
  BY DEF RecallConstants
<1>6. Len(first) \in Nat
  BY <1>1
<1>7. /\ Length(Len(first), Len(told)) \in Nat /\ Length(Len(first), 0) \in Nat /\ Length(0, 0) \in Nat
      /\ Length(Len(first), Len(told)) = Length(Len(first), 0) + (IF Len(told) = 0 THEN 0 ELSE 1 + Len(told))
      /\ Length(Len(first), 0) >= Length(0, 0) /\ Length(Len(first), Len(told)) >= rest
      /\ Len(first) = 0 => Length(Len(first), 0) = Length(0, 0)
  <2>1. 0 \in 0..Len(items)
    OBVIOUS
  <2> QED BY <1>1, <1>3, <2>1, LengthIs
<1> HIDE DEF Length
<1>8. kept = first
  <2>1. CASE Len(first) = 0
    BY <1>4, <2>1
  <2>2. CASE Len(first) # 0
    <3>1. Length(Len(first), 0) + NoticeTokens <= MaxTokens
      BY <1>1, <2>2 DEF Length
    <3>2. Len(told) # 0 => 1 + Len(told) <= NoticeTokens
      BY <1>2, <1>3, <1>5
    <3>3. Length(Len(first), Len(told)) <= MaxTokens
      BY <1>3, <1>5, <1>7, <3>1, <3>2
    <3> QED BY <1>4, <3>3
  <2> QED BY <2>1, <2>2
<1>9. length = Length(Len(first), Len(told))
  BY <1>8 DEF Length
<1>10. length <= MaxTokens <=> Length(0, 0) <= MaxTokens
  <2>1. ASSUME length <= MaxTokens PROVE Length(0, 0) <= MaxTokens
    BY <1>3, <1>5, <1>7, <1>9, <2>1
  <2>2. ASSUME Length(0, 0) <= MaxTokens PROVE length <= MaxTokens
    <3>1. CASE Len(first) = 0
      <4>1. Len(told) # 0 => length <= MaxTokens
        BY <1>3, <1>9 DEF Length
      <4> QED BY <1>3, <1>5, <1>7, <1>9, <2>2, <3>1, <4>1
    <3>2. CASE Len(first) # 0
      <4>1. Length(Len(first), 0) + NoticeTokens <= MaxTokens
        BY <1>1, <3>2 DEF Length
      <4>2. Len(told) # 0 => 1 + Len(told) <= NoticeTokens
        BY <1>2, <1>3, <1>5
      <4> QED BY <1>3, <1>5, <1>7, <1>9, <4>1, <4>2
    <3> QED BY <3>1, <3>2
  <2> QED BY <2>1, <2>2
<1>11. Roomy(rest, items) <=> length <= MaxTokens
  BY <1>10 DEF Roomy, Length
<1>12. length \in Nat /\ length >= rest
  BY <1>7, <1>9
<1> HIDE DEF length
<1>13. CASE Roomy(rest, items)
  <2>1. layout = [tokens |-> length, shown |-> Shown("B", first) \cup Shown("C", told)]
    BY <1>0, <1>8, <1>11, <1>13
  <2>2. layout.tokens = length /\ layout.shown = Shown("B", first) \cup Shown("C", told)
    BY <2>1
  <2> HIDE DEF layout
  <2> QED BY <1>3, <1>11, <1>12, <1>13, <2>2 DEF layout, first
<1>14. CASE ~Roomy(rest, items)
  <2>1. layout = [tokens |-> 0, shown |-> {}]
    BY <1>0, <1>11, <1>14
  <2>2. layout.tokens = 0 /\ layout.shown = {}
    BY <2>1
  <2> HIDE DEF layout
  <2> QED BY <1>5, <1>14, <2>2 DEF layout
<1> QED BY <1>13, <1>14

(* A run shows lists that its library, and what block D takes, determine,  *)
(* and notices.                                                            *)
Rest(library, how) == PinLines(Cardinality(Pinned(library)), Len(PinsShown(library))) + SummaryLength(library) + how
Block(block, S) == {[block |-> block, page |-> p] : p \in S}
ListsOf(library, full, how) ==
    IF full /\ Roomy(Rest(library, how), Items(library))
    THEN Block("B", ToSet(First(Rest(library, how), Items(library)))) \cup Block("A", ToSet(PinsShown(library))) ELSE {}

LEMMA RestIs ==
    ASSUME RecallConstants, NEW library, IsLibrary(library), NEW how \in Nat
    PROVE  Rest(library, how) \in Nat /\ Rest(library, how) >= how
<1> DEFINE total == Cardinality(Pinned(library))
           n == Len(PinsShown(library))
<1>1. PinsShown(library) \in Seq(Pinned(library)) /\ Pinned(library) \subseteq Scoped
  BY PinsAre DEF Current
<1>2. IsFiniteSet(Pinned(library))
  BY <1>1, ScopedFinite
<1>3. total \in Nat /\ n \in Nat
  BY <1>1, <1>2, FS_CardinalityType
<1> HIDE DEF total, n
<1>4. PinLines(total, n) \in Nat
  BY <1>3 DEF PinLines, OmittedLine
<1>5. SummaryLength(library) \in Nat
  BY SummaryIsLength
<1>6. Rest(library, how) = PinLines(total, n) + SummaryLength(library) + how
  BY DEF Rest, total, n
<1> QED BY <1>4, <1>5, <1>6

LEMMA FirstIs ==
    ASSUME NEW A, NEW rest, NEW items \in Seq(A)
    PROVE  ToSet(First(rest, items)) \subseteq A
<1> DEFINE fits == {n \in 0..Len(items) : TextLength(rest, items, n, 0) + NoticeTokens <= MaxTokens}
<1>1. fits \subseteq Nat
  OBVIOUS
<1>2. First(rest, items) = Prefix(items, fits)
  BY DEF First
<1> HIDE DEF fits
<1>3. ToSet(First(rest, items)) \subseteq ToSet(items)
  BY <1>1, <1>2, PrefixIs
<1>4. ToSet(items) \subseteq A
  BY DEF ToSet
<1> QED BY <1>3, <1>4

LEMMA ListsAre ==
    ASSUME RecallConstants, NEW library, IsLibrary(library), NEW full, NEW how
    PROVE  \A s \in ListsOf(library, full, how) :
               /\ s.block \in {"A", "B"} /\ s = [block |-> s.block, page |-> s.page] /\ s.page \in Current(library)
               /\ s.block = "A" <=> s.page \in Pinned(library)
<1>1. ToSet(First(Rest(library, how), Items(library))) \subseteq Listable(library)
  BY ItemsAre, FirstIs
<1>2. ToSet(PinsShown(library)) \subseteq Pinned(library) /\ Pinned(library) \subseteq Current(library)
  BY PinsAre DEF ToSet
<1>3. Listable(library) \cap Pinned(library) = {} /\ Listable(library) \subseteq Current(library)
  BY DEF Listable, Pinned
<1>4. \A s \in Block("B", Listable(library)) \cup Block("A", Pinned(library)) :
               /\ s.block \in {"A", "B"} /\ s = [block |-> s.block, page |-> s.page] /\ s.page \in Current(library)
               /\ s.block = "A" <=> s.page \in Pinned(library)
  BY <1>2, <1>3 DEF Block
<1>5. ListsOf(library, full, how) \subseteq Block("B", Listable(library)) \cup Block("A", Pinned(library))
  BY <1>1, <1>2 DEF ListsOf, Block
<1> QED BY <1>4, <1>5

LEMMA LayoutIs ==
    ASSUME RecallConstants, NEW r, IsLibrary(r.library), NEW how \in Nat, how >= 2
    PROVE  /\ Layout(r, how).tokens \in Nat /\ Layout(r, how).tokens <= MaxTokens
           /\ \E told : /\ told \subseteq ToNotice(r)
                        /\ Layout(r, how).shown = ListsOf(r.library, r.full, how) \cup Block("C", told)
<1> DEFINE rest == Rest(r.library, how)
           items == Items(r.library)
           share == NoticeTokens - (IF how > HowTokens THEN how - HowTokens ELSE 0)
           layout == LayoutOf(rest, items, Notices(r), share)
           brief == LayoutOf(0, <<>>, Notices(r), NoticeTokens)
<1>0. MaxTokens \in Nat /\ NoticeTokens \in Nat /\ HowTokens \in Nat
  BY DEF RecallConstants
<1>1. Notices(r) \in Seq(ToNotice(r)) /\ ToSet(Notices(r)) = ToNotice(r)
  BY NoticesAre
<1>2. items \in Seq(Listable(r.library))
  BY ItemsAre
<1>3. rest \in Nat /\ rest >= 2
  BY RestIs
<1>4. share \in Int /\ share <= NoticeTokens
  BY <1>0
<1>5. CASE ~r.full
  <2>1. Layout(r, how) = brief
    BY <1>5 DEF Layout
  <2>2. <<>> \in Seq({}) /\ NoticeTokens \in Int /\ NoticeTokens <= NoticeTokens
    BY <1>0
  <2>3. TextLength(0, <<>>, 0, 0) = 0
    BY DEF TextLength
  <2>4. Roomy(0, <<>>)
    BY <1>0, <2>3 DEF Roomy
  <2>5. /\ brief.tokens \in Nat /\ brief.tokens <= MaxTokens
        /\ \E told \in Seq(ToNotice(r)) : /\ ToSet(told) \subseteq ToSet(Notices(r))
                                         /\ brief.shown = Shown("B", First(0, <<>>)) \cup Shown("C", told)
    <3>1. ASSUME NEW rest0 \in Nat, NEW items0 \in Seq(Listable(r.library)), NEW share0 \in Int,
                 Roomy(rest0, items0), share0 <= NoticeTokens
          PROVE  LET text == LayoutOf(rest0, items0, Notices(r), share0)
                 IN  /\ text.tokens \in Nat /\ text.tokens <= MaxTokens
                     /\ \E told \in Seq(ToNotice(r)) : /\ ToSet(told) \subseteq ToSet(Notices(r))
                                                      /\ text.shown = Shown("B", First(rest0, items0)) \cup Shown("C", told)
      <4> DEFINE text == LayoutOf(rest0, items0, Notices(r), share0)
      <4>1. /\ text.tokens \in Nat /\ text.tokens <= MaxTokens
            /\ Roomy(rest0, items0) =>
                 /\ text.tokens >= rest0
                 /\ \E told \in Seq(ToNotice(r)) : /\ ToSet(told) \subseteq ToSet(Notices(r))
                                                  /\ text.shown = Shown("B", First(rest0, items0)) \cup Shown("C", told)
            /\ ~Roomy(rest0, items0) => text.tokens = 0 /\ text.shown = {}
        <5> HIDE DEF text
        <5> QED BY <1>1, <3>1, LayoutOfIs DEF text
      <4> HIDE DEF text
      <4> QED BY <3>1, <4>1 DEF text
    <3>2. 0 \in Nat /\ <<>> \in Seq(Listable(r.library))
      OBVIOUS
    <3> QED BY <2>2, <2>4, <3>1, <3>2
  <2>6. Shown("B", First(0, <<>>)) = {} /\ ListsOf(r.library, r.full, how) = {}
    <3>1. ToSet(First(0, <<>>)) \subseteq {}
      BY <2>2, FirstIs
    <3> QED BY <1>5, <3>1 DEF Shown, ListsOf
  <2> HIDE DEF brief
  <2>7. PICK told \in Seq(ToNotice(r)) : ToSet(told) \subseteq ToSet(Notices(r)) /\ brief.shown = Shown("B", First(0, <<>>)) \cup Shown("C", told)
    BY <2>5
  <2>8. brief.shown = ListsOf(r.library, r.full, how) \cup Block("C", ToSet(told)) /\ ToSet(told) \subseteq ToNotice(r)
    BY <1>1, <2>6, <2>7 DEF Shown, Block
  <2> QED BY <2>1, <2>5, <2>8
<1>6. CASE r.full
  <2>1. Layout(r, how) = IF layout.tokens = 0 THEN layout ELSE [layout EXCEPT !.shown = @ \cup Shown("A", PinsShown(r.library))]
    BY <1>6 DEF Layout, FullLayout, Rest
  <2>2. /\ layout.tokens \in Nat /\ layout.tokens <= MaxTokens
        /\ Roomy(rest, items) =>
              /\ layout.tokens >= rest
              /\ \E told \in Seq(ToNotice(r)) : /\ ToSet(told) \subseteq ToSet(Notices(r))
                                               /\ layout.shown = Shown("B", First(rest, items)) \cup Shown("C", told)
        /\ ~Roomy(rest, items) => layout.tokens = 0 /\ layout.shown = {}
    <3> HIDE DEF layout, rest, items, share
    <3> QED BY <1>1, <1>2, <1>3, <1>4, LayoutOfIs DEF layout
  <2>3. layout = [tokens |-> layout.tokens, shown |-> layout.shown]
    BY DEF LayoutOf
  <2>4. ListsOf(r.library, r.full, how) = IF Roomy(rest, items)
            THEN Shown("B", First(rest, items)) \cup Shown("A", PinsShown(r.library)) ELSE {}
    BY <1>6 DEF ListsOf, Block, Shown
  <2> HIDE DEF layout, rest, items
  <2>5. CASE Roomy(rest, items)
    <3>1. PICK told \in Seq(ToNotice(r)) : ToSet(told) \subseteq ToSet(Notices(r)) /\ layout.shown = Shown("B", First(rest, items)) \cup Shown("C", told)
      BY <2>2, <2>5
    <3>2. layout.tokens # 0
      BY <1>3, <2>2, <2>5
    <3>3. Layout(r, how) = [tokens |-> layout.tokens, shown |-> layout.shown \cup Shown("A", PinsShown(r.library))]
      BY <2>1, <2>3, <3>2
    <3>4. Layout(r, how).tokens = layout.tokens /\ Layout(r, how).shown = layout.shown \cup Shown("A", PinsShown(r.library))
      BY <3>3
    <3>5. Layout(r, how).shown = ListsOf(r.library, r.full, how) \cup Block("C", ToSet(told)) /\ ToSet(told) \subseteq ToNotice(r)
      <4>1. Shown("C", told) = Block("C", ToSet(told))
        BY DEF Shown, Block
      <4> QED BY <1>1, <2>4, <2>5, <3>1, <3>4, <4>1
    <3> QED BY <2>2, <3>4, <3>5
  <2>6. CASE ~Roomy(rest, items)
    <3>1. Layout(r, how) = layout
      BY <2>1, <2>2, <2>6
    <3>2. Layout(r, how).shown = ListsOf(r.library, r.full, how) \cup Block("C", {})
      BY <2>2, <2>4, <2>6, <3>1 DEF Block
    <3> QED BY <2>2, <3>1, <3>2
  <2> QED BY <2>5, <2>6
<1> QED BY <1>5, <1>6

----------------------------------------------------------------------------
(* The invariant.                                                          *)

RecallSteps == {"waiting", "loaded", "read", "done"}
RecallFields ==
    {"step", "full", "day", "library", "history", "readable", "gone", "heard", "shown", "tokens", "plain", "cut", "logged"}

TypeInv ==
    /\ page = [p \in DOMAIN Pages |-> page[p]] /\ IsLibrary(page) /\ today \in Int
    /\ DOMAIN recalls = Runs
    /\ \A i \in Runs : /\ DOMAIN recalls[i] = RecallFields /\ recalls[i].step \in RecallSteps
                       /\ recalls[i].step \in {"loaded", "read"} => IsLibrary(recalls[i].library)

(* Runs start one after another, and show nothing before they are done.    *)
StartInv == \E n \in Nat : Started = 1..n
FreshInv ==
    \A i \in Runs : recalls[i].step # "done" => recalls[i].shown = {} /\ recalls[i].gone = {} /\ recalls[i].logged

(* The log is what runs that wrote it have shown.                          *)
Entry(i, s) == [at |-> i, block |-> s.block, page |-> s.page]
Entries(J) == UNION {{Entry(j, s) : s \in recalls[j].shown} : j \in {x \in J : recalls[x].logged}}
LogInv == log = Entries(Runs)

(* A run hears of runs that told and logged: it reads just what they did.  *)
HeardInv ==
    \A k \in Runs :
        /\ \A j \in recalls[k].heard : j \in Runs /\ recalls[j].step = "done" /\ recalls[j].logged
        /\ \A J \in SUBSET Runs : recalls[k].step = "read" /\ J = recalls[k].heard => recalls[k].history = Entries(J)

(* It tells of what was listed last and has not been told of since: all of *)
(* it, unless a notice did not fit.                                        *)
Tells(r, events) ==
    /\ PagesIn(r.shown, {"C"}) \cap Noticed(events) = {}
    /\ Listing(events) # {} =>
           /\ PagesIn(r.shown, {"C"}) \subseteq BaseItems(events)
           /\ ~r.cut => (r.gone \cap BaseItems(events)) \ Noticed(events) \subseteq PagesIn(r.shown, {"C"})
NoticeInv ==
    \A k \in Runs : \A J \in SUBSET Runs :
        recalls[k].step = "done" /\ J = recalls[k].heard => Tells(recalls[k], Entries(J))

IInv == TypeInv /\ StartInv /\ FreshInv /\ TextFits /\ ListsWithoutHistory /\ LogInv /\ HeardInv /\ NoticeInv

----------------------------------------------------------------------------
(* What the steps do.                                                      *)

Others(i) == \A j \in Runs \ {i} : recalls'[j] = recalls[j]
Kept(i) ==
    /\ recalls'[i].shown = recalls[i].shown /\ recalls'[i].tokens = recalls[i].tokens
    /\ recalls'[i].plain = recalls[i].plain /\ recalls'[i].logged = recalls[i].logged
Shaped == DOMAIN recalls' = Runs /\ \A j \in Runs : DOMAIN recalls'[j] = RecallFields

LEMMA LoadStep ==
    ASSUME RecallConstants, TypeInv, NEW i \in Runs, Load(i)
    PROVE  /\ Shaped /\ Others(i) /\ UNCHANGED <<page, today, changes, log>> /\ i = Cardinality(Started) + 1
           /\ recalls'[i].step = "loaded" /\ recalls'[i].library = page /\ recalls'[i].shown = {} /\ recalls'[i].gone = {}
           /\ recalls'[i].tokens = 0 /\ recalls'[i].plain = TRUE /\ recalls'[i].logged = TRUE /\ recalls'[i].heard = {}
<1>1. PICK full \in BOOLEAN :
        recalls' = [recalls EXCEPT ![i] = [NoRecall EXCEPT !.step = "loaded", !.full = full, !.day = today, !.library = page]]
  BY DEF Load
<1> DEFINE new == [NoRecall EXCEPT !.step = "loaded", !.full = full, !.day = today, !.library = page]
<1>2. /\ DOMAIN new = RecallFields /\ new.step = "loaded" /\ new.library = page /\ new.shown = {} /\ new.gone = {}
      /\ new.tokens = 0 /\ new.plain = TRUE /\ new.logged = TRUE /\ new.heard = {}
  BY DEF NoRecall, RecallFields
<1> HIDE DEF new
<1>3. recalls' = [recalls EXCEPT ![i] = new]
  BY <1>1 DEF new
<1>4. DOMAIN recalls = Runs /\ \A j \in Runs : DOMAIN recalls[j] = RecallFields
  BY DEF TypeInv
<1>5. DOMAIN recalls' = Runs /\ recalls'[i] = new /\ \A j \in Runs \ {i} : recalls'[j] = recalls[j]
  BY <1>3, <1>4
<1>6. Shaped /\ Others(i)
  BY <1>2, <1>4, <1>5 DEF Shaped, Others
<1> QED BY <1>2, <1>5, <1>6 DEF Load

LEMMA ReadStep ==
    ASSUME RecallConstants, TypeInv, NEW i \in Runs, ReadLog(i)
    PROVE  /\ Shaped /\ Others(i) /\ Kept(i) /\ UNCHANGED <<page, today, changes, log>>
           /\ recalls[i].step = "loaded" /\ recalls'[i].step = "read" /\ recalls'[i].library = recalls[i].library
           /\ recalls'[i].gone = recalls[i].gone
           /\ \/ recalls'[i].history = log /\ recalls'[i].heard = {e.at : e \in log}
              \/ recalls'[i].history = {} /\ recalls'[i].heard = {}
<1>1. PICK readable \in BOOLEAN :
        recalls' = [recalls EXCEPT ![i].step = "read", ![i].readable = readable, ![i].history = IF readable THEN log ELSE {},
                                   ![i].heard = IF readable THEN {e.at : e \in log} ELSE {}]
  BY DEF ReadLog
<1>2. DOMAIN recalls = Runs /\ \A j \in Runs : DOMAIN recalls[j] = RecallFields
  BY DEF TypeInv
<1> DEFINE r == recalls[i]
           heard == IF readable THEN {e.at : e \in log} ELSE {}
           new == [r EXCEPT !.step = "read", !.readable = readable, !.history = IF readable THEN log ELSE {}, !.heard = heard]
<1>4. recalls' = [recalls EXCEPT ![i] = new]
  BY <1>1, <1>2
<1>8. (readable /\ heard = {e.at : e \in log}) \/ (~readable /\ heard = {})
  OBVIOUS
<1> HIDE DEF heard
<1>3. /\ DOMAIN new = RecallFields /\ new.step = "read" /\ new.library = r.library /\ new.shown = r.shown /\ new.gone = r.gone
      /\ new.tokens = r.tokens /\ new.plain = r.plain /\ new.logged = r.logged
      /\ new.heard = heard /\ new.history = IF readable THEN log ELSE {}
  <2>1. DOMAIN r = RecallFields
    BY <1>2
  <2> HIDE DEF r
  <2> QED BY <2>1 DEF RecallFields
<1> HIDE DEF new
<1>5. DOMAIN recalls' = Runs /\ recalls'[i] = new /\ \A j \in Runs \ {i} : recalls'[j] = recalls[j]
  BY <1>2, <1>4
<1>6. Shaped /\ Others(i)
  BY <1>2, <1>3, <1>5 DEF Shaped, Others
<1>7. Kept(i)
  BY <1>3, <1>5 DEF Kept
<1> QED BY <1>3, <1>5, <1>6, <1>7, <1>8 DEF ReadLog

Goes(r) == {p \in Scoped : r.library[p].status \in Noticeable}

LEMMA HandOffStep ==
    ASSUME RecallConstants, TypeInv, NEW i \in Runs, HandOff(i)
    PROVE  /\ Shaped /\ Others(i) /\ Kept(i) /\ UNCHANGED <<page, today, changes, log>>
           /\ recalls[i].step = "read" /\ recalls'[i].step = "done" /\ recalls'[i].heard = recalls[i].heard
           /\ recalls'[i].gone = Goes(recalls[i]) /\ ToNotice(recalls[i]) = {}
<1>2. DOMAIN recalls = Runs /\ \A j \in Runs : DOMAIN recalls[j] = RecallFields
  BY DEF TypeInv
<1> DEFINE r == recalls[i]
           new == [r EXCEPT !.step = "done", !.full = TRUE, !.day = 0, !.library = <<>>, !.history = {}, !.gone = Goes(r)]
<1>1. ToNotice(r) = {}
  <2>1. Notices(r) = <<>> /\ IsLibrary(r.library)
    BY DEF HandOff, NothingToTell, TypeInv
  <2>2. ToSet(Notices(r)) = ToNotice(r)
    BY <2>1, NoticesAre
  <2> HIDE DEF r
  <2> QED BY <2>1, <2>2 DEF ToSet
<1>4. recalls' = [recalls EXCEPT ![i] = new]
  BY <1>2 DEF HandOff, Gone, Goes
<1>3. /\ DOMAIN new = RecallFields /\ new.step = "done" /\ new.shown = r.shown /\ new.gone = Goes(r)
      /\ new.tokens = r.tokens /\ new.plain = r.plain /\ new.logged = r.logged /\ new.heard = r.heard
  <2>1. DOMAIN r = RecallFields
    BY <1>2
  <2> HIDE DEF r
  <2> QED BY <2>1 DEF RecallFields
<1> HIDE DEF new
<1>5. DOMAIN recalls' = Runs /\ recalls'[i] = new /\ \A j \in Runs \ {i} : recalls'[j] = recalls[j]
  BY <1>2, <1>4
<1>6. Shaped /\ Others(i)
  BY <1>2, <1>3, <1>5 DEF Shaped, Others
<1>7. Kept(i)
  BY <1>3, <1>5 DEF Kept
<1> QED BY <1>1, <1>3, <1>5, <1>6, <1>7 DEF HandOff

(* What a run tells: lists that do not depend on the log, and notices.     *)
ListsIn(shown) == {s \in shown : s.block \in {"A", "B"}}

LEMMA PlainLayout ==
    ASSUME RecallConstants, NEW r, DOMAIN r = RecallFields, IsLibrary(r.library), NEW how \in Nat, how >= 2
    PROVE  ListsIn(Layout(r, how).shown) = ListsIn(Layout([r EXCEPT !.history = {}], how).shown)
<1> DEFINE bare == [r EXCEPT !.history = {}]
<1>1. bare.library = r.library /\ bare.full = r.full
  BY DEF RecallFields
<1> HIDE DEF bare
<1>2. \A told : ListsIn(ListsOf(r.library, r.full, how) \cup Block("C", told)) = ListsOf(r.library, r.full, how)
  <2> DEFINE lists == ListsOf(r.library, r.full, how)
  <2>1. \A s \in lists : s.block \in {"A", "B"}
    BY ListsAre
  <2> HIDE DEF lists
  <2>2. \A told : ListsIn(lists \cup Block("C", told)) = lists
    BY <2>1 DEF ListsIn, Block
  <2> QED BY <2>2 DEF lists
<1>3. \E told : Layout(r, how).shown = ListsOf(r.library, r.full, how) \cup Block("C", told)
  BY LayoutIs
<1>4. \E told : Layout(bare, how).shown = ListsOf(bare.library, bare.full, how) \cup Block("C", told)
  BY <1>1, LayoutIs
<1> QED BY <1>1, <1>2, <1>3, <1>4 DEF bare

LEMMA TellStep ==
    ASSUME RecallConstants, TypeInv, NEW i \in Runs, Tell(i)
    PROVE  /\ Shaped /\ Others(i) /\ UNCHANGED <<page, today, changes>>
           /\ recalls[i].step = "read" /\ recalls'[i].step = "done"
           /\ recalls'[i].tokens <= MaxTokens /\ recalls'[i].plain
           /\ recalls'[i].gone = Goes(recalls[i])
           /\ ~recalls'[i].cut => PagesIn(recalls'[i].shown, {"C"}) = ToNotice(recalls[i])
           /\ recalls'[i].heard = recalls[i].heard
           /\ \E how \in Nat : \E told : /\ told \subseteq ToNotice(recalls[i])
                  /\ recalls'[i].shown = ListsOf(recalls[i].library, recalls[i].full, how) \cup Block("C", told)
           /\ \/ log' = log \cup {Entry(i, s) : s \in recalls'[i].shown} /\ recalls'[i].logged = recalls[i].logged
              \/ log' = log /\ ~recalls'[i].logged
<1> DEFINE r == recalls[i]
           layout(how) == Layout(r, how)
           plain(how) == r.history = {} \/ ListsIn(layout(how).shown) = ListsIn(Layout([r EXCEPT !.history = {}], how).shown)
           done(how) == [r EXCEPT
               !.step = "done", !.full = TRUE, !.day = 0, !.library = <<>>, !.history = {},
               !.shown = layout(how).shown, !.tokens = layout(how).tokens, !.plain = plain(how),
               !.gone = Goes(r),
               !.cut = PagesIn(layout(how).shown, {"C"}) # ToSet(Notices(r))]
<1>0. UNCHANGED <<page, today, changes>>
  BY DEF Tell
<1>1. DOMAIN recalls = Runs /\ (\A j \in Runs : DOMAIN recalls[j] = RecallFields) /\ r.step = "read" /\ IsLibrary(r.library)
  BY DEF TypeInv, Tell
<1>2. PICK waiting \in WaitingLines :
        LET how == 2 + waiting + IF BriefIsStale(r.library) THEN 1 ELSE 0
        IN  \/ /\ log' = log \cup {Entry(i, s) : s \in layout(how).shown}
               /\ recalls' = [recalls EXCEPT ![i] = done(how)]
            \/ /\ UNCHANGED log
               /\ recalls' = [recalls EXCEPT ![i] = [done(how) EXCEPT !.logged = FALSE]]
  BY DEF Tell, Entry, ListsIn, Goes, Gone
<1> DEFINE how == 2 + waiting + IF BriefIsStale(r.library) THEN 1 ELSE 0
<1>3. how \in Nat /\ how >= 2
  BY DEF RecallConstants
<1>4. \/ /\ log' = log \cup {Entry(i, s) : s \in layout(how).shown}
         /\ recalls' = [recalls EXCEPT ![i] = done(how)]
      \/ /\ UNCHANGED log
         /\ recalls' = [recalls EXCEPT ![i] = [done(how) EXCEPT !.logged = FALSE]]
  BY <1>2
<1> HIDE DEF how
<1>5. PICK told : told \subseteq ToNotice(r) /\ layout(how).shown = ListsOf(r.library, r.full, how) \cup Block("C", told)
  BY <1>1, <1>3, LayoutIs
<1>6. layout(how).tokens <= MaxTokens
  BY <1>1, <1>3, LayoutIs
<1>7. plain(how)
  BY <1>1, <1>3, PlainLayout
<1>8. ToSet(Notices(r)) = ToNotice(r)
  BY <1>1, NoticesAre
<1> HIDE DEF layout, plain
<1>9. LET new == done(how)
      IN  /\ DOMAIN new = RecallFields /\ new.step = "done" /\ new.shown = layout(how).shown /\ new.tokens = layout(how).tokens
          /\ new.plain = plain(how) /\ new.gone = Goes(r) /\ new.cut = (PagesIn(layout(how).shown, {"C"}) # ToNotice(r))
          /\ new.heard = r.heard /\ new.logged = r.logged
  <2>1. DOMAIN r = RecallFields
    BY <1>1
  <2> HIDE DEF r
  <2> QED BY <1>8, <2>1 DEF RecallFields
<1> HIDE DEF done
<1>10. PICK new :
         /\ recalls' = [recalls EXCEPT ![i] = new]
         /\ DOMAIN new = RecallFields /\ new.step = "done" /\ new.shown = layout(how).shown /\ new.tokens = layout(how).tokens
         /\ new.plain = plain(how) /\ new.gone = Goes(r) /\ new.cut = (PagesIn(layout(how).shown, {"C"}) # ToNotice(r))
         /\ new.heard = r.heard
         /\ \/ log' = log \cup {Entry(i, s) : s \in layout(how).shown} /\ new.logged = r.logged
            \/ log' = log /\ ~new.logged
  <2>1. CASE log' = log \cup {Entry(i, s) : s \in layout(how).shown} /\ recalls' = [recalls EXCEPT ![i] = done(how)]
    BY <1>9, <2>1
  <2>2. CASE UNCHANGED log /\ recalls' = [recalls EXCEPT ![i] = [done(how) EXCEPT !.logged = FALSE]]
    <3> DEFINE new == [done(how) EXCEPT !.logged = FALSE]
    <3>1. /\ DOMAIN new = RecallFields /\ new.step = "done" /\ new.shown = layout(how).shown /\ new.tokens = layout(how).tokens
          /\ new.plain = plain(how) /\ new.gone = Goes(r) /\ new.cut = (PagesIn(layout(how).shown, {"C"}) # ToNotice(r))
          /\ new.heard = r.heard /\ ~new.logged
      BY <1>9 DEF RecallFields
    <3>2. recalls' = [recalls EXCEPT ![i] = new] /\ log' = log
      BY <2>2
    <3> HIDE DEF new
    <3> QED BY <3>1, <3>2
  <2> QED BY <1>4, <2>1, <2>2
<1>11. DOMAIN recalls' = Runs /\ recalls'[i] = new /\ \A j \in Runs \ {i} : recalls'[j] = recalls[j]
  BY <1>1, <1>10
<1>12. Shaped /\ Others(i)
  BY <1>1, <1>10, <1>11 DEF Shaped, Others
<1>13. /\ recalls'[i].step = "done" /\ recalls'[i].tokens <= MaxTokens /\ recalls'[i].plain /\ recalls'[i].gone = Goes(r)
       /\ recalls'[i].heard = r.heard
  BY <1>6, <1>7, <1>10, <1>11
<1>14. ~recalls'[i].cut => PagesIn(recalls'[i].shown, {"C"}) = ToNotice(r)
  BY <1>10, <1>11
<1>15. recalls'[i].shown = ListsOf(r.library, r.full, how) \cup Block("C", told)
  BY <1>5, <1>10, <1>11
<1>16. \/ log' = log \cup {Entry(i, s) : s \in recalls'[i].shown} /\ recalls'[i].logged = r.logged
       \/ log' = log /\ ~recalls'[i].logged
  BY <1>10, <1>11
<1> QED BY <1>0, <1>1, <1>3, <1>5, <1>12, <1>13, <1>14, <1>15, <1>16

----------------------------------------------------------------------------
(* The steps keep the invariant.                                           *)

LEMMA EntriesKept ==
    ASSUME NEW J, \A j \in J : recalls'[j].shown = recalls[j].shown /\ (recalls[j].shown = {} \/ recalls'[j].logged = recalls[j].logged)
    PROVE  Entries(J)' = Entries(J)
  BY DEF Entries, Entry

(* A step of one run that shows and logs nothing.                          *)
QuietOf(i) ==
    /\ Others(i) /\ log' = log /\ recalls[i].step # "done"
    /\ recalls'[i].shown = {} /\ recalls[i].shown = {}
    /\ recalls'[i].step # "done" => recalls'[i].gone = {}
    /\ recalls'[i].tokens <= MaxTokens /\ recalls'[i].plain /\ recalls'[i].logged

LEMMA QuietKeeps ==
    ASSUME IInv, NEW i \in Runs, QuietOf(i)
    PROVE  /\ TextFits' /\ ListsWithoutHistory' /\ LogInv' /\ FreshInv'
           /\ \A J \in SUBSET Runs : Entries(J)' = Entries(J)
<1>1. \A j \in Runs : j = i \/ recalls'[j] = recalls[j]
  BY DEF QuietOf, Others
<1>2. TextFits' /\ ListsWithoutHistory'
  BY <1>1 DEF IInv, TextFits, ListsWithoutHistory, QuietOf
<1>3. ASSUME NEW J \in SUBSET Runs PROVE Entries(J)' = Entries(J)
  <2>1. \A j \in J : recalls'[j].shown = recalls[j].shown /\ (recalls[j].shown = {} \/ recalls'[j].logged = recalls[j].logged)
    BY <1>1 DEF QuietOf
  <2> QED BY <2>1, EntriesKept
<1>4. LogInv'
  <2>1. Entries(Runs)' = Entries(Runs)
    BY <1>3
  <2> QED BY <2>1 DEF LogInv, IInv, QuietOf
<1>5. FreshInv'
  BY <1>1 DEF FreshInv, IInv, QuietOf
<1> QED BY <1>2, <1>3, <1>4, <1>5

(* A step of one run leaves what the others heard and told.                *)
LEMMA OthersKeep ==
    ASSUME IInv, NEW i \in Runs, Others(i), recalls[i].step # "done",
           \A J \in SUBSET Runs : i \notin J => Entries(J)' = Entries(J),
           NEW k \in Runs, k # i
    PROVE  /\ \A j \in recalls'[k].heard : j \in Runs /\ recalls'[j].step = "done" /\ recalls'[j].logged
           /\ \A J \in SUBSET Runs : recalls'[k].step = "read" /\ J = recalls'[k].heard => recalls'[k].history = Entries(J)'
           /\ \A J \in SUBSET Runs : recalls'[k].step = "done" /\ J = recalls'[k].heard => Tells(recalls'[k], Entries(J)')
<1>1. recalls'[k] = recalls[k]
  BY DEF Others
<1>2. \A j \in recalls[k].heard : j \in Runs /\ recalls[j].step = "done" /\ recalls[j].logged
  BY DEF IInv, HeardInv
<1>3. i \notin recalls[k].heard /\ recalls[k].heard \in SUBSET Runs
  BY <1>2
<1>4. \A j \in recalls[k].heard : recalls'[j] = recalls[j]
  BY <1>2, <1>3 DEF Others
<1>5. ASSUME NEW J \in SUBSET Runs, J = recalls'[k].heard
      PROVE  /\ recalls'[k].step = "read" => recalls'[k].history = Entries(J)'
             /\ recalls'[k].step = "done" => Tells(recalls'[k], Entries(J)')
  <2>1. Entries(J)' = Entries(J)
    BY <1>1, <1>3, <1>5
  <2>2. recalls[k].step = "read" => recalls[k].history = Entries(J)
    BY <1>1, <1>5 DEF IInv, HeardInv
  <2>3. recalls[k].step = "done" => Tells(recalls[k], Entries(J))
    BY <1>1, <1>5 DEF IInv, NoticeInv
  <2> QED BY <1>1, <2>1, <2>2, <2>3
<1> QED BY <1>1, <1>2, <1>4, <1>5

LEMMA StartsInOrder ==
    ASSUME RecallConstants, IInv, NEW i \in Runs, i = Cardinality(Started) + 1
    PROVE  Started = 1..i - 1
<1>1. PICK n \in Nat : Started = 1..n
  BY DEF IInv, StartInv
<1>2. Cardinality(1..n) = n
  BY FS_Interval
<1> QED BY <1>1, <1>2

LEMMA LoadKeeps == ASSUME RecallConstants, IInv, NEW i \in Runs, Load(i) PROVE IInv'
<1>1. TypeInv /\ FreshInv
  BY DEF IInv
<1>2. /\ Shaped /\ Others(i) /\ UNCHANGED <<page, today, changes, log>> /\ i = Cardinality(Started) + 1
      /\ recalls'[i].step = "loaded" /\ recalls'[i].library = page /\ recalls'[i].shown = {} /\ recalls'[i].gone = {}
      /\ recalls'[i].tokens = 0 /\ recalls'[i].plain = TRUE /\ recalls'[i].logged = TRUE /\ recalls'[i].heard = {}
  BY <1>1, LoadStep
<1>3. Started = 1..i - 1
  BY <1>2, StartsInOrder
<1>4. \A j \in Runs : j = i \/ recalls'[j] = recalls[j]
  BY <1>2 DEF Others
<1>5. recalls[i].step = "waiting" /\ recalls[i].shown = {}
  <2>1. i \notin Started
    BY <1>3
  <2> QED BY <1>1, <2>1 DEF Started, FreshInv
<1>6. QuietOf(i)
  <2>1. 0 <= MaxTokens
    BY DEF RecallConstants
  <2> QED BY <1>2, <1>5, <2>1 DEF QuietOf
<1>7. TextFits' /\ ListsWithoutHistory' /\ LogInv' /\ FreshInv' /\ \A J \in SUBSET Runs : Entries(J)' = Entries(J)
  BY <1>6, QuietKeeps
<1>8. TypeInv'
  BY <1>1, <1>2, <1>4 DEF TypeInv, Shaped, RecallSteps
<1>9. StartInv'
  <2>1. Started' = Started \cup {i}
    BY <1>2, <1>4 DEF Started
  <2>2. i \in Int /\ i >= 1
    BY DEF Runs
  <2>3. Started' = 1..i
    BY <1>3, <2>1, <2>2
  <2> QED BY <2>2, <2>3 DEF StartInv
<1>10. HeardInv' /\ NoticeInv'
  <2>1. recalls[i].step # "done"
    BY <1>5
  <2> QED BY <1>2, <1>7, <2>1, OthersKeep DEF HeardInv, NoticeInv
<1> QED BY <1>7, <1>8, <1>9, <1>10 DEF IInv

LEMMA ReadKeeps == ASSUME RecallConstants, IInv, NEW i \in Runs, ReadLog(i) PROVE IInv'
<1>1. TypeInv /\ FreshInv
  BY DEF IInv
<1>2. /\ Shaped /\ Others(i) /\ Kept(i) /\ UNCHANGED <<page, today, changes, log>>
      /\ recalls[i].step = "loaded" /\ recalls'[i].step = "read" /\ recalls'[i].library = recalls[i].library
      /\ recalls'[i].gone = recalls[i].gone
      /\ \/ recalls'[i].history = log /\ recalls'[i].heard = {e.at : e \in log}
         \/ recalls'[i].history = {} /\ recalls'[i].heard = {}
  BY <1>1, ReadStep
<1>3. \A j \in Runs : j = i \/ recalls'[j] = recalls[j]
  BY <1>2 DEF Others
<1>4. QuietOf(i)
  BY <1>1, <1>2 DEF QuietOf, Kept, FreshInv, IInv, TextFits, ListsWithoutHistory
<1>5. TextFits' /\ ListsWithoutHistory' /\ LogInv' /\ FreshInv' /\ \A J \in SUBSET Runs : Entries(J)' = Entries(J)
  BY <1>4, QuietKeeps
<1>6. TypeInv'
  BY <1>1, <1>2, <1>3 DEF TypeInv, Shaped, RecallSteps
<1>7. StartInv'
  <2>1. Started' = Started
    BY <1>2, <1>3 DEF Started
  <2> QED BY <2>1 DEF StartInv, IInv
<1>8. \A e \in log : \E j \in Runs : e.at = j /\ recalls[j].step = "done" /\ recalls[j].logged /\ \E s \in recalls[j].shown : e = Entry(j, s)
  <2> SUFFICES ASSUME NEW e \in log
               PROVE  \E j \in Runs : e.at = j /\ recalls[j].step = "done" /\ recalls[j].logged /\ \E s \in recalls[j].shown : e = Entry(j, s)
    OBVIOUS
  <2>1. e \in Entries(Runs)
    BY DEF IInv, LogInv
  <2>2. PICK j \in Runs : recalls[j].logged /\ \E s \in recalls[j].shown : e = Entry(j, s)
    BY <2>1 DEF Entries
  <2>3. e.at = j
    BY <2>2 DEF Entry
  <2>4. recalls[j].step = "done"
    BY <1>1, <2>2 DEF FreshInv
  <2> QED BY <2>2, <2>3, <2>4
<1>9. \A j \in recalls'[i].heard : j \in Runs /\ recalls'[j].step = "done" /\ recalls'[j].logged
  <2> SUFFICES ASSUME NEW j \in recalls'[i].heard PROVE j \in Runs /\ recalls'[j].step = "done" /\ recalls'[j].logged
    OBVIOUS
  <2>1. j \in Runs /\ recalls[j].step = "done" /\ recalls[j].logged
    BY <1>2, <1>8
  <2>2. j # i
    BY <1>2, <2>1
  <2> QED BY <1>3, <2>1, <2>2
<1>10. ASSUME NEW J \in SUBSET Runs, J = recalls'[i].heard PROVE recalls'[i].history = Entries(J)'
  <2>1. Entries(J)' = Entries(J)
    BY <1>5
  <2>2. CASE recalls'[i].history = {} /\ recalls'[i].heard = {}
    BY <1>10, <2>1, <2>2 DEF Entries
  <2>3. CASE recalls'[i].history = log /\ recalls'[i].heard = {e.at : e \in log}
    <3>1. \A e \in log : e \in Entries(J)
      BY <1>8, <1>10, <2>3 DEF Entries
    <3>2. \A e \in Entries(J) : e \in log
      BY DEF IInv, LogInv, Entries
    <3> QED BY <2>1, <2>3, <3>1, <3>2
  <2> QED BY <1>2, <2>2, <2>3
<1>11. HeardInv' /\ NoticeInv'
  <2>1. recalls[i].step # "done" /\ recalls'[i].step # "done"
    BY <1>2
  <2> QED BY <1>2, <1>5, <1>9, <1>10, <2>1, OthersKeep DEF HeardInv, NoticeInv
<1> QED BY <1>5, <1>6, <1>7, <1>11 DEF IInv

LEMMA HandOffKeeps == ASSUME RecallConstants, IInv, NEW i \in Runs, HandOff(i) PROVE IInv'
<1> DEFINE r == recalls[i]
<1>1. TypeInv /\ FreshInv
  BY DEF IInv
<1>2. /\ Shaped /\ Others(i) /\ Kept(i) /\ UNCHANGED <<page, today, changes, log>>
      /\ r.step = "read" /\ recalls'[i].step = "done" /\ recalls'[i].heard = r.heard
      /\ recalls'[i].gone = Goes(r) /\ ToNotice(r) = {}
  BY <1>1, HandOffStep
<1>3. \A j \in Runs : j = i \/ recalls'[j] = recalls[j]
  BY <1>2 DEF Others
<1>4. QuietOf(i)
  BY <1>1, <1>2 DEF QuietOf, Kept, FreshInv, IInv, TextFits, ListsWithoutHistory
<1>5. TextFits' /\ ListsWithoutHistory' /\ LogInv' /\ FreshInv' /\ \A J \in SUBSET Runs : Entries(J)' = Entries(J)
  BY <1>4, QuietKeeps
<1>6. TypeInv'
  BY <1>1, <1>2, <1>3 DEF TypeInv, Shaped, RecallSteps
<1>7. StartInv'
  <2>1. Started' = Started
    BY <1>2, <1>3 DEF Started
  <2> QED BY <2>1 DEF StartInv, IInv
<1>8. \A j \in r.heard : j \in Runs /\ recalls'[j].step = "done" /\ recalls'[j].logged
  <2>1. \A j \in r.heard : j \in Runs /\ recalls[j].step = "done" /\ recalls[j].logged
    BY DEF IInv, HeardInv
  <2> QED BY <1>2, <1>3, <2>1
<1>9. ASSUME NEW J \in SUBSET Runs, J = r.heard PROVE Tells(recalls'[i], Entries(J)')
  <2>1. r.history = Entries(J) /\ Entries(J)' = Entries(J)
    BY <1>2, <1>5, <1>9 DEF IInv, HeardInv
  <2>2. PagesIn(recalls'[i].shown, {"C"}) = {}
    BY <1>4 DEF QuietOf, PagesIn
  <2>3. Listing(r.history) # {} => (Goes(r) \cap BaseItems(r.history)) \ Noticed(r.history) = {}
    BY <1>2 DEF ToNotice, Changed, Goes
  <2> QED BY <1>2, <2>1, <2>2, <2>3 DEF Tells
<1>10. HeardInv' /\ NoticeInv'
  <2>1. recalls[i].step # "done" /\ recalls'[i].step # "read"
    BY <1>2
  <2> QED BY <1>2, <1>5, <1>8, <1>9, <2>1, OthersKeep DEF HeardInv, NoticeInv
<1> QED BY <1>5, <1>6, <1>7, <1>10 DEF IInv

LEMMA TellKeepsFit ==
    ASSUME RecallConstants, IInv, NEW i \in Runs, Tell(i)
    PROVE  TextFits' /\ ListsWithoutHistory' /\ \A p : p \in PagesIn(recalls'[i].shown, {"C"}) => p \in ToNotice(recalls[i])
<1> DEFINE r == recalls[i]
<1>1. TypeInv
  BY DEF IInv
<1>2. /\ recalls[i].step = "read" /\ recalls'[i].tokens <= MaxTokens /\ recalls'[i].plain
      /\ Others(i)
  BY <1>1, TellStep
<1>3. PICK how \in Nat, told \in SUBSET ToNotice(recalls[i]) :
        recalls'[i].shown = ListsOf(recalls[i].library, recalls[i].full, how) \cup Block("C", told)
  BY <1>1, TellStep
<1>4. IsLibrary(r.library)
  BY <1>1, <1>2 DEF TypeInv
<1> DEFINE lists == ListsOf(r.library, r.full, how)
<1>5. \A s \in lists : /\ s.block \in {"A", "B"} /\ s = [block |-> s.block, page |-> s.page] /\ s.page \in Current(r.library)
                       /\ s.block = "A" <=> s.page \in Pinned(r.library)
  BY <1>4, ListsAre
<1>6. recalls'[i].shown = lists \cup Block("C", told)
  BY <1>3
<1> HIDE DEF lists
<1>7. \A s \in Block("C", told) : s.block = "C" /\ s = [block |-> s.block, page |-> s.page] /\ s.page \in ToNotice(r)
  BY <1>3 DEF Block
<1>8. ToNotice(r) \cap Current(r.library) = {}
  BY DEF ToNotice, Current, Noticeable, Stale
<1>9. \A s, t \in recalls'[i].shown : s.page = t.page => s = t
  <2> SUFFICES ASSUME NEW s \in recalls'[i].shown, NEW t \in recalls'[i].shown, s.page = t.page PROVE s = t
    OBVIOUS
  <2>1. (s \in lists /\ t \in lists) \/ (s \in Block("C", told) /\ t \in Block("C", told))
    BY <1>5, <1>6, <1>7, <1>8
  <2>2. s.block = t.block
    BY <1>5, <1>7, <2>1
  <2>3. s = [block |-> s.block, page |-> s.page] /\ t = [block |-> t.block, page |-> t.page]
    BY <1>5, <1>7, <2>1
  <2> QED BY <2>2, <2>3
<1>10. \A j \in Runs \ {i} : recalls'[j].tokens = recalls[j].tokens /\ recalls'[j].shown = recalls[j].shown /\ recalls'[j].plain = recalls[j].plain
  BY <1>2 DEF Others
<1>11. TextFits'
  BY <1>2, <1>9, <1>10 DEF TextFits, IInv
<1>12. ListsWithoutHistory'
  BY <1>2, <1>10 DEF ListsWithoutHistory, IInv
<1>13. \A p : p \in PagesIn(recalls'[i].shown, {"C"}) => p \in ToNotice(r)
  BY <1>5, <1>6, <1>7 DEF PagesIn
<1> QED BY <1>11, <1>12, <1>13

LEMMA TellKeeps == ASSUME RecallConstants, IInv, NEW i \in Runs, Tell(i) PROVE IInv'
<1> DEFINE r == recalls[i]
           new == {Entry(i, s) : s \in recalls'[i].shown}
<1>1. TypeInv /\ FreshInv
  BY DEF IInv
<1>2. /\ Shaped /\ Others(i) /\ UNCHANGED <<page, today, changes>>
      /\ r.step = "read" /\ recalls'[i].step = "done"
      /\ recalls'[i].gone = Goes(r)
      /\ ~recalls'[i].cut => PagesIn(recalls'[i].shown, {"C"}) = ToNotice(r)
      /\ recalls'[i].heard = r.heard
      /\ (log' = log \cup new /\ recalls'[i].logged = r.logged) \/ (log' = log /\ ~recalls'[i].logged)
  BY <1>1, TellStep
<1>3. \A j \in Runs : j = i \/ recalls'[j] = recalls[j]
  BY <1>2 DEF Others
<1>4. TextFits' /\ ListsWithoutHistory' /\ \A p : p \in PagesIn(recalls'[i].shown, {"C"}) => p \in ToNotice(r)
  BY TellKeepsFit
<1>5. r.shown = {} /\ r.logged
  BY <1>1, <1>2 DEF FreshInv
<1>6. TypeInv'
  BY <1>1, <1>2, <1>3 DEF TypeInv, Shaped, RecallSteps
<1>7. StartInv'
  <2>1. Started' = Started
    BY <1>2, <1>3 DEF Started
  <2> QED BY <2>1 DEF StartInv, IInv
<1>8. FreshInv'
  BY <1>1, <1>2, <1>3 DEF FreshInv
<1>9. ASSUME NEW J \in SUBSET Runs, i \notin J PROVE Entries(J)' = Entries(J)
  <2>1. \A j \in J : recalls'[j] = recalls[j]
    BY <1>3, <1>9
  <2> QED BY <2>1, EntriesKept
<1>10. LogInv'
  <2>1. \A e : e \in Entries(Runs) <=> \E j \in Runs : j # i /\ recalls[j].logged /\ \E s \in recalls[j].shown : e = Entry(j, s)
    BY <1>5 DEF Entries
  <2>2. \A e : e \in Entries(Runs)' <=> \E j \in Runs : recalls'[j].logged /\ \E s \in recalls'[j].shown : e = Entry(j, s)
    BY DEF Entries, Entry
  <2>3. \A e : e \in Entries(Runs)' <=> e \in Entries(Runs) \/ (recalls'[i].logged /\ e \in new)
    BY <1>3, <2>1, <2>2
  <2>4. log = Entries(Runs)
    BY DEF IInv, LogInv
  <2> HIDE DEF new
  <2>5. CASE log' = log \cup new /\ recalls'[i].logged = r.logged
    BY <1>5, <2>3, <2>4, <2>5 DEF LogInv
  <2>6. CASE log' = log /\ ~recalls'[i].logged
    BY <2>3, <2>4, <2>6 DEF LogInv
  <2> QED BY <1>2, <2>5, <2>6
<1> HIDE DEF new
<1>11. \A j \in r.heard : j \in Runs /\ j # i /\ recalls'[j].step = "done" /\ recalls'[j].logged
  <2>1. \A j \in r.heard : j \in Runs /\ recalls[j].step = "done" /\ recalls[j].logged
    BY DEF IInv, HeardInv
  <2> QED BY <1>2, <1>3, <2>1
<1>12. ASSUME NEW J \in SUBSET Runs, J = r.heard PROVE Tells(recalls'[i], Entries(J)')
  <2>1. r.history = Entries(J) /\ Entries(J)' = Entries(J)
    BY <1>2, <1>9, <1>11, <1>12 DEF IInv, HeardInv
  <2> DEFINE told == PagesIn(recalls'[i].shown, {"C"})
  <2>2. told \subseteq ToNotice(r)
    BY <1>4
  <2>3. ToNotice(r) \cap Noticed(r.history) = {}
    BY DEF ToNotice
  <2>4. Listing(r.history) # {} => ToNotice(r) = (Goes(r) \cap BaseItems(r.history)) \ Noticed(r.history)
    BY DEF ToNotice, Changed, Goes
  <2>5. ~recalls'[i].cut => told = ToNotice(r)
    BY <1>2
  <2> HIDE DEF told
  <2>6. Tells(recalls'[i], r.history)
    BY <1>2, <2>2, <2>3, <2>4, <2>5 DEF Tells, told
  <2> QED BY <2>1, <2>6
<1>13. HeardInv' /\ NoticeInv'
  <2>1. recalls[i].step # "done" /\ recalls'[i].step # "read"
    BY <1>2
  <2> QED BY <1>2, <1>9, <1>11, <1>12, <2>1, OthersKeep DEF HeardInv, NoticeInv
<1> QED BY <1>4, <1>6, <1>7, <1>8, <1>10, <1>13 DEF IInv

LEMMA RecallsSameKeep ==
    ASSUME IInv, UNCHANGED <<log, recalls>>
    PROVE  StartInv' /\ FreshInv' /\ TextFits' /\ ListsWithoutHistory' /\ LogInv' /\ HeardInv' /\ NoticeInv'
<1>1. \A J : Entries(J)' = Entries(J)
  BY DEF Entries, Entry
<1>2. Started' = Started
  BY DEF Started
<1>3. StartInv' /\ FreshInv'
  BY <1>2 DEF IInv, StartInv, FreshInv
<1>4. TextFits' /\ ListsWithoutHistory'
  BY DEF IInv, TextFits, ListsWithoutHistory
<1>5. LogInv' /\ HeardInv'
  BY <1>1 DEF IInv, LogInv, HeardInv
<1>6. NoticeInv'
  BY <1>1 DEF IInv, NoticeInv, Tells
<1> QED BY <1>3, <1>4, <1>5, <1>6

LEMMA RecallInitInv == ASSUME RecallConstants, RecallInit PROVE IInv
<1>1. \A i \in Runs : recalls[i] = NoRecall
  BY DEF RecallInit
<1>2. /\ DOMAIN NoRecall = RecallFields /\ NoRecall.step = "waiting" /\ NoRecall.shown = {} /\ NoRecall.gone = {}
      /\ NoRecall.logged /\ NoRecall.plain /\ NoRecall.tokens = 0 /\ NoRecall.heard = {}
  BY DEF NoRecall, RecallFields
<1>3. TypeInv
  <2>1. DOMAIN recalls = Runs
    BY DEF RecallInit
  <2>2. page = [p \in DOMAIN Pages |-> page[p]] /\ IsLibrary(page) /\ today \in Int
    BY DEF RecallInit, IsLibrary
  <2> QED BY <1>1, <1>2, <2>1, <2>2 DEF TypeInv, RecallSteps
<1>4. StartInv
  <2>1. Started = 1..0
    BY <1>1, <1>2 DEF Started
  <2> QED BY <2>1 DEF StartInv
<1>5. FreshInv /\ TextFits /\ ListsWithoutHistory
  BY <1>1, <1>2 DEF FreshInv, TextFits, ListsWithoutHistory, RecallConstants
<1>6. LogInv
  BY <1>1, <1>2 DEF LogInv, Entries, RecallInit
<1>7. HeardInv /\ NoticeInv
  BY <1>1, <1>2 DEF HeardInv, NoticeInv
<1> QED BY <1>3, <1>4, <1>5, <1>6, <1>7 DEF IInv

LEMMA RecallNextInv == ASSUME RecallConstants, IInv, [RecallNext]_recallVars PROVE IInv'
<1>1. ASSUME NEW p \in DOMAIN Pages, Change(p) PROVE IInv'
  <2>1. PICK status : page' = [page EXCEPT ![p] = [status |-> status, day |-> today]]
    BY <1>1 DEF Change
  <2>2. today \in Int /\ (\A q \in DOMAIN Pages : page[q].day \in Int) /\ DOMAIN page = DOMAIN Pages
    BY DEF IInv, TypeInv, IsLibrary
  <2>3. \A q \in DOMAIN Pages : page'[q].day \in Int
    <3> SUFFICES ASSUME NEW q \in DOMAIN Pages PROVE page'[q].day \in Int
      OBVIOUS
    <3>1. CASE q = p
      <4>1. page'[q] = [status |-> status, day |-> today]
        BY <2>1, <2>2, <3>1
      <4> QED BY <2>2, <4>1
    <3>2. CASE q # p
      BY <2>1, <2>2, <3>2
    <3> QED BY <3>1, <3>2
  <2>4. page' = [q \in DOMAIN Pages |-> page'[q]]
    BY <2>1, <2>2
  <2>5. UNCHANGED <<today, log, recalls>>
    BY <1>1 DEF Change
  <2>6. TypeInv'
    BY <2>3, <2>4, <2>5 DEF IInv, TypeInv, IsLibrary
  <2> QED BY <2>5, <2>6, RecallsSameKeep DEF IInv
<1>2. ASSUME Tomorrow PROVE IInv'
  <2>1. TypeInv'
    BY <1>2 DEF Tomorrow, IInv, TypeInv, IsLibrary
  <2> QED BY <1>2, <2>1, RecallsSameKeep DEF Tomorrow, IInv
<1>3. ASSUME UNCHANGED recallVars PROVE IInv'
  <2>1. UNCHANGED <<page, today, log, recalls>>
    BY <1>3 DEF recallVars
  <2>2. TypeInv'
    BY <2>1 DEF IInv, TypeInv, IsLibrary
  <2> QED BY <2>1, <2>2, RecallsSameKeep DEF IInv
<1>4. ASSUME NEW i \in Runs, Load(i) \/ ReadLog(i) \/ HandOff(i) \/ Tell(i) PROVE IInv'
  BY <1>4, LoadKeeps, ReadKeeps, HandOffKeeps, TellKeeps
<1> QED BY <1>1, <1>2, <1>3, <1>4 DEF RecallNext

----------------------------------------------------------------------------
(* What a run read, of the runs it heard.                                  *)

LEMMA HeardEntries ==
    ASSUME RecallConstants, IInv, NEW k \in Runs, NEW heard \in SUBSET Runs, heard = recalls[k].heard
    PROVE  LET events == Entries(heard)
           IN  /\ \A i \in heard : \A p : p \in ShownIn(i, ListBlocks) <=>
                       \E e \in Listing(events) : e.at = i /\ e.page = p
               /\ \A i \in heard : \A p : p \in ShownIn(i, {"C"}) <=>
                       \E e \in events : e.block = "C" /\ e.at = i /\ e.page = p
               /\ \A e \in events : e.at \in heard
               /\ Listing(events) = {} => BaseAt(events) = 0
               /\ Listing(events) # {} => /\ BaseAt(events) \in {e.at : e \in Listing(events)}
                                         /\ \A e \in Listing(events) : e.at <= BaseAt(events)
<1> DEFINE events == Entries(heard)
<1>1. heard \subseteq 1..MaxRuns /\ MaxRuns \in Nat
  BY DEF Runs, RecallConstants
<1>2. \A j \in heard : recalls[j].logged
  BY DEF IInv, HeardInv
<1>3. \A j, s : Entry(j, s).at = j /\ Entry(j, s).block = s.block /\ Entry(j, s).page = s.page
  BY DEF Entry
<1>4. \A e : e \in events <=> \E j \in heard : \E s \in recalls[j].shown : e = Entry(j, s)
  BY <1>2 DEF Entries
<1> HIDE DEF events
<1>5. \A e \in events : e.at \in heard
  BY <1>3, <1>4
<1>6. ASSUME NEW i \in heard, NEW p
      PROVE  p \in ShownIn(i, ListBlocks) <=> \E e \in Listing(events) : e.at = i /\ e.page = p
  <2>1. ASSUME p \in ShownIn(i, ListBlocks) PROVE \E e \in Listing(events) : e.at = i /\ e.page = p
    <3>1. PICK s \in recalls[i].shown : s.block \in ListBlocks /\ s.page = p
      BY <2>1 DEF ShownIn, PagesIn
    <3>2. Entry(i, s) \in events
      BY <1>4
    <3>3. Entry(i, s) \in Listing(events)
      BY <1>3, <3>1, <3>2 DEF Listing
    <3> QED BY <1>3, <3>1, <3>3
  <2>2. ASSUME NEW e \in Listing(events), e.at = i, e.page = p PROVE p \in ShownIn(i, ListBlocks)
    <3>1. e \in events /\ e.block \in ListBlocks
      BY DEF Listing
    <3>2. PICK j \in heard : \E s \in recalls[j].shown : e = Entry(j, s)
      BY <1>4, <3>1
    <3> QED BY <1>3, <2>2, <3>1, <3>2 DEF ShownIn, PagesIn
  <2> QED BY <2>1, <2>2
<1>7. ASSUME NEW i \in heard, NEW p
      PROVE  p \in ShownIn(i, {"C"}) <=> \E e \in events : e.block = "C" /\ e.at = i /\ e.page = p
  <2>1. ASSUME p \in ShownIn(i, {"C"}) PROVE \E e \in events : e.block = "C" /\ e.at = i /\ e.page = p
    <3>1. PICK s \in recalls[i].shown : s.block = "C" /\ s.page = p
      BY <2>1 DEF ShownIn, PagesIn
    <3>2. Entry(i, s) \in events
      BY <1>4
    <3> QED BY <1>3, <3>1, <3>2
  <2>2. ASSUME NEW e \in events, e.block = "C", e.at = i, e.page = p PROVE p \in ShownIn(i, {"C"})
    <3>1. PICK j \in heard : \E s \in recalls[j].shown : e = Entry(j, s)
      BY <1>4
    <3> QED BY <1>3, <2>2, <3>1 DEF ShownIn, PagesIn
  <2> QED BY <2>1, <2>2
<1> DEFINE listed == {e.at : e \in Listing(events)}
<1>8. Listing(events) \subseteq events
  BY DEF Listing
<1>9. BaseAt(events) = IF listed = {} THEN 0 ELSE Max(listed)
  BY DEF BaseAt
<1>10. listed \subseteq 0..MaxRuns /\ (listed = {} <=> Listing(events) = {})
  BY <1>1, <1>5, <1>8
<1>11. ASSUME listed # {} PROVE Max(listed) \in listed /\ \A i \in listed : i <= Max(listed)
  <2> HIDE DEF listed
  <2>1. PICK m \in listed : \A i \in listed : i <= m
    BY <1>1, <1>10, <1>11, GreatestIs
  <2>2. \A i, j \in listed : i <= j <=> j >= i
    BY <1>10
  <2>3. \A i \in listed : m >= i
    BY <2>1, <2>2
  <2>4. Max(listed) \in listed /\ \A i \in listed : Max(listed) >= i
    BY <2>3 DEF Max
  <2> QED BY <2>2, <2>4
<1>12. Listing(events) = {} => BaseAt(events) = 0
  BY <1>9, <1>10
<1>13. Listing(events) # {} => BaseAt(events) \in listed /\ \A e \in Listing(events) : e.at <= BaseAt(events)
  BY <1>9, <1>10, <1>11
<1> QED BY <1>5, <1>6, <1>7, <1>12, <1>13 DEF events

LEMMA EachChangeIsTold == ASSUME RecallConstants, IInv PROVE ChangesAreTold
<1> SUFFICES ASSUME NEW k \in Runs, NEW i \in recalls[k].heard, ~recalls[k].cut,
                    \A j \in {x \in recalls[k].heard : x > i} : ShownIn(j, ListBlocks) = {},
                    NEW p \in ShownIn(i, ListBlocks) \cap recalls[k].gone
             PROVE  p \in ShownIn(k, {"C"}) \/ \E j \in {x \in recalls[k].heard : x > i} : p \in ShownIn(j, {"C"})
  BY DEF ChangesAreTold
<1>0. PICK heard \in SUBSET Runs : heard = recalls[k].heard
  BY DEF IInv, HeardInv
<1> DEFINE events == Entries(heard)
<1>1. (\A j \in heard : j \in Int) /\ i \in heard /\ i \in Runs /\ i \in Int
  BY <1>0 DEF Runs, RecallConstants
<1>2. Tells(recalls[k], events)
  <2>1. recalls[k].step = "done"
    BY DEF IInv, FreshInv
  <2> QED BY <1>0, <2>1 DEF IInv, NoticeInv
<1>3. /\ \A j \in heard : \A q : q \in ShownIn(j, ListBlocks) <=> \E e \in Listing(events) : e.at = j /\ e.page = q
      /\ \A j \in heard : \A q : q \in ShownIn(j, {"C"}) <=> \E e \in events : e.block = "C" /\ e.at = j /\ e.page = q
      /\ \A e \in events : e.at \in heard
      /\ Listing(events) # {} => /\ BaseAt(events) \in {e.at : e \in Listing(events)}
                                /\ \A e \in Listing(events) : e.at <= BaseAt(events)
  BY <1>0, HeardEntries
<1> HIDE DEF events
<1>4. PICK listing \in Listing(events) : listing.at = i /\ listing.page = p
  BY <1>1, <1>3
<1>5. BaseAt(events) = i
  <2>1. PICK e \in Listing(events) : e.at = BaseAt(events)
    BY <1>3, <1>4
  <2>2. e \in events /\ e.at \in heard /\ i <= e.at
    BY <1>3, <1>4, <2>1 DEF Listing
  <2>3. e.page \in ShownIn(e.at, ListBlocks)
    BY <1>3, <2>2
  <2>4. ~(e.at > i)
    BY <1>0, <2>2, <2>3
  <2>5. e.at \in Int /\ i \in Int
    BY <1>1, <2>2
  <2>6. e.at = i
    BY <2>2, <2>4, <2>5
  <2> QED BY <2>1, <2>6
<1>6. p \in BaseItems(events)
  BY <1>4, <1>5 DEF BaseItems
<1>7. CASE p \notin Noticed(events)
  <2>1. p \in PagesIn(recalls[k].shown, {"C"})
    BY <1>2, <1>4, <1>6, <1>7 DEF Tells
  <2> QED BY <2>1 DEF ShownIn
<1>8. CASE p \in Noticed(events)
  <2>1. PICK e \in events : e.block = "C" /\ e.at >= i /\ e.page = p
    BY <1>5, <1>8 DEF Noticed
  <2>2. e.at \in heard /\ p \in ShownIn(e.at, {"C"})
    BY <1>3, <2>1
  <2>3. e.at # i
    <3> SUFFICES ASSUME e.at = i PROVE FALSE
      OBVIOUS
    <3>1. PICK s \in recalls[i].shown : s.block \in {"A", "B"} /\ s.page = p
      BY DEF ShownIn, PagesIn, ListBlocks
    <3>2. PICK t \in recalls[i].shown : t.block = "C" /\ t.page = p
      BY <2>2 DEF ShownIn, PagesIn
    <3>3. s = t
      BY <1>1, <3>1, <3>2 DEF IInv, TextFits
    <3> QED BY <3>1, <3>2, <3>3
  <2>4. e.at > i
    <3>1. e.at \in Int /\ i \in Int
      BY <1>1, <2>2
    <3> QED BY <2>1, <2>3, <3>1
  <2> QED BY <1>0, <2>2, <2>4
<1> QED BY <1>7, <1>8

LEMMA HeardIsNotToldAgain == ASSUME RecallConstants, IInv PROVE NotToldAgain
<1> SUFFICES ASSUME NEW k \in Runs, NEW i \in recalls[k].heard, NEW p \in ShownIn(i, {"C"}) \cap ShownIn(k, {"C"})
             PROVE  \E j \in {x \in recalls[k].heard : x > i} : p \in ShownIn(j, ListBlocks)
  BY DEF NotToldAgain
<1>0. PICK heard \in SUBSET Runs : heard = recalls[k].heard
  BY DEF IInv, HeardInv
<1> DEFINE events == Entries(heard)
<1>1. (\A j \in heard : j \in Int) /\ i \in heard /\ i \in Int /\ i >= 1
  BY <1>0 DEF Runs, RecallConstants
<1>2. Tells(recalls[k], events)
  <2>1. recalls[k].shown # {}
    BY DEF ShownIn, PagesIn
  <2>2. recalls[k].step = "done"
    BY <2>1 DEF IInv, FreshInv
  <2> QED BY <1>0, <2>2 DEF IInv, NoticeInv
<1>3. /\ \A j \in heard : \A q : q \in ShownIn(j, ListBlocks) <=> \E e \in Listing(events) : e.at = j /\ e.page = q
      /\ \A j \in heard : \A q : q \in ShownIn(j, {"C"}) <=> \E e \in events : e.block = "C" /\ e.at = j /\ e.page = q
      /\ \A e \in events : e.at \in heard
      /\ Listing(events) = {} => BaseAt(events) = 0
      /\ Listing(events) # {} => /\ BaseAt(events) \in {e.at : e \in Listing(events)}
                                /\ \A e \in Listing(events) : e.at <= BaseAt(events)
  BY <1>0, HeardEntries
<1> HIDE DEF events
<1>4. p \in PagesIn(recalls[k].shown, {"C"}) /\ p \notin Noticed(events)
  BY <1>2 DEF ShownIn, Tells
<1>5. PICK notice \in events : notice.block = "C" /\ notice.at = i /\ notice.page = p
  BY <1>1, <1>3
<1>6. ~(i >= BaseAt(events))
  BY <1>4, <1>5 DEF Noticed
<1>7. Listing(events) # {}
  BY <1>1, <1>3, <1>6
<1>8. p \in BaseItems(events)
  BY <1>2, <1>4, <1>7 DEF Tells
<1>9. PICK e \in Listing(events) : e.at = BaseAt(events) /\ e.page = p
  BY <1>8 DEF BaseItems
<1>10. e \in events /\ e.at \in heard
  BY <1>3 DEF Listing
<1>11. e.at > i
  <2>1. e.at \in Int /\ i \in Int
    BY <1>1, <1>10
  <2> QED BY <1>6, <1>9, <2>1
<1> QED BY <1>0, <1>3, <1>9, <1>10, <1>11

(* Whatever runs of sessions do, and whatever becomes of the log: the text *)
(* of each fits its limit and shows a page in one block; what earlier runs *)
(* logged changes nothing of the lists (recall.py's _layout). Of the runs  *)
(* whose lines a run has read (_History): a page they listed last that no  *)
(* longer holds is told, and what one of them told is not told again       *)
(* (_notices). Nothing is claimed of runs that did not read each other.    *)
THEOREM EachChangeIsToldOnceAlongTheLog == RecallSpec => []TellsOnceAlongTheLog
<1>1. RecallInit => IInv
  BY RecallInitInv, RecallAssumption
<1>2. IInv /\ [RecallNext]_recallVars => IInv'
  BY RecallNextInv, RecallAssumption
<1>3. IInv => TellsOnceAlongTheLog
  BY EachChangeIsTold, HeardIsNotToldAgain, RecallAssumption DEF TellsOnceAlongTheLog, IInv
<1> QED BY <1>1, <1>2, <1>3, PTL DEF RecallSpec
===============================================================================
