--------------------------- MODULE ArtifactProofs ---------------------------
(***************************************************************************)
(* What goes into an artifact, for texts and price series of any length:   *)
(* what the parsers find in a text and what the gate lets pass, which      *)
(* price caches the checks let pass, and what the loops of the backtest    *)
(* report of them.                                                         *)
(*                                                                         *)
(* Parsers and loops are functions of what has been read so far; what      *)
(* holds of them after every line or day is shown by looking at the first  *)
(* one where it would not.                                                 *)
(***************************************************************************)
EXTENDS ArtifactGate, Backtest, FiniteSetTheorems, WellFoundedInduction, TLAPS

-----------------------------------------------------------------------------
(* Numbers and lines.                                                      *)

(* Of some numbers one is the smallest. *)
LEMMA Smallest ==
  ASSUME NEW T \in SUBSET Nat, T # {}
  PROVE  \E x \in T : \A y \in T : x <= y
<1>1. \E R : IsWellFoundedOn(R, Nat) /\ \A x, y \in Nat : y < x => <<y, x>> \in R
  <2>1. \A x, y \in Nat : y < x => <<y, x>> \in OpToRel(<, Nat) BY DEF OpToRel
  <2> QED BY <2>1, NatLessThanWellFounded, Zenon
<1>2. PICK R : IsWellFoundedOn(R, Nat) /\ \A x, y \in Nat : y < x => <<y, x>> \in R BY <1>1
<1>3. PICK x \in T : \A y \in T : ~(<<y, x>> \in R) BY <1>2, WFMin
<1>4. ASSUME NEW y \in T PROVE x <= y
  <2>1. x \in Nat /\ y \in Nat OBVIOUS
  <2>2. ~(y < x) BY <1>2, <1>3, <2>1
  <2> QED BY <2>1, <2>2
<1> QED BY <1>4

(* Of some numbers up to n one is the largest. *)
LEMMA Largest ==
  ASSUME NEW n \in Nat, NEW T \in SUBSET (0..n), T # {}
  PROVE  \E x \in T : \A y \in T : y <= x
<1> DEFINE Gaps == {n - y : y \in T}
<1>1. Gaps \in SUBSET Nat /\ Gaps # {}
  OBVIOUS
<1>2. PICK gap \in Gaps : \A g \in Gaps : gap <= g
  <2> HIDE DEF Gaps
  <2> QED BY <1>1, Smallest
<1>3. PICK x \in T : gap = n - x
  BY <1>2
<1>4. ASSUME NEW y \in T PROVE y <= x
  <2>1. n - y \in Gaps
    OBVIOUS
  <2>2. n - x <= n - y
    BY <1>2, <1>3, <2>1
  <2> QED
    BY <2>2
<1> QED
  BY <1>4

(* What holds of no line read, and of i lines whenever it holds of one     *)
(* less, holds throughout.  A set stands for the property.                 *)
LEMMA Throughout ==
  ASSUME NEW n \in Nat, NEW Good,
         0 \in Good,
         \A i \in 1..n : i - 1 \in Good => i \in Good
  PROVE  \A i \in 0..n : i \in Good
<1> DEFINE Bad == {i \in 0..n : i \notin Good}
<1>1. Bad \in SUBSET Nat
  OBVIOUS
<1>2. ASSUME Bad # {} PROVE FALSE
  <2>1. PICK i \in Bad : \A j \in Bad : i <= j
    <3> HIDE DEF Bad
    <3> QED BY <1>1, <1>2, Smallest
  <2>2. i \in 1..n /\ i - 1 \in 0..n /\ ~(i <= i - 1)
    BY <2>1
  <2>3. i - 1 \in Good
    BY <2>1, <2>2
  <2> QED
    BY <2>1, <2>2, <2>3
<1> QED
  BY <1>2

LEMMA KindsDiffer ==
  /\ \A slug : Heading(slug).kind = "heading" /\ Heading(slug).slug = slug
  /\ \A slug : Prose(slug).kind = "prose" /\ Prose(slug).slug = slug
  /\ BareHeading.kind = "bare" /\ Item.kind = "item" /\ Blank.kind = "blank"
  /\ Fence.kind = "fence" /\ Credential.kind = "credential"
  BY DEF Heading, Prose, BareHeading, Item, Blank, Fence, Credential, Line

(* A line is known by its kind and, if it has one, its slug. *)
LEMMA LineIs ==
  ASSUME NEW line \in Lines
  PROVE  /\ line.kind = "heading" => line = Heading(line.slug)
         /\ line.kind = "prose" => line = Prose(line.slug)
         /\ line.kind = "bare" => line = BareHeading
         /\ line.kind = "blank" => line = Blank
         /\ line.kind = "item" => line = Item
         /\ line.kind = "fence" => line = Fence
         /\ line.kind = "credential" => line = Credential
  BY KindsDiffer DEF Lines

-----------------------------------------------------------------------------
(* The parser of sections.                                                 *)

NothingFound == [found |-> {}, open |-> FALSE]

(* A reading of n lines by the rule of parse_markdown_sections. *)
ReadsSections(read, text, n) ==
  read = [i \in 0..n |-> IF i = 0 THEN NothingFound
                         ELSE ReadForSections(read[i - 1], text[i])]

LEMMA SectionsReadable ==
  ASSUME NEW text, NEW n \in Nat
  PROVE  \E read : ReadsSections(read, text, n)
<1> DEFINE Good == {i \in Nat : \E read : ReadsSections(read, text, i)}
<1>1. 0 \in Good
  <2>1. ReadsSections([i \in 0..0 |-> NothingFound], text, 0)
    BY DEF ReadsSections
  <2> QED
    BY <2>1
<1>2. ASSUME NEW m \in 1..n, m - 1 \in Good PROVE m \in Good
  <2>1. PICK part : ReadsSections(part, text, m - 1)
    BY <1>2
  <2> DEFINE read == [i \in 0..m |-> IF i < m THEN part[i]
                                     ELSE ReadForSections(part[m - 1], text[m])]
  <2>2. \A i \in 0..(m - 1) : part[i] = IF i = 0 THEN NothingFound
                                        ELSE ReadForSections(part[i - 1], text[i])
    BY <2>1 DEF ReadsSections
  <2>3. \A i \in 0..(m - 1) : read[i] = part[i]
    OBVIOUS
  <2>4. read[m] = ReadForSections(read[m - 1], text[m]) /\ m # 0
    OBVIOUS
  <2>5. \A i \in 0..m : read[i] = IF i = 0 THEN NothingFound
                                  ELSE ReadForSections(read[i - 1], text[i])
    <3> HIDE DEF read
    <3> TAKE i \in 0..m
    <3>1. CASE i = m
      BY <2>4, <3>1
    <3>2. CASE i = 0
      BY <2>2, <2>3, <3>2
    <3>3. CASE i # m /\ i # 0
      <4>1. i \in 0..(m - 1) /\ i - 1 \in 0..(m - 1)
        BY <3>3
      <4> QED
        BY <2>2, <2>3, <3>3, <4>1
    <3> QED
      BY <3>1, <3>2, <3>3
  <2>6. ReadsSections(read, text, m)
    BY <2>5 DEF ReadsSections
  <2> QED
    BY <2>6
<1> HIDE DEF Good
<1>3. n \in Good
  BY <1>1, <1>2, Throughout
<1> QED
  BY <1>3 DEF Good

LEMMA SectionsReadIs ==
  ASSUME NEW text \in Seq(Lines), NEW read, read = SectionsRead(text)
  PROVE  /\ read[0] = NothingFound
         /\ \A i \in DOMAIN text : read[i] = ReadForSections(read[i - 1], text[i])
         /\ Sections(text) = read[Len(text)].found
<1>0. Len(text) \in Nat
  OBVIOUS
<1>1. PICK some : ReadsSections(some, text, Len(text))
  BY <1>0, SectionsReadable
<1>2. ReadsSections(read, text, Len(text))
  BY <1>1 DEF ReadsSections, SectionsRead, NothingFound
<1>3. \A i \in 0..Len(text) :
        read[i] = IF i = 0 THEN NothingFound ELSE ReadForSections(read[i - 1], text[i])
  BY <1>2 DEF ReadsSections
<1> QED
  BY <1>3 DEF Sections

(* The line a slug is found at: a heading, or prose right below a bare one. *)
HeadedAt(text, slug, i) ==
  \/ text[i] = Heading(slug)
  \/ /\ text[i] = Prose(slug)
     /\ \E j \in 1..(i - 1) : /\ text[j] = BareHeading
                              /\ \A k \in (j + 1)..(i - 1) : text[k] = Blank

(* A heading is open while only blank lines follow a bare one. *)
OpenAt(text, i) ==
  \E j \in 1..i : /\ text[j] = BareHeading
                  /\ \A k \in (j + 1)..i : text[k] = Blank

LEMMA OpenMeans ==
  ASSUME NEW text \in Seq(Lines), NEW read, read = SectionsRead(text)
  PROVE  \A i \in 0..Len(text) : read[i].open => OpenAt(text, i)
<1> DEFINE Good == {i \in 0..Len(text) : read[i].open => OpenAt(text, i)}
<1>1. 0 \in Good
  BY SectionsReadIs DEF NothingFound
<1>2. ASSUME NEW i \in 1..Len(text), i - 1 \in Good PROVE i \in Good
  <2>1. text[i] \in Lines /\ i \in DOMAIN text
    OBVIOUS
  <2>2. read[i] = ReadForSections(read[i - 1], text[i])
    BY <2>1, SectionsReadIs
  <2>3. CASE text[i].kind = "blank"
    <3>1. text[i] = Blank /\ read[i] = read[i - 1]
      BY <2>1, <2>2, <2>3, LineIs DEF ReadForSections
    <3>2. OpenAt(text, i - 1) => OpenAt(text, i)
      BY <3>1 DEF OpenAt
    <3> QED
      BY <1>2, <3>1, <3>2
  <2>4. CASE text[i].kind # "blank"
    <3>1. read[i].open = (text[i].kind = "bare" /\ ~read[i - 1].open)
      BY <2>2, <2>4 DEF ReadForSections
    <3>2. read[i].open => text[i] = BareHeading
      BY <2>1, <3>1, LineIs
    <3>3. text[i] = BareHeading => OpenAt(text, i)
      BY DEF OpenAt
    <3> QED
      BY <3>2, <3>3
  <2> QED
    BY <2>3, <2>4
<1> HIDE DEF Good
<1>3. \A i \in 0..Len(text) : i \in Good
  <2>1. Len(text) \in Nat
    OBVIOUS
  <2> QED
    BY <1>1, <1>2, <2>1, Throughout
<1> QED
  BY <1>3 DEF Good

(* Every section found is headed: its slug stands in a heading, or alone   *)
(* below an empty one (parse_markdown_sections).                           *)
THEOREM SectionsAreHeaded ==
  ASSUME NEW text \in Seq(Lines), NEW slug \in Sections(text)
  PROVE  Headed(text, slug)
<1>1. PICK read : read = SectionsRead(text)
  OBVIOUS
<1> DEFINE Good == {i \in 0..Len(text) :
                      slug \in read[i].found => \E j \in 1..i : HeadedAt(text, slug, j)}
<1>2. 0 \in Good
  BY <1>1, SectionsReadIs DEF NothingFound
<1>3. ASSUME NEW i \in 1..Len(text), i - 1 \in Good PROVE i \in Good
  <2>1. text[i] \in Lines /\ i \in DOMAIN text
    OBVIOUS
  <2>2. read[i] = ReadForSections(read[i - 1], text[i])
    BY <1>1, <2>1, SectionsReadIs
  <2>3. CASE slug \in read[i - 1].found
    BY <1>3, <2>3
  <2>4. CASE slug \in read[i].found /\ slug \notin read[i - 1].found
    <3>1. /\ slug = text[i].slug
          /\ \/ text[i].kind = "heading"
             \/ text[i].kind = "prose" /\ read[i - 1].open
      BY <2>2, <2>4 DEF ReadForSections
    <3>2. CASE text[i].kind = "heading"
      BY <2>1, <3>1, <3>2, LineIs DEF HeadedAt, Heading
    <3>3. CASE text[i].kind = "prose" /\ read[i - 1].open
      <4>1. OpenAt(text, i - 1)
        BY <1>1, <3>3, OpenMeans
      <4> QED
        BY <2>1, <3>1, <3>3, <4>1, LineIs DEF HeadedAt, OpenAt, Prose
    <3> QED
      BY <3>1, <3>2, <3>3
  <2> QED
    BY <2>3, <2>4
<1> HIDE DEF Good
<1>4. Len(text) \in Good
  <2>1. Len(text) \in Nat
    OBVIOUS
  <2>2. \A k \in 0..Len(text) : k \in Good
    BY <1>2, <1>3, <2>1, Throughout
  <2> QED
    BY <2>1, <2>2
<1>5. \E j \in 1..Len(text) : HeadedAt(text, slug, j)
  BY <1>1, <1>4, SectionsReadIs DEF Good
<1> QED
  BY <1>5 DEF HeadedAt, Headed

(* What is found stays found. *)
LEMMA FoundStays ==
  ASSUME NEW text \in Seq(Lines), NEW read, read = SectionsRead(text),
         NEW i \in 0..Len(text), NEW slug \in read[i].found
  PROVE  slug \in Sections(text)
<1> DEFINE Good == {k \in 0..Len(text) : k >= i => slug \in read[k].found}
<1>1. 0 \in Good
  OBVIOUS
<1>2. ASSUME NEW k \in 1..Len(text), k - 1 \in Good PROVE k \in Good
  <2>1. CASE k <= i
    BY <2>1
  <2>2. CASE k > i
    <3>1. read[k] = ReadForSections(read[k - 1], text[k])
      BY SectionsReadIs
    <3>2. slug \in read[k - 1].found
      BY <1>2, <2>2
    <3> QED
      BY <3>1, <3>2 DEF ReadForSections
  <2> QED
    BY <2>1, <2>2
<1> HIDE DEF Good
<1>3. Len(text) \in Good
  <2>1. Len(text) \in Nat
    OBVIOUS
  <2>2. \A k \in 0..Len(text) : k \in Good
    BY <1>1, <1>2, <2>1, Throughout
  <2> QED
    BY <2>1, <2>2
<1> QED
  BY <1>3, SectionsReadIs DEF Good

(* A heading with no open one before it names a section. *)
LEMMA HeadingFound ==
  ASSUME NEW text \in Seq(Lines), NEW read, read = SectionsRead(text),
         NEW i \in DOMAIN text, NEW slug, text[i] = Heading(slug), ~read[i - 1].open
  PROVE  slug \in Sections(text)
<1>1. read[i] = ReadForSections(read[i - 1], text[i])
  BY SectionsReadIs
<1>2. slug \in read[i].found
  BY <1>1, KindsDiffer DEF ReadForSections
<1> QED
  BY <1>2, FoundStays

(* Where no heading is bare, every heading names one. *)
LEMMA HeadingsFound ==
  ASSUME NEW text \in Seq(Lines), \A i \in DOMAIN text : text[i].kind # "bare",
         NEW i \in DOMAIN text, NEW slug, text[i] = Heading(slug)
  PROVE  slug \in Sections(text)
<1>1. PICK read : read = SectionsRead(text)
  OBVIOUS
<1>2. ~read[i - 1].open
  BY <1>1, OpenMeans, KindsDiffer DEF OpenAt
<1> QED
  BY <1>1, <1>2, HeadingFound

(* So does one below a blank line and one that is neither blank nor bare.  *)
LEMMA SpacedHeadingFound ==
  ASSUME NEW text \in Seq(Lines), NEW i \in DOMAIN text, NEW slug, text[i] = Heading(slug),
         i > 2, text[i - 1] = Blank, text[i - 2].kind \notin {"bare", "blank"}
  PROVE  slug \in Sections(text)
<1>1. PICK read : read = SectionsRead(text)
  OBVIOUS
<1>2. ~OpenAt(text, i - 1)
  <2>1. ASSUME NEW j \in 1..(i - 1), text[j] = BareHeading,
               \A k \in (j + 1)..(i - 1) : text[k] = Blank
        PROVE  FALSE
    <3>1. j # i - 1 /\ j # i - 2
      BY <2>1, KindsDiffer
    <3>2. i - 2 \in (j + 1)..(i - 1)
      BY <3>1
    <3> QED
      BY <2>1, <3>2, KindsDiffer
  <2> QED
    BY <2>1 DEF OpenAt
<1>3. ~read[i - 1].open
  BY <1>1, <1>2, OpenMeans
<1> QED
  BY <1>1, <1>3, HeadingFound

-----------------------------------------------------------------------------
(* The parser of sources.                                                  *)

NothingCounted == [count |-> 0, inside |-> FALSE]

(* A reading of n lines by the rule of parse_markdown_sources. *)
ReadsSources(read, text, n) ==
  read = [i \in 0..n |-> IF i = 0 THEN NothingCounted
                         ELSE ReadForSources(read[i - 1], text[i])]

LEMMA SourcesReadable ==
  ASSUME NEW text, NEW n \in Nat
  PROVE  \E read : ReadsSources(read, text, n)
<1> DEFINE Good == {i \in Nat : \E read : ReadsSources(read, text, i)}
<1>1. 0 \in Good
  <2>1. ReadsSources([i \in 0..0 |-> NothingCounted], text, 0)
    BY DEF ReadsSources
  <2> QED
    BY <2>1
<1>2. ASSUME NEW m \in 1..n, m - 1 \in Good PROVE m \in Good
  <2>1. PICK part : ReadsSources(part, text, m - 1)
    BY <1>2
  <2> DEFINE read == [i \in 0..m |-> IF i < m THEN part[i]
                                     ELSE ReadForSources(part[m - 1], text[m])]
  <2>2. \A i \in 0..(m - 1) : part[i] = IF i = 0 THEN NothingCounted
                                        ELSE ReadForSources(part[i - 1], text[i])
    BY <2>1 DEF ReadsSources
  <2>3. \A i \in 0..(m - 1) : read[i] = part[i]
    OBVIOUS
  <2>4. read[m] = ReadForSources(read[m - 1], text[m]) /\ m # 0
    OBVIOUS
  <2>5. \A i \in 0..m : read[i] = IF i = 0 THEN NothingCounted
                                  ELSE ReadForSources(read[i - 1], text[i])
    <3> HIDE DEF read
    <3> TAKE i \in 0..m
    <3>1. CASE i = m
      BY <2>4, <3>1
    <3>2. CASE i = 0
      BY <2>2, <2>3, <3>2
    <3>3. CASE i # m /\ i # 0
      <4>1. i \in 0..(m - 1) /\ i - 1 \in 0..(m - 1)
        BY <3>3
      <4> QED
        BY <2>2, <2>3, <3>3, <4>1
    <3> QED
      BY <3>1, <3>2, <3>3
  <2>6. ReadsSources(read, text, m)
    BY <2>5 DEF ReadsSources
  <2> QED
    BY <2>6
<1> HIDE DEF Good
<1>3. n \in Good
  BY <1>1, <1>2, Throughout
<1> QED
  BY <1>3 DEF Good

LEMMA SourcesReadIs ==
  ASSUME NEW text \in Seq(Lines), NEW read, read = SourcesRead(text)
  PROVE  /\ read[0] = NothingCounted
         /\ \A i \in DOMAIN text : read[i] = ReadForSources(read[i - 1], text[i])
         /\ Sources(text) = read[Len(text)].count
<1>0. Len(text) \in Nat
  OBVIOUS
<1>1. PICK some : ReadsSources(some, text, Len(text))
  BY <1>0, SourcesReadable
<1>2. ReadsSources(read, text, Len(text))
  BY <1>1 DEF ReadsSources, SourcesRead, NothingCounted
<1>3. \A i \in 0..Len(text) :
        read[i] = IF i = 0 THEN NothingCounted ELSE ReadForSources(read[i - 1], text[i])
  BY <1>2 DEF ReadsSources
<1> QED
  BY <1>3 DEF Sources

(* Line i is below the heading of the sources, and no other in between. *)
InsideAt(text, i) ==
  \E j \in 1..i : /\ text[j] = Heading("sources")
                  /\ \A k \in (j + 1)..i : text[k].kind # "heading"

(* An item is listed there. *)
ListedBy(text, i) == \E j \in 1..i : text[j] = Item /\ InsideAt(text, j - 1)

(* One line of the reading. *)
ReadsOn(acc, line, next) ==
  /\ next \in [count : Nat, inside : BOOLEAN]
  /\ next.inside <=> \/ line = Heading("sources")
                     \/ line.kind # "heading" /\ acc.inside
  /\ next.count = IF line = Item /\ acc.inside THEN acc.count + 1 ELSE acc.count

LEMMA SourcesStep ==
  ASSUME NEW acc \in [count : Nat, inside : BOOLEAN], NEW line \in Lines
  PROVE  ReadsOn(acc, line, ReadForSources(acc, line))
<1> SUFFICES ASSUME NEW next, next = ReadForSources(acc, line)
             PROVE  ReadsOn(acc, line, next)
  OBVIOUS
<1>0. acc.count \in Nat /\ acc.inside \in BOOLEAN
  OBVIOUS
<1>1. CASE line.kind = "heading"
  <2>1. next = [acc EXCEPT !.inside = line.slug = "sources"]
    BY <1>1 DEF ReadForSources
  <2>2. /\ next \in [count : Nat, inside : BOOLEAN]
        /\ next.count = acc.count
        /\ next.inside = (line.slug = "sources")
    BY <2>1
  <2>3. line = Heading("sources") <=> line.slug = "sources"
    BY <1>1, LineIs, KindsDiffer
  <2>4. line # Item
    BY <1>1, KindsDiffer
  <2>5. next.inside <=> \/ line = Heading("sources")
                        \/ line.kind # "heading" /\ acc.inside
    BY <1>1, <2>2, <2>3, Zenon
  <2> QED
    BY <2>2, <2>4, <2>5 DEF ReadsOn
<1>2. CASE line.kind # "heading"
  <2>1. line # Heading("sources") /\ (line = Item <=> line.kind = "item")
    BY <1>2, LineIs, KindsDiffer
  <2>2. /\ next \in [count : Nat, inside : BOOLEAN]
        /\ next.count = IF line = Item /\ acc.inside THEN acc.count + 1 ELSE acc.count
        /\ next.inside = acc.inside
    <3>1. CASE line = Item /\ acc.inside
      <4>1. next = [acc EXCEPT !.count = acc.count + 1]
        BY <1>2, <2>1, <3>1 DEF ReadForSources
      <4>2. next.count = acc.count + 1 /\ next.inside = acc.inside
        BY <4>1
      <4>3. next \in [count : Nat, inside : BOOLEAN]
        BY <1>0, <4>1
      <4> QED
        BY <3>1, <4>2, <4>3
    <3>2. CASE ~(line = Item /\ acc.inside)
      <4>1. next = acc
        BY <1>2, <2>1, <3>2 DEF ReadForSources
      <4> QED
        BY <3>2, <4>1
    <3> QED
      BY <3>1, <3>2
  <2>3. next.inside <=> \/ line = Heading("sources")
                        \/ line.kind # "heading" /\ acc.inside
    BY <1>2, <2>1, <2>2, Zenon
  <2> QED
    BY <2>2, <2>3 DEF ReadsOn
<1> QED
  BY <1>1, <1>2

(* The parser is inside where the list is, and counts what is listed. *)
LEMMA SourcesMean ==
  ASSUME NEW text \in Seq(Lines), NEW read, read = SourcesRead(text)
  PROVE  \A i \in 0..Len(text) :
           /\ read[i] \in [count : Nat, inside : BOOLEAN]
           /\ read[i].inside <=> InsideAt(text, i)
           /\ read[i].count > 0 <=> ListedBy(text, i)
<1> DEFINE Good == {i \in 0..Len(text) :
                      /\ read[i] \in [count : Nat, inside : BOOLEAN]
                      /\ read[i].inside <=> InsideAt(text, i)
                      /\ read[i].count > 0 <=> ListedBy(text, i)}
<1>1. 0 \in Good
  <2>1. read[0] = NothingCounted
    BY SourcesReadIs
  <2>2. /\ NothingCounted \in [count : Nat, inside : BOOLEAN]
        /\ ~NothingCounted.inside /\ ~(NothingCounted.count > 0)
    BY DEF NothingCounted
  <2>3. ~InsideAt(text, 0) /\ ~ListedBy(text, 0) /\ 0 \in 0..Len(text)
    BY DEF InsideAt, ListedBy
  <2> QED
    BY <2>1, <2>2, <2>3
<1>2. ASSUME NEW i \in 1..Len(text), i - 1 \in Good PROVE i \in Good
  <2>1. /\ text[i] \in Lines
        /\ read[i - 1] \in [count : Nat, inside : BOOLEAN]
        /\ read[i] = ReadForSources(read[i - 1], text[i])
    BY <1>2, SourcesReadIs
  <2>2. ReadsOn(read[i - 1], text[i], read[i])
    BY <2>1, SourcesStep
  <2>3. InsideAt(text, i) <=> \/ text[i] = Heading("sources")
                              \/ text[i].kind # "heading" /\ InsideAt(text, i - 1)
    BY DEF InsideAt
  <2>4. ListedBy(text, i) <=> \/ text[i] = Item /\ InsideAt(text, i - 1)
                              \/ ListedBy(text, i - 1)
    BY DEF ListedBy
  <2>5. /\ read[i - 1].inside <=> InsideAt(text, i - 1)
        /\ read[i - 1].count > 0 <=> ListedBy(text, i - 1)
        /\ read[i - 1].count \in Nat
    BY <1>2, <2>1
  <2> QED
    BY <2>2, <2>3, <2>4, <2>5 DEF ReadsOn
<1> HIDE DEF Good
<1>3. \A i \in 0..Len(text) : i \in Good
  <2>1. Len(text) \in Nat
    OBVIOUS
  <2> QED
    BY <1>1, <1>2, <2>1, Throughout
<1> QED
  BY <1>3 DEF Good

(* Sources are counted exactly when one is listed below their heading with *)
(* no other heading between (parse_markdown_sources).                      *)
THEOREM CountedIffSourced ==
  ASSUME NEW text \in Seq(Lines)
  PROVE  Sources(text) > 0 <=> Sourced(text)
<1>1. PICK read : read = SourcesRead(text)
  OBVIOUS
<1>2. Len(text) \in 0..Len(text)
  OBVIOUS
<1>3. Sources(text) > 0 <=> ListedBy(text, Len(text))
  BY <1>1, <1>2, SourcesReadIs, SourcesMean
<1>4. ASSUME ListedBy(text, Len(text)) PROVE Sourced(text)
  <2>1. PICK j \in 1..Len(text) : text[j] = Item /\ InsideAt(text, j - 1)
    BY <1>4 DEF ListedBy
  <2>2. PICK i \in 1..(j - 1) : /\ text[i] = Heading("sources")
                                /\ \A k \in (i + 1)..(j - 1) : text[k].kind # "heading"
    BY <2>1 DEF InsideAt
  <2>3. i \in DOMAIN text /\ j \in DOMAIN text /\ i < j
    BY <2>1, <2>2
  <2> QED
    BY <2>1, <2>2, <2>3 DEF Sourced
<1>5. ASSUME Sourced(text) PROVE ListedBy(text, Len(text))
  <2>1. PICK i \in DOMAIN text, j \in DOMAIN text :
          /\ text[i] = Heading("sources") /\ text[j] = Item /\ i < j
          /\ \A k \in (i + 1)..(j - 1) : text[k].kind # "heading"
    BY <1>5 DEF Sourced
  <2>2. i \in 1..(j - 1) /\ j \in 1..Len(text)
    BY <2>1
  <2>3. InsideAt(text, j - 1)
    BY <2>1, <2>2 DEF InsideAt
  <2> QED
    BY <2>1, <2>2, <2>3 DEF ListedBy
<1> QED
  BY <1>3, <1>4, <1>5

-----------------------------------------------------------------------------
(* str.strip and strip_code_fence.                                         *)

(* What strip leaves: the lines from a to b, the first and the last that   *)
(* are not blank.                                                          *)
Stripped(text, a, b) ==
  /\ a \in DOMAIN text /\ b \in a..Len(text)
  /\ text[a].kind # "blank" /\ text[b].kind # "blank"
  /\ \A i \in DOMAIN text : text[i].kind # "blank" => i \in a..b
  /\ Strip(text) = SubSeq(text, a, b)

LEMMA StripIs ==
  ASSUME NEW text \in Seq(Lines)
  PROVE  \/ Strip(text) = <<>> /\ \A i \in DOMAIN text : text[i].kind = "blank"
         \/ \E a, b : Stripped(text, a, b)
<1> DEFINE written == {i \in DOMAIN text : text[i].kind # "blank"}
           first == CHOOSE i \in written : \A j \in written : i <= j
           last == CHOOSE i \in written : \A j \in written : j <= i
<1>1. CASE written = {}
  BY <1>1 DEF Strip
<1>2. CASE written # {}
  <2>1. Len(text) \in Nat /\ written \in SUBSET Nat /\ written \in SUBSET (0..Len(text))
    OBVIOUS
  <2>2. Strip(text) = SubSeq(text, first, last)
    BY <1>2 DEF Strip
  <2> HIDE DEF written
  <2>3. \E i \in written : \A j \in written : i <= j
    BY <1>2, <2>1, Smallest
  <2>4. \E i \in written : \A j \in written : j <= i
    BY <1>2, <2>1, Largest
  <2>5. first \in written /\ \A j \in written : first <= j
    BY <2>3
  <2>6. last \in written /\ \A j \in written : j <= last
    BY <2>4
  <2> HIDE DEF first, last
  <2>7. Stripped(text, first, last)
    BY <2>1, <2>2, <2>5, <2>6 DEF written, Stripped
  <2> QED
    BY <2>7
<1> QED
  BY <1>1, <1>2

(* Its lines are those of the text, a - 1 places earlier. *)
LEMMA StrippedLines ==
  ASSUME NEW text \in Seq(Lines), NEW a, NEW b, Stripped(text, a, b)
  PROVE  /\ Strip(text) \in Seq(Lines)
         /\ Len(Strip(text)) = b - a + 1
         /\ \A i \in 1..(b - a + 1) : Strip(text)[i] = text[i + a - 1]
         /\ \A i \in a..b : Strip(text)[i - a + 1] = text[i]
<1>1. a \in 1..Len(text) /\ b \in a..Len(text) /\ Len(text) \in Nat
  BY DEF Stripped
<1>2. SubSeq(text, a, b) = [i \in 1..(b - a + 1) |-> text[i + a - 1]]
  BY <1>1
<1>3. \A i \in 1..(b - a + 1) : text[i + a - 1] \in Lines
  BY <1>1
<1>4. b - a + 1 \in Nat
  BY <1>1
<1>5. Strip(text) = [i \in 1..(b - a + 1) |-> text[i + a - 1]]
  BY <1>2 DEF Stripped
<1>6. Strip(text) \in Seq(Lines) /\ Len(Strip(text)) = b - a + 1
  BY <1>3, <1>4, <1>5
<1>7. \A i \in a..b : i - a + 1 \in 1..(b - a + 1) /\ (i - a + 1) + a - 1 = i
  BY <1>1
<1>8. \A i \in a..b : Strip(text)[i - a + 1] = text[i]
  <2> TAKE i \in a..b
  <2>1. PICK j \in 1..(b - a + 1) : j = i - a + 1 /\ j + a - 1 = i
    BY <1>7
  <2> QED
    BY <1>5, <2>1
<1> QED
  BY <1>5, <1>6, <1>8

(* A stripped text has no lines a text did not have, and misses only blank *)
(* ones.                                                                   *)
LEMMA StripKeeps ==
  ASSUME NEW text \in Seq(Lines)
  PROVE  /\ Strip(text) \in Seq(Lines)
         /\ \A i \in DOMAIN Strip(text) : \E j \in DOMAIN text : text[j] = Strip(text)[i]
         /\ \A j \in DOMAIN text : text[j].kind # "blank" =>
              \E i \in DOMAIN Strip(text) : Strip(text)[i] = text[j]
<1>1. CASE Strip(text) = <<>> /\ \A i \in DOMAIN text : text[i].kind = "blank"
  BY <1>1
<1>2. ASSUME NEW a, NEW b, Stripped(text, a, b)
      PROVE  /\ Strip(text) \in Seq(Lines)
             /\ \A i \in DOMAIN Strip(text) : \E j \in DOMAIN text : text[j] = Strip(text)[i]
             /\ \A j \in DOMAIN text : text[j].kind # "blank" =>
                  \E i \in DOMAIN Strip(text) : Strip(text)[i] = text[j]
  <2>1. /\ Strip(text) \in Seq(Lines)
        /\ Len(Strip(text)) = b - a + 1
        /\ \A i \in 1..(b - a + 1) : Strip(text)[i] = text[i + a - 1]
        /\ \A i \in a..b : Strip(text)[i - a + 1] = text[i]
    BY <1>2, StrippedLines
  <2>2. a \in 1..Len(text) /\ b \in a..Len(text) /\ Len(text) \in Nat
    BY <1>2 DEF Stripped
  <2>3. ASSUME NEW i \in DOMAIN Strip(text)
        PROVE  \E j \in DOMAIN text : text[j] = Strip(text)[i]
    <3>1. i \in 1..(b - a + 1)
      BY <2>1
    <3>2. i + a - 1 \in DOMAIN text
      BY <2>2, <3>1
    <3> QED
      BY <2>1, <3>1, <3>2
  <2>4. ASSUME NEW j \in DOMAIN text, text[j].kind # "blank"
        PROVE  \E i \in DOMAIN Strip(text) : Strip(text)[i] = text[j]
    <3>1. j \in a..b
      BY <1>2, <2>4 DEF Stripped
    <3>2. j - a + 1 \in DOMAIN Strip(text)
      BY <2>1, <2>2, <3>1
    <3> QED
      BY <2>1, <3>1, <3>2
  <2> QED
    BY <2>1, <2>3, <2>4
<1> QED
  BY <1>1, <1>2, StripIs

(* It lists its sources if the text does. *)
LEMMA StripSourced ==
  ASSUME NEW text \in Seq(Lines)
  PROVE  Sourced(Strip(text)) <=> Sourced(text)
<1>1. CASE Strip(text) = <<>> /\ \A i \in DOMAIN text : text[i].kind = "blank"
  BY <1>1, KindsDiffer DEF Sourced
<1>2. ASSUME NEW a, NEW b, Stripped(text, a, b)
      PROVE  Sourced(Strip(text)) <=> Sourced(text)
  <2>1. /\ DOMAIN Strip(text) = 1..(b - a + 1)
        /\ \A i \in 1..(b - a + 1) : Strip(text)[i] = text[i + a - 1]
        /\ \A i \in a..b : Strip(text)[i - a + 1] = text[i]
    <3>1. Strip(text) \in Seq(Lines) /\ Len(Strip(text)) = b - a + 1
      BY <1>2, StrippedLines
    <3> QED
      BY <1>2, <3>1, StrippedLines
  <2>2. a \in 1..Len(text) /\ b \in a..Len(text) /\ DOMAIN text = 1..Len(text) /\ Len(text) \in Nat
    BY <1>2 DEF Stripped
  <2>3. ASSUME NEW i \in DOMAIN text, NEW j \in DOMAIN text,
               text[i] = Heading("sources"), text[j] = Item, i < j,
               \A k \in (i + 1)..(j - 1) : text[k].kind # "heading"
        PROVE  Sourced(Strip(text))
    <3>1. i \in a..b /\ j \in a..b
      BY <1>2, <2>3, KindsDiffer DEF Stripped
    <3>2. PICK m, n : m = i - a + 1 /\ n = j - a + 1
      OBVIOUS
    <3>3. m \in 1..(b - a + 1) /\ n \in 1..(b - a + 1) /\ m < n
      BY <2>2, <2>3, <3>1, <3>2
    <3>4. Strip(text)[m] = Heading("sources") /\ Strip(text)[n] = Item
      BY <2>1, <2>3, <3>1, <3>2
    <3>5. \A k \in (m + 1)..(n - 1) : Strip(text)[k].kind # "heading"
      <4> TAKE k \in (m + 1)..(n - 1)
      <4>1. k \in 1..(b - a + 1) /\ k + a - 1 \in (i + 1)..(j - 1)
        BY <2>2, <3>1, <3>2, <3>3
      <4>2. Strip(text)[k] = text[k + a - 1]
        BY <2>1, <4>1
      <4>3. text[k + a - 1].kind # "heading"
        BY <2>3, <4>1
      <4> QED
        BY <4>2, <4>3
    <3> QED
      BY <2>1, <3>3, <3>4, <3>5 DEF Sourced
  <2>4. ASSUME NEW i \in DOMAIN Strip(text), NEW j \in DOMAIN Strip(text),
               Strip(text)[i] = Heading("sources"), Strip(text)[j] = Item, i < j,
               \A k \in (i + 1)..(j - 1) : Strip(text)[k].kind # "heading"
        PROVE  Sourced(text)
    <3>1. PICK m, n : m = i + a - 1 /\ n = j + a - 1
      OBVIOUS
    <3>2. m \in DOMAIN text /\ n \in DOMAIN text /\ m < n
      BY <2>1, <2>2, <2>4, <3>1
    <3>3. text[m] = Heading("sources") /\ text[n] = Item
      BY <2>1, <2>4, <3>1
    <3>4. \A k \in (m + 1)..(n - 1) : text[k].kind # "heading"
      <4> TAKE k \in (m + 1)..(n - 1)
      <4>0. i \in 1..(b - a + 1) /\ j \in 1..(b - a + 1)
        BY <2>1
      <4>1. k \in a..b /\ k - a + 1 \in (i + 1)..(j - 1)
        BY <2>2, <3>1, <4>0
      <4>2. Strip(text)[k - a + 1] = text[k]
        BY <2>1, <4>1
      <4>3. Strip(text)[k - a + 1].kind # "heading"
        BY <2>4, <4>1
      <4> QED
        BY <4>2, <4>3
    <3> QED
      BY <3>2, <3>3, <3>4 DEF Sourced
  <2> QED
    BY <2>3, <2>4 DEF Sourced
<1> QED
  BY <1>1, <1>2, StripIs

-----------------------------------------------------------------------------
(* The gate.                                                               *)

(* What the gate reads of an artifact whose text was stripped, and of the  *)
(* metadata parsed out of it before.                                       *)
GatePasses(text, required) ==
  ValidateArtifact(File(Strip(text)), File(Meta(text)), required)

LEMMA GateReads ==
  ASSUME NEW text, NEW required
  PROVE  GatePasses(text, required) <=>
           /\ required \subseteq Sections(text)
           /\ required \subseteq Sections(Strip(text))
           /\ Sources(text) > 0
           /\ ~ContainsSecretMaterial(Strip(text))
  BY DEF GatePasses, ValidateArtifact, File, Contents, Absent, Meta

(* What passes has the form a stage asks for (validate_artifact).          *)
THEOREM PassedHasForm ==
  ASSUME NEW text \in Seq(Lines), NEW required, GatePasses(text, required)
  PROVE  HasForm(Strip(text), required)
<1>1. Strip(text) \in Seq(Lines)
  BY StripKeeps
<1>2. \A slug \in required : Headed(Strip(text), slug)
  BY <1>1, GateReads, SectionsAreHeaded
<1>3. Sourced(Strip(text))
  BY GateReads, CountedIffSourced, StripSourced
<1>4. \A i \in DOMAIN Strip(text) : Strip(text)[i] # Credential
  BY GateReads, KindsDiffer DEF ContainsSecretMaterial
<1> QED
  BY <1>2, <1>3, <1>4 DEF HasForm

(* Stripping a text leaves it as its brief asked for. *)
LEMMA StripKeepsToBrief ==
  ASSUME NEW text \in Seq(Lines), NEW required, KeepsToBrief(text, required)
  PROVE  KeepsToBrief(Strip(text), required)
<1>1. \A slug \in required : \E i \in DOMAIN Strip(text) : Strip(text)[i] = Heading(slug)
  <2> TAKE slug \in required
  <2>1. PICK j \in DOMAIN text : text[j] = Heading(slug)
    BY DEF KeepsToBrief
  <2>2. text[j].kind # "blank"
    BY <2>1, KindsDiffer
  <2> QED
    BY <2>1, <2>2, StripKeeps
<1>2. Sourced(Strip(text))
  BY StripSourced DEF KeepsToBrief
<1>3. \A i \in DOMAIN Strip(text) : Strip(text)[i].kind \notin {"bare", "fence", "credential"}
  <2> TAKE i \in DOMAIN Strip(text)
  <2>1. PICK j \in DOMAIN text : text[j] = Strip(text)[i]
    BY StripKeeps
  <2> QED
    BY <2>1 DEF KeepsToBrief
<1> QED
  BY <1>1, <1>2, <1>3 DEF KeepsToBrief

(* Such a text has its sections and its sources. *)
LEMMA BriefIsRead ==
  ASSUME NEW text \in Seq(Lines), NEW required, KeepsToBrief(text, required)
  PROVE  /\ required \subseteq Sections(text)
         /\ Sources(text) > 0
         /\ ~ContainsSecretMaterial(text)
<1>1. \A i \in DOMAIN text : text[i].kind # "bare"
  BY DEF KeepsToBrief
<1>2. \A slug \in required : slug \in Sections(text)
  BY <1>1, HeadingsFound DEF KeepsToBrief
<1>3. Sources(text) > 0
  BY CountedIffSourced DEF KeepsToBrief
<1> QED
  BY <1>2, <1>3 DEF KeepsToBrief, ContainsSecretMaterial

LEMMA BriefPasses ==
  ASSUME NEW text \in Seq(Lines), NEW required, KeepsToBrief(text, required)
  PROVE  GatePasses(text, required)
<1>1. Strip(text) \in Seq(Lines) /\ KeepsToBrief(Strip(text), required)
  BY StripKeeps, StripKeepsToBrief
<1> QED
  BY <1>1, BriefIsRead, GateReads

(* A text in a fence begins and ends with it, so that nothing is stripped. *)
LEMMA FencedIsStripped ==
  ASSUME NEW text \in Seq(Lines), Len(text) >= 2, text[1] = Fence, text[Len(text)] = Fence
  PROVE  Strip(text) = text
<1>1. 1 \in DOMAIN text /\ Len(text) \in DOMAIN text /\ Len(text) \in Nat
      /\ text[1].kind # "blank" /\ text[Len(text)].kind # "blank"
  BY KindsDiffer
<1>2. PICK a, b : Stripped(text, a, b)
  BY <1>1, StripIs
<1>3. a = 1 /\ b = Len(text)
  BY <1>1, <1>2 DEF Stripped
<1> QED
  BY <1>2, <1>3 DEF Stripped

(* A worker that follows its brief, in a fence or not, passes with what    *)
(* is left of its answer.                                                  *)
LEMMA FollowedPasses ==
  ASSUME NEW answer \in Seq(Lines), NEW required, FollowsBrief(answer, required)
  PROVE  GatePasses(StripCodeFence(answer), required)
<1>1. CASE KeepsToBrief(answer, required)
  <2>1. Strip(answer) \in Seq(Lines) /\ KeepsToBrief(Strip(answer), required)
    BY <1>1, StripKeeps, StripKeepsToBrief
  <2>2. Len(Strip(answer)) >= 2 => Strip(answer)[1] # Fence
    <3>1. Len(Strip(answer)) >= 2 => 1 \in DOMAIN Strip(answer)
      BY <2>1
    <3> QED
      BY <2>1, <3>1, KindsDiffer DEF KeepsToBrief
  <2>3. StripCodeFence(answer) = Strip(answer)
    BY <2>2 DEF StripCodeFence
  <2> QED
    BY <2>1, <2>3, BriefPasses
<1>2. CASE /\ Len(answer) >= 2 /\ answer[1] = Fence /\ answer[Len(answer)] = Fence
           /\ KeepsToBrief(SubSeq(answer, 2, Len(answer) - 1), required)
  <2> DEFINE inner == SubSeq(answer, 2, Len(answer) - 1)
  <2>1. inner \in Seq(Lines)
    OBVIOUS
  <2>2. StripCodeFence(answer) = Strip(inner)
    BY <1>2, FencedIsStripped DEF StripCodeFence
  <2>3. Strip(inner) \in Seq(Lines) /\ KeepsToBrief(Strip(inner), required)
    BY <1>2, <2>1, StripKeeps, StripKeepsToBrief
  <2> QED
    BY <2>2, <2>3, BriefPasses
<1> QED
  BY <1>1, <1>2 DEF FollowsBrief

(* Without blank lines at its head a text is stripped at its end only.     *)
LEMMA StripAtEnd ==
  ASSUME NEW text \in Seq(Lines), text # <<>>, text[1].kind # "blank"
  PROVE  \A i \in DOMAIN text : text[i].kind # "blank" =>
           /\ i \in DOMAIN Strip(text)
           /\ \A j \in 1..i : Strip(text)[j] = text[j]
<1>1. 1 \in DOMAIN text /\ Len(text) \in Nat
  OBVIOUS
<1>2. PICK a, b : Stripped(text, a, b)
  BY <1>1, StripIs
<1>3. a = 1
  BY <1>1, <1>2 DEF Stripped
<1>4. /\ Strip(text) \in Seq(Lines)
      /\ Len(Strip(text)) = b - a + 1
      /\ \A i \in 1..(b - a + 1) : Strip(text)[i] = text[i + a - 1]
      /\ \A i \in a..b : Strip(text)[i - a + 1] = text[i]
  BY <1>2, StrippedLines
<1>5. b \in Nat /\ DOMAIN Strip(text) = 1..b /\ \A i \in 1..b : Strip(text)[i] = text[i]
  <2>1. b \in Nat
    BY <1>2 DEF Stripped
  <2>2. b - a + 1 = b /\ \A i \in 1..b : i - a + 1 = i
    BY <1>3, <2>1
  <2> QED
    BY <1>3, <1>4, <2>1, <2>2
<1>6. ASSUME NEW i \in DOMAIN text, text[i].kind # "blank"
      PROVE  i \in 1..b
  BY <1>2, <1>3, <1>6 DEF Stripped
<1> QED
  BY <1>5, <1>6

(* What a worker of the house writes: spaced headings, and an item among   *)
(* the sources.                                                            *)
SpacedHeading(text, slug, i) ==
  /\ i > 2 /\ i \in DOMAIN text
  /\ text[i] = Heading(slug) /\ text[i - 1] = Blank
  /\ text[i - 2].kind \notin {"bare", "blank"}
WellSpaced(text, required) ==
  /\ text # <<>> /\ text[1].kind # "blank"
  /\ \A slug \in required : \E i \in DOMAIN text : SpacedHeading(text, slug, i)
  /\ Sourced(text)

LEMMA WellSpacedPasses ==
  ASSUME NEW text \in Seq(Lines), NEW required, WellSpaced(text, required),
         ~ContainsSecretMaterial(text)
  PROVE  GatePasses(text, required)
<1>1. Strip(text) \in Seq(Lines)
  BY StripKeeps
<1>2. ASSUME NEW slug \in required
      PROVE  slug \in Sections(text) /\ slug \in Sections(Strip(text))
  <2>1. PICK i \in DOMAIN text : SpacedHeading(text, slug, i)
    BY DEF WellSpaced
  <2>2. slug \in Sections(text)
    BY <2>1, SpacedHeadingFound DEF SpacedHeading
  <2>3. i \in DOMAIN Strip(text) /\ \A j \in 1..i : Strip(text)[j] = text[j]
    BY <2>1, KindsDiffer, StripAtEnd DEF WellSpaced, SpacedHeading
  <2>4. SpacedHeading(Strip(text), slug, i)
    <3>1. i \in 1..i /\ i - 1 \in 1..i /\ i - 2 \in 1..i
      BY <2>1 DEF SpacedHeading
    <3> QED
      BY <2>1, <2>3, <3>1 DEF SpacedHeading
  <2>5. slug \in Sections(Strip(text))
    BY <1>1, <2>4, SpacedHeadingFound DEF SpacedHeading
  <2> QED
    BY <2>2, <2>5
<1>3. Sources(text) > 0
  BY CountedIffSourced DEF WellSpaced
<1>4. ~ContainsSecretMaterial(Strip(text))
  BY StripKeeps DEF ContainsSecretMaterial
<1> QED
  BY <1>2, <1>3, <1>4, GateReads

-----------------------------------------------------------------------------
(* Texts put together.                                                     *)

(* Where a heading that follows counts as one of its own. *)
EndsSpaced(text) ==
  /\ Len(text) > 1 /\ text[Len(text)] = Blank
  /\ text[Len(text) - 1].kind \notin {"bare", "blank"}

LEMMA Joined ==
  ASSUME NEW a \in Seq(Lines), NEW b \in Seq(Lines)
  PROVE  /\ a \o b \in Seq(Lines)
         /\ Len(a \o b) = Len(a) + Len(b)
         /\ \A i \in DOMAIN a : i \in DOMAIN (a \o b) /\ (a \o b)[i] = a[i]
         /\ \A i \in DOMAIN b : /\ Len(a) + i \in DOMAIN (a \o b)
                                /\ (a \o b)[Len(a) + i] = b[i]
         /\ ContainsSecretMaterial(a \o b) =>
              ContainsSecretMaterial(a) \/ ContainsSecretMaterial(b)
<1>1. a \o b \in Seq(Lines) /\ Len(a \o b) = Len(a) + Len(b) /\ Len(a) \in Nat /\ Len(b) \in Nat
  OBVIOUS
<1>2. \A i \in DOMAIN a : i \in DOMAIN (a \o b) /\ (a \o b)[i] = a[i]
  OBVIOUS
<1>3. \A i \in DOMAIN b : Len(a) + i \in DOMAIN (a \o b) /\ (a \o b)[Len(a) + i] = b[i]
  OBVIOUS
<1>4. ASSUME NEW i \in DOMAIN (a \o b), (a \o b)[i].kind = "credential"
      PROVE  ContainsSecretMaterial(a) \/ ContainsSecretMaterial(b)
  <2>1. CASE i \in DOMAIN a
    BY <1>2, <1>4, <2>1 DEF ContainsSecretMaterial
  <2>2. CASE i \notin DOMAIN a
    <3>1. PICK j \in DOMAIN b : i = Len(a) + j
      <4>1. i - Len(a) \in DOMAIN b /\ i = Len(a) + (i - Len(a))
        BY <1>1, <2>2
      <4> QED
        BY <4>1
    <3> QED
      BY <1>3, <1>4, <3>1 DEF ContainsSecretMaterial
  <2> QED
    BY <2>1, <2>2
<1> QED
  BY <1>1, <1>2, <1>3, <1>4 DEF ContainsSecretMaterial

LEMMA EndsJoined ==
  ASSUME NEW a \in Seq(Lines), NEW b \in Seq(Lines), EndsSpaced(b)
  PROVE  EndsSpaced(a \o b)
<1>1. Len(b) \in DOMAIN b /\ Len(b) - 1 \in DOMAIN b /\ Len(a) \in Nat /\ Len(b) \in Nat
  BY DEF EndsSpaced
<1>2. (a \o b)[Len(a) + Len(b)] = b[Len(b)] /\ (a \o b)[Len(a) + (Len(b) - 1)] = b[Len(b) - 1]
  BY <1>1, Joined
<1>3. Len(a \o b) = Len(a) + Len(b) /\ Len(a \o b) - 1 = Len(a) + (Len(b) - 1)
  BY <1>1, Joined
<1> QED
  BY <1>1, <1>2, <1>3 DEF EndsSpaced

(* A heading stays one of its own whatever follows ... *)
LEMMA SpacedStays ==
  ASSUME NEW a \in Seq(Lines), NEW b \in Seq(Lines), NEW slug, NEW i, SpacedHeading(a, slug, i)
  PROVE  SpacedHeading(a \o b, slug, i)
<1>1. i \in DOMAIN a /\ i - 1 \in DOMAIN a /\ i - 2 \in DOMAIN a
  BY DEF SpacedHeading
<1>2. \A j \in DOMAIN a : j \in DOMAIN (a \o b) /\ (a \o b)[j] = a[j]
  BY Joined
<1> QED
  BY <1>1, <1>2 DEF SpacedHeading

(* ... and is one below a text that makes room for it, or wherever it was  *)
(* one in what is added.                                                   *)
LEMMA SpacedNext ==
  ASSUME NEW a \in Seq(Lines), NEW b \in Seq(Lines), EndsSpaced(a), NEW slug,
         NEW i \in DOMAIN b, i = 1 \/ SpacedHeading(b, slug, i), b[i] = Heading(slug)
  PROVE  SpacedHeading(a \o b, slug, Len(a) + i)
<1>1. Len(a) \in Nat /\ Len(a) \in DOMAIN a /\ Len(a) - 1 \in DOMAIN a /\ Len(a) > 1
  BY DEF EndsSpaced
<1>2. /\ \A j \in DOMAIN a : j \in DOMAIN (a \o b) /\ (a \o b)[j] = a[j]
      /\ \A j \in DOMAIN b : Len(a) + j \in DOMAIN (a \o b) /\ (a \o b)[Len(a) + j] = b[j]
  BY Joined
<1>3. Len(a) + i \in DOMAIN (a \o b) /\ (a \o b)[Len(a) + i] = Heading(slug) /\ Len(a) + i > 2
  BY <1>1, <1>2
<1>4. CASE i = 1
  <2>1. Len(a) + i - 1 = Len(a) /\ Len(a) + i - 2 = Len(a) - 1
    BY <1>1, <1>4
  <2> QED
    BY <1>1, <1>2, <1>3, <2>1 DEF SpacedHeading, EndsSpaced
<1>5. CASE SpacedHeading(b, slug, i)
  <2>1. i - 1 \in DOMAIN b /\ i - 2 \in DOMAIN b
    BY <1>5 DEF SpacedHeading
  <2>2. Len(a) + i - 1 = Len(a) + (i - 1) /\ Len(a) + i - 2 = Len(a) + (i - 2)
    BY <1>1
  <2> QED
    BY <1>2, <1>3, <1>5, <2>1, <2>2 DEF SpacedHeading
<1> QED
  BY <1>4, <1>5

(* An item two lines below their heading is among the sources.             *)
LEMMA SourcedBelow ==
  ASSUME NEW text \in Seq(Lines), NEW i \in DOMAIN text, i + 1 \in DOMAIN text,
         i + 2 \in DOMAIN text,
         text[i] = Heading("sources"), text[i + 1] = Blank, text[i + 2] = Item
  PROVE  Sourced(text)
<1>1. i \in Nat /\ i < i + 2
  OBVIOUS
<1>2. \A k \in (i + 1)..(i + 2 - 1) : text[k].kind # "heading"
  <2> TAKE k \in (i + 1)..(i + 2 - 1)
  <2>1. k = i + 1
    BY <1>1
  <2> QED
    BY <2>1, KindsDiffer
<1> QED
  BY <1>1, <1>2 DEF Sourced

(* A list of sources stays one whatever stands above it or below.         *)
LEMMA SourcedJoined ==
  ASSUME NEW a \in Seq(Lines), NEW b \in Seq(Lines)
  PROVE  /\ Sourced(a) => Sourced(a \o b)
         /\ Sourced(b) => Sourced(a \o b)
<1>1. /\ \A i \in DOMAIN a : i \in DOMAIN (a \o b) /\ (a \o b)[i] = a[i]
      /\ \A i \in DOMAIN b : Len(a) + i \in DOMAIN (a \o b) /\ (a \o b)[Len(a) + i] = b[i]
      /\ DOMAIN a = 1..Len(a) /\ DOMAIN b = 1..Len(b) /\ Len(a) \in Nat /\ Len(b) \in Nat
  BY Joined
<1>2. ASSUME Sourced(a) PROVE Sourced(a \o b)
  <2>1. PICK i \in DOMAIN a, j \in DOMAIN a :
          /\ a[i] = Heading("sources") /\ a[j] = Item /\ i < j
          /\ \A k \in (i + 1)..(j - 1) : a[k].kind # "heading"
    BY <1>2 DEF Sourced
  <2>2. \A k \in (i + 1)..(j - 1) : k \in DOMAIN a
    BY <1>1
  <2> QED
    BY <1>1, <2>1, <2>2 DEF Sourced
<1>3. ASSUME Sourced(b) PROVE Sourced(a \o b)
  <2>1. PICK i \in DOMAIN b, j \in DOMAIN b :
          /\ b[i] = Heading("sources") /\ b[j] = Item /\ i < j
          /\ \A k \in (i + 1)..(j - 1) : b[k].kind # "heading"
    BY <1>3 DEF Sourced
  <2>0. PICK m, n : m = Len(a) + i /\ n = Len(a) + j
    OBVIOUS
  <2>2. ASSUME NEW k \in (m + 1)..(n - 1)
        PROVE  (a \o b)[k].kind # "heading"
    <3>1. PICK l \in (i + 1)..(j - 1) : k = Len(a) + l
      <4>1. k - Len(a) \in (i + 1)..(j - 1) /\ k = Len(a) + (k - Len(a))
        BY <1>1, <2>0
      <4> QED
        BY <4>1
    <3>2. l \in DOMAIN b
      BY <1>1
    <3> QED
      BY <1>1, <2>1, <3>1, <3>2
  <2>3. m < n /\ m \in DOMAIN (a \o b) /\ n \in DOMAIN (a \o b)
    BY <1>1, <2>0, <2>1
  <2>4. (a \o b)[m] = Heading("sources") /\ (a \o b)[n] = Item
    BY <1>1, <2>0, <2>1
  <2> QED
    BY <2>2, <2>3, <2>4 DEF Sourced
<1> QED
  BY <1>2, <1>3

(* The headings of a text stay when more is added to it.                   *)
LEMMA HeadingsStay ==
  ASSUME NEW a \in Seq(Lines), NEW b \in Seq(Lines), NEW slug,
         \E i \in DOMAIN a : SpacedHeading(a, slug, i)
  PROVE  \E i \in DOMAIN (a \o b) : SpacedHeading(a \o b, slug, i)
<1>1. PICK i : SpacedHeading(a, slug, i)
  OBVIOUS
<1>2. SpacedHeading(a \o b, slug, i)
  BY <1>1, SpacedStays
<1> QED
  BY <1>2 DEF SpacedHeading

-----------------------------------------------------------------------------
(* Loops.                                                                  *)

IsLoop(run, n, base, step) ==
  run = [i \in 0..n |-> IF i = 0 THEN base ELSE step[i][run[i - 1]]]

(* A loop of n steps over states of S has its states after every step.     *)
LEMMA Loop ==
  ASSUME NEW n \in Nat, NEW S, NEW base \in S, NEW step \in [1..n -> [S -> S]]
  PROVE  \E run \in [0..n -> S] : IsLoop(run, n, base, step)
<1> DEFINE Good == {m \in 0..n : \E run \in [0..m -> S] :
                      \A i \in 0..m : run[i] = IF i = 0 THEN base ELSE step[i][run[i - 1]]}
<1>1. 0 \in Good
  <2> DEFINE run == [i \in 0..0 |-> base]
  <2>1. run \in [0..0 -> S] /\ \A i \in 0..0 : i = 0 /\ run[i] = base
    OBVIOUS
  <2> HIDE DEF run
  <2> QED
    BY <2>1
<1>2. ASSUME NEW m \in 1..n, m - 1 \in Good PROVE m \in Good
  <2>1. PICK part \in [0..(m - 1) -> S] :
          \A i \in 0..(m - 1) : part[i] = IF i = 0 THEN base ELSE step[i][part[i - 1]]
    BY <1>2
  <2> DEFINE run == [i \in 0..m |-> IF i < m THEN part[i] ELSE step[m][part[m - 1]]]
  <2>2. step[m][part[m - 1]] \in S
    <3>1. m - 1 \in 0..(m - 1)
      OBVIOUS
    <3> QED
      BY <2>1, <3>1
  <2>3. run \in [0..m -> S]
    <3>1. \A i \in 0..m : i < m => i \in 0..(m - 1)
      OBVIOUS
    <3> QED
      BY <2>2, <3>1
  <2>4. /\ \A i \in 0..(m - 1) : run[i] = part[i]
        /\ run[m] = step[m][run[m - 1]] /\ m # 0
    OBVIOUS
  <2> HIDE DEF run
  <2>5. \A i \in 0..m : run[i] = IF i = 0 THEN base ELSE step[i][run[i - 1]]
    <3> TAKE i \in 0..m
    <3>1. CASE i = m
      BY <2>4, <3>1
    <3>2. CASE i = 0
      BY <2>1, <2>4, <3>2
    <3>3. CASE i # m /\ i # 0
      <4>1. i \in 0..(m - 1) /\ i - 1 \in 0..(m - 1)
        BY <3>3
      <4> QED
        BY <2>1, <2>4, <3>3, <4>1
    <3> QED
      BY <3>1, <3>2, <3>3
  <2>6. m \in 0..n
    OBVIOUS
  <2> QED
    BY <2>3, <2>5, <2>6
<1> HIDE DEF Good
<1>3. \A i \in 0..n : i \in Good
  BY <1>1, <1>2, Throughout
<1>4. n \in Good
  BY <1>3
<1>5. PICK run \in [0..n -> S] :
        \A i \in 0..n : run[i] = IF i = 0 THEN base ELSE step[i][run[i - 1]]
  BY <1>4 DEF Good
<1>6. run = [i \in 0..n |-> run[i]]
  OBVIOUS
<1>7. [i \in 0..n |-> run[i]] = [i \in 0..n |-> IF i = 0 THEN base ELSE step[i][run[i - 1]]]
  BY <1>5
<1> QED
  BY <1>6, <1>7 DEF IsLoop

-----------------------------------------------------------------------------
(* Fractions.                                                              *)

Extended == Nat \X Nat                 \* floats that are not negative, Inf and NaN too
Shares == Nat \X (Nat \ {0})           \* what is above zero or nothing
Ratios == (Nat \ {0}) \X (Nat \ {0})   \* what is above zero

LEMMA RatioIs ==
  /\ \A a \in Ratios : a \in Shares
  /\ \A a \in Shares : a \in Extended
  /\ \A a \in Extended : a[1] \in Nat /\ a[2] \in Nat
  /\ \A a \in Shares : a[1] \in Nat /\ a[2] \in Nat /\ a[2] > 0
  /\ \A a \in Ratios : a[1] > 0
  /\ \A n \in Nat, d \in Nat \ {0} : Frac(n, d) \in Shares /\ Frac(n, d)[1] = n /\ Frac(n, d)[2] = d
  /\ \A n, d \in Nat \ {0} : Frac(n, d) \in Ratios
  /\ \A a \in Extended : a[1] > 0 /\ a[2] > 0 => a \in Ratios
  BY DEF Extended, Shares, Ratios, Frac

LEMMA Products ==
  ASSUME NEW a \in Nat, NEW b \in Nat
  PROVE  a * b \in Nat /\ (a > 0 /\ b > 0 => a * b > 0)
  OBVIOUS

LEMMA RatioClosed ==
  /\ \A a, b \in Extended : Times(a, b) \in Extended /\ Over(a, b) \in Extended
  /\ \A a, b \in Shares : Times(a, b) \in Shares
  /\ \A a, b \in Ratios : Times(a, b) \in Ratios
  /\ \A a \in Shares, b \in Ratios : Over(a, b) \in Shares
  /\ \A a, b \in Ratios : Over(a, b) \in Ratios
<1>1. ASSUME NEW a \in Extended, NEW b \in Extended
      PROVE  Times(a, b) \in Extended /\ Over(a, b) \in Extended
  BY RatioIs, Products DEF Times, Over, Extended
<1>2. ASSUME NEW a \in Shares, NEW b \in Shares
      PROVE  Times(a, b) \in Shares
  BY RatioIs, Products DEF Times, Shares
<1>3. ASSUME NEW a \in Ratios, NEW b \in Ratios
      PROVE  Times(a, b) \in Ratios /\ Over(a, b) \in Ratios
  BY RatioIs, Products DEF Times, Over, Ratios
<1>4. ASSUME NEW a \in Shares, NEW b \in Ratios
      PROVE  Over(a, b) \in Shares
  BY RatioIs, Products DEF Over, Shares
<1> QED
  BY <1>1, <1>2, <1>3, <1>4

(* a <= b, or one of them is NaN *)
AtMost(a, b) == ~Less(b, a)

LEMMA AtMostIs ==
  ASSUME NEW a \in Extended, NEW b \in Extended
  PROVE  AtMost(a, b) <=> a[1] * b[2] <= b[1] * a[2]
<1>1. a[1] * b[2] \in Nat /\ b[1] * a[2] \in Nat
  BY RatioIs, Products
<1> QED
  BY <1>1 DEF AtMost, Less

LEMMA Cancel ==
  ASSUME NEW a \in Nat, NEW b \in Nat, NEW c \in Nat, c > 0
  PROVE  /\ a * c <= b * c => a <= b
         /\ a * c = b * c => a = b
         /\ a <= b => a * c <= b * c
  OBVIOUS

LEMMA AtMostTransitive ==
  ASSUME NEW a \in Extended, NEW b \in Extended, NEW c \in Extended, ~IsNaN(b),
         AtMost(a, b), AtMost(b, c)
  PROVE  AtMost(a, c)
<1>1. PICK a1 \in Nat, a2 \in Nat, b1 \in Nat, b2 \in Nat, c1 \in Nat, c2 \in Nat :
        /\ a1 = a[1] /\ a2 = a[2] /\ b1 = b[1] /\ b2 = b[2] /\ c1 = c[1] /\ c2 = c[2]
        /\ b1 > 0 \/ b2 > 0
  <2>1. /\ a[1] \in Nat /\ a[2] \in Nat
        /\ b[1] \in Nat /\ b[2] \in Nat
        /\ c[1] \in Nat /\ c[2] \in Nat
    BY RatioIs
  <2>2. b[1] > 0 \/ b[2] > 0
    BY <2>1 DEF IsNaN
  <2> QED
    BY <2>1, <2>2
<1>2. a1 * b2 <= b1 * a2 /\ b1 * c2 <= c1 * b2
  BY <1>1, AtMostIs
<1>3. CASE b2 > 0
  <2>1. (a1 * c2) * b2 <= (c1 * a2) * b2
    <3>1. PICK x \in Nat, y \in Nat, u \in Nat, v \in Nat :
            x = a1 * b2 /\ y = b1 * a2 /\ u = b1 * c2 /\ v = c1 * b2
      BY Products
    <3>2. x * c2 <= y * c2 /\ u * a2 <= v * a2
      BY <1>2, <3>1
    <3>3. (a1 * c2) * b2 = x * c2 /\ y * c2 = u * a2 /\ v * a2 = (c1 * a2) * b2
      BY <3>1
    <3> QED
      BY <3>2, <3>3
  <2>2. a1 * c2 <= c1 * a2
    BY <1>3, <2>1, Cancel, Products
  <2> QED
    BY <1>1, <2>2, AtMostIs
<1>4. CASE b2 = 0
  <2>1. b1 > 0 /\ b1 * c2 <= 0
    BY <1>1, <1>2, <1>4
  <2>2. c2 = 0
    BY <2>1, Products
  <2>3. a1 * c2 <= c1 * a2
    BY <2>2, Products
  <2> QED
    BY <1>1, <2>3, AtMostIs
<1> QED
  BY <1>3, <1>4

LEMMA SameTransitive ==
  ASSUME NEW a \in Shares, NEW b \in Shares, NEW c \in Shares, Same(a, b), Same(b, c)
  PROVE  Same(a, c)
<1>1. PICK a1 \in Nat, a2 \in Nat, b1 \in Nat, b2 \in Nat, c1 \in Nat, c2 \in Nat :
        /\ a1 = a[1] /\ a2 = a[2] /\ b1 = b[1] /\ b2 = b[2] /\ c1 = c[1] /\ c2 = c[2]
        /\ a2 > 0 /\ b2 > 0 /\ c2 > 0
  BY RatioIs
<1>2. a1 * b2 = b1 * a2 /\ b1 * c2 = c1 * b2
  BY <1>1 DEF Same
<1>3. a2 > 0 /\ b2 > 0 /\ c2 > 0
  BY <1>1
<1>4. a1 * c2 = c1 * a2
  BY <1>2, <1>3
<1> QED
  BY <1>1, <1>4 DEF Same

LEMMA SameIsAtMost ==
  ASSUME NEW a \in Extended, NEW b \in Extended
  PROVE  /\ Same(a, b) <=> AtMost(a, b) /\ AtMost(b, a)
         /\ Same(a, b) => Same(b, a)
         /\ Same(a, a)
         /\ AtMost(a, b) \/ AtMost(b, a)
<1>1. a[1] * b[2] \in Nat /\ b[1] * a[2] \in Nat
  BY RatioIs, Products
<1>2. Same(a, b) <=> AtMost(a, b) /\ AtMost(b, a)
  BY <1>1, AtMostIs DEF Same
<1>3. AtMost(a, b) \/ AtMost(b, a)
  BY <1>1, AtMostIs
<1> QED
  BY <1>2, <1>3 DEF Same

(* The smaller the divisor, the larger the quotient. *)
LEMMA Divided ==
  ASSUME NEW a \in Extended, NEW b \in Extended, NEW c \in Extended, AtMost(b, c)
  PROVE  AtMost(Over(a, c), Over(a, b))
<1>1. PICK a1 \in Nat, a2 \in Nat, b1 \in Nat, b2 \in Nat, c1 \in Nat, c2 \in Nat :
        /\ a1 = a[1] /\ a2 = a[2] /\ b1 = b[1] /\ b2 = b[2] /\ c1 = c[1] /\ c2 = c[2]
  <2>1. /\ a[1] \in Nat /\ a[2] \in Nat
        /\ b[1] \in Nat /\ b[2] \in Nat
        /\ c[1] \in Nat /\ c[2] \in Nat
    BY RatioIs
  <2> QED
    BY <2>1
<1>2. b1 * c2 <= c1 * b2
  BY <1>1, AtMostIs
<1>3. (a1 * c2) * (a2 * b1) <= (a1 * b2) * (a2 * c1)
  <2>1. (a1 * c2) * (a2 * b1) = (a1 * a2) * (b1 * c2)
    OBVIOUS
  <2>2. (a1 * b2) * (a2 * c1) = (a1 * a2) * (c1 * b2)
    OBVIOUS
  <2>3. PICK m \in Nat, x \in Nat, y \in Nat : m = a1 * a2 /\ x = b1 * c2 /\ y = c1 * b2
    BY Products
  <2>4. m * x <= m * y
    BY <1>2, <2>3
  <2> QED
    BY <2>1, <2>2, <2>3, <2>4
<1>4. /\ Over(a, c)[1] = a1 * c2 /\ Over(a, c)[2] = a2 * c1
      /\ Over(a, b)[1] = a1 * b2 /\ Over(a, b)[2] = a2 * b1
  BY <1>1 DEF Over
<1>5. Over(a, c) \in Extended /\ Over(a, b) \in Extended
  BY RatioClosed
<1> QED
  BY <1>3, <1>4, <1>5, AtMostIs

-----------------------------------------------------------------------------
(* The drawdown.                                                           *)

FallStates == [peak : Extended, worst : Shares]

LEMMA FallIs ==
  ASSUME NEW acc \in FallStates, NEW value \in Extended
  PROVE  Fall(acc, value) \in FallStates
<1>1. PICK peak : peak = Larger(acc.peak, value)
  OBVIOUS
<1>2. peak \in Extended /\ acc.worst \in Shares
  BY <1>1 DEF FallStates, Larger
<1>3. PICK now \in Extended : now = Over(value, peak)
  BY <1>2, RatioClosed
<1>4. Smaller(acc.worst, now) \in Shares
  <2>1. CASE ~Less(now, acc.worst)
    BY <1>2, <2>1 DEF Smaller
  <2>2. CASE Less(now, acc.worst)
    <3>1. PICK n1 \in Nat, n2 \in Nat, w1 \in Nat, w2 \in Nat :
            n1 = now[1] /\ n2 = now[2] /\ w1 = acc.worst[1] /\ w2 = acc.worst[2]
      BY <1>2, RatioIs
    <3>2. n1 * w2 < w1 * n2
      BY <2>2, <3>1 DEF Less
    <3>3. n2 > 0
      <4>1. n1 * w2 \in Nat /\ (n2 = 0 => w1 * n2 = 0)
        BY Products
      <4> QED
        BY <3>2, <4>1
    <3>4. now \in Shares
      BY <3>1, <3>3 DEF Extended, Shares
    <3> QED
      BY <2>2, <3>4 DEF Smaller
  <2> QED
    BY <2>1, <2>2
<1> QED
  BY <1>1, <1>2, <1>3, <1>4 DEF Fall, FallStates

LEMMA FallsAre ==
  ASSUME NEW values \in Seq(Extended), values # <<>>, NEW falls, falls = Falls(values)
  PROVE  /\ falls \in [0..Len(values) -> FallStates]
         /\ falls[0] = [peak |-> values[1], worst |-> Frac(1, 1)]
         /\ \A i \in 1..Len(values) : falls[i] = Fall(falls[i - 1], values[i])
         /\ MaxDrawdown(values) = falls[Len(values)].worst
<1> DEFINE base == [peak |-> values[1], worst |-> Frac(1, 1)]
           step == [i \in 1..Len(values) |-> [acc \in FallStates |-> Fall(acc, values[i])]]
<1>1. Len(values) \in Nat /\ 1 \in DOMAIN values /\ \A i \in 1..Len(values) : values[i] \in Extended
  OBVIOUS
<1>2. base \in FallStates
  <2>1. values[1] \in Extended /\ Frac(1, 1) \in Shares
    BY <1>1, RatioIs
  <2> QED
    BY <2>1 DEF FallStates
<1>3. \A acc \in FallStates, value \in Extended : Fall(acc, value) \in FallStates
  BY FallIs
<1>4. step \in [1..Len(values) -> [FallStates -> FallStates]]
  BY <1>1, <1>3
<1> HIDE DEF base, step
<1>5. PICK run \in [0..Len(values) -> FallStates] : IsLoop(run, Len(values), base, step)
  BY <1>1, <1>2, <1>4, Loop
<1>6. run = [i \in 0..Len(values) |-> IF i = 0 THEN base ELSE Fall(run[i - 1], values[i])]
  <2>1. ASSUME NEW i \in 0..Len(values), i # 0
        PROVE  step[i][run[i - 1]] = Fall(run[i - 1], values[i])
    <3>1. i \in 1..Len(values) /\ i - 1 \in 0..Len(values)
      BY <1>1, <2>1
    <3>2. run[i - 1] \in FallStates
      BY <3>1
    <3> QED
      BY <3>1, <3>2 DEF step
  <2> QED
    BY <1>5, <2>1 DEF IsLoop
<1>7. falls = [i \in 0..Len(values) |-> IF i = 0 THEN base ELSE Fall(falls[i - 1], values[i])]
  BY <1>6 DEF Falls, base
<1>8. \A i \in 0..Len(values) : falls[i] = IF i = 0 THEN base ELSE Fall(falls[i - 1], values[i])
  BY <1>7
<1>9. \A i \in 0..Len(values) : falls[i] \in FallStates
  <2> DEFINE Good == {i \in 0..Len(values) : falls[i] \in FallStates}
  <2>1. 0 \in Good
    BY <1>1, <1>2, <1>8
  <2>2. ASSUME NEW i \in 1..Len(values), i - 1 \in Good PROVE i \in Good
    BY <1>1, <1>3, <1>8, <2>2
  <2> HIDE DEF Good
  <2>3. \A i \in 0..Len(values) : i \in Good
    BY <1>1, <2>1, <2>2, Throughout
  <2> QED
    BY <2>3 DEF Good
<1>10. falls \in [0..Len(values) -> FallStates]
  <2>1. falls = [i \in 0..Len(values) |-> falls[i]]
    BY <1>7
  <2> QED
    BY <1>9, <2>1
<1>11. falls[0] = [peak |-> values[1], worst |-> Frac(1, 1)]
  BY <1>1, <1>8 DEF base
<1>12. \A i \in 1..Len(values) : falls[i] = Fall(falls[i - 1], values[i])
  BY <1>1, <1>8
<1> QED
  BY <1>10, <1>11, <1>12 DEF MaxDrawdown

(* The peak is the largest value so far, the worst the smallest ratio of a *)
(* value to one before it.                                                 *)
PeakAt(values, peak, k) ==
  /\ peak[1] > 0
  /\ \E i \in DOMAIN values : (i <= k \/ i = 1) /\ peak = values[i]
  /\ \A i \in 1..k : AtMost(values[i], peak)
WorstAt(values, worst, k) ==
  /\ \E i, j \in DOMAIN values :
       i <= j /\ ~IsNaN(Over(values[j], values[i])) /\ Same(Over(values[j], values[i]), worst)
  /\ \A i, j \in 1..k : i <= j => AtMost(worst, Over(values[j], values[i]))

(* Nothing is below what is infinite or NaN. *)
LEMMA AtMostEndless ==
  ASSUME NEW a \in Extended, NEW b \in Extended, b[2] = 0
  PROVE  AtMost(a, b)
<1>1. a[1] * b[2] = 0 /\ b[1] * a[2] \in Nat
  BY RatioIs, Products
<1> QED
  BY <1>1, AtMostIs

LEMMA FallsMean ==
  ASSUME NEW values \in Seq(Extended), values # <<>>, values[1] \in Ratios,
         NEW falls, falls = Falls(values)
  PROVE  \A k \in 0..Len(values) :
           PeakAt(values, falls[k].peak, k) /\ WorstAt(values, falls[k].worst, k)
<1> DEFINE Good == {k \in 0..Len(values) :
                      PeakAt(values, falls[k].peak, k) /\ WorstAt(values, falls[k].worst, k)}
<1>1. Len(values) \in Nat /\ DOMAIN values = 1..Len(values) /\ 1 \in DOMAIN values
      /\ \A i \in 1..Len(values) : values[i] \in Extended
  OBVIOUS
<1>0. /\ \A i \in 0..Len(values) : falls[i] \in FallStates
      /\ falls[0] = [peak |-> values[1], worst |-> Frac(1, 1)]
      /\ \A i \in 1..Len(values) : falls[i] = Fall(falls[i - 1], values[i])
  BY FallsAre
<1>2. 0 \in Good
  <2>1. falls[0].peak = values[1] /\ falls[0].worst = Frac(1, 1) /\ values[1][1] > 0
    BY <1>0, RatioIs
  <2>2. Same(Over(values[1], values[1]), Frac(1, 1)) /\ ~IsNaN(Over(values[1], values[1]))
    <3>1. PICK a \in Nat, b \in Nat : a = values[1][1] /\ b = values[1][2] /\ a > 0 /\ b > 0
      BY RatioIs
    <3>2. (a * b) * 1 = 1 * (b * a) /\ a * b > 0
      BY <3>1, Products
    <3> QED
      BY <3>1, <3>2 DEF Same, Over, Frac, IsNaN
  <2> QED
    BY <1>1, <2>1, <2>2 DEF PeakAt, WorstAt
<1>3. ASSUME NEW k \in 1..Len(values), k - 1 \in Good PROVE k \in Good
  <2>1. PICK old \in FallStates, new \in FallStates : old = falls[k - 1] /\ new = falls[k]
    <3>1. k - 1 \in 0..Len(values) /\ k \in 0..Len(values)
      BY <1>1
    <3> QED
      BY <1>0, <3>1
  <2>2. /\ old.peak \in Extended /\ old.worst \in Shares /\ new.peak \in Extended /\ new.worst \in Shares
        /\ old.worst \in Extended /\ new.worst \in Extended /\ ~IsNaN(old.worst) /\ ~IsNaN(new.worst)
    <3>1. old.peak \in Extended /\ old.worst \in Shares /\ new.peak \in Extended /\ new.worst \in Shares
      BY DEF FallStates
    <3> QED
      BY <3>1, RatioIs DEF IsNaN
  <2>3. /\ new.peak = Larger(old.peak, values[k])
        /\ new.worst = Smaller(old.worst, Over(values[k], new.peak))
    <3>1. new = Fall(old, values[k])
      BY <1>0, <2>1
    <3> QED
      BY <3>1 DEF Fall
  <2>4. PeakAt(values, old.peak, k - 1) /\ WorstAt(values, old.worst, k - 1)
    BY <1>3, <2>1
  <2>5. values[k] \in Extended /\ k \in DOMAIN values /\ old.peak[1] > 0 /\ ~IsNaN(old.peak)
    BY <1>1, <2>4 DEF PeakAt, IsNaN
  <2>6. AtMost(old.peak, new.peak) /\ AtMost(values[k], new.peak)
    BY <2>2, <2>3, <2>5, SameIsAtMost DEF Larger, AtMost
  <2>12. new.peak[1] > 0
    <3>1. CASE new.peak = old.peak
      BY <2>5, <3>1
    <3>2. CASE Less(old.peak, values[k]) /\ new.peak = values[k]
      <4>1. PICK p1 \in Nat, p2 \in Nat, v1 \in Nat, v2 \in Nat :
              p1 = old.peak[1] /\ p2 = old.peak[2] /\ v1 = values[k][1] /\ v2 = values[k][2]
        BY <2>2, <2>5, RatioIs
      <4>2. p1 * v2 < v1 * p2
        BY <3>2, <4>1 DEF Less
      <4>3. p1 * v2 \in Nat /\ (v1 = 0 => v1 * p2 = 0)
        BY Products
      <4>4. v1 > 0
        BY <4>2, <4>3
      <4> QED
        BY <3>2, <4>1, <4>4
    <3> QED
      BY <2>3, <3>1, <3>2 DEF Larger
  <2>7. PeakAt(values, new.peak, k)
    <3>1. \E i \in DOMAIN values : (i <= k \/ i = 1) /\ new.peak = values[i]
      <4>1. PICK i \in DOMAIN values : (i <= k - 1 \/ i = 1) /\ old.peak = values[i]
        BY <2>4 DEF PeakAt
      <4>2. i <= k \/ i = 1
        BY <1>1, <4>1
      <4>3. k <= k
        OBVIOUS
      <4> QED
        BY <2>3, <2>5, <4>1, <4>2, <4>3 DEF Larger
    <3>2. ASSUME NEW i \in 1..k PROVE AtMost(values[i], new.peak)
      <4>1. CASE i = k
        BY <2>6, <4>1
      <4>2. CASE i # k
        <5>1. i \in 1..(k - 1) /\ i \in 1..Len(values)
          BY <4>2
        <5>2. AtMost(values[i], old.peak)
          BY <2>4, <5>1 DEF PeakAt
        <5> QED
          BY <1>1, <2>2, <2>5, <2>6, <5>1, <5>2, AtMostTransitive
      <4> QED
        BY <4>1, <4>2
    <3> QED
      BY <2>12, <3>1, <3>2 DEF PeakAt
  <2>8. PICK now \in Extended : now = Over(values[k], new.peak)
    BY <2>2, <2>5, RatioClosed
  <2>9. AtMost(new.worst, old.worst) /\ AtMost(new.worst, now)
    BY <2>2, <2>3, <2>8, SameIsAtMost DEF Smaller, AtMost
  <2>10. WorstAt(values, new.worst, k)
    <3>1. \E i, j \in DOMAIN values :
            i <= j /\ ~IsNaN(Over(values[j], values[i])) /\ Same(Over(values[j], values[i]), new.worst)
      <4>1. CASE new.worst = old.worst
        BY <2>4, <4>1 DEF WorstAt
      <4>2. CASE new.worst = now
        <5>1. PICK i \in DOMAIN values : (i <= k \/ i = 1) /\ new.peak = values[i]
          BY <2>7 DEF PeakAt
        <5>2. i <= k
          BY <5>1
        <5>3. Over(values[k], values[i]) = new.worst
          BY <2>8, <4>2, <5>1
        <5>4. Same(Over(values[k], values[i]), new.worst) /\ ~IsNaN(Over(values[k], values[i]))
          BY <2>2, <5>3, SameIsAtMost
        <5> QED
          BY <2>5, <5>2, <5>4
      <4> QED
        BY <2>3, <2>8, <4>1, <4>2 DEF Smaller
    <3>2. ASSUME NEW i \in 1..k, NEW j \in 1..k, i <= j
          PROVE  AtMost(new.worst, Over(values[j], values[i]))
      <4>1. i \in 1..Len(values) /\ j \in 1..Len(values)
        BY <1>1
      <4>2. PICK ratio \in Extended : ratio = Over(values[j], values[i])
        BY <1>1, <4>1, RatioClosed
      <4>3. CASE j = k /\ ratio[2] > 0
        <5>1. AtMost(values[i], new.peak)
          BY <2>7 DEF PeakAt
        <5>2. AtMost(now, ratio)
          BY <1>1, <2>2, <2>8, <4>1, <4>2, <4>3, <5>1, Divided
        <5>3. ~IsNaN(now)
          <6>1. PICK v2 \in Nat, i1 \in Nat, p1 \in Nat :
                  v2 = values[k][2] /\ i1 = values[i][1] /\ p1 = new.peak[1]
            BY <1>1, <2>2, <4>1, RatioIs
          <6>2. v2 * i1 > 0
            BY <4>2, <4>3, <6>1 DEF Over
          <6>3. v2 > 0
            BY <6>2, Products
          <6>4. v2 * p1 > 0
            BY <2>12, <6>1, <6>3, Products
          <6>5. now[2] = v2 * p1
            BY <2>8, <6>1 DEF Over
          <6> QED
            BY <6>4, <6>5 DEF IsNaN
        <5> QED
          BY <2>2, <2>8, <2>9, <4>2, <5>2, <5>3, AtMostTransitive
      <4>4. CASE j # k
        <5>1. i \in 1..(k - 1) /\ j \in 1..(k - 1)
          BY <3>2, <4>4
        <5>2. AtMost(old.worst, Over(values[j], values[i]))
          BY <2>4, <3>2, <5>1 DEF WorstAt
        <5> QED
          BY <2>2, <2>9, <4>2, <5>2, AtMostTransitive
      <4>5. CASE ratio[2] = 0
        BY <2>2, <4>2, <4>5, AtMostEndless
      <4>6. ratio[2] = 0 \/ ratio[2] > 0
        BY <4>2, RatioIs
      <4> QED
        BY <4>3, <4>4, <4>5, <4>6
    <3> QED
      BY <3>1, <3>2 DEF WorstAt
  <2>11. k \in 0..Len(values)
    BY <1>1
  <2> QED
    BY <2>1, <2>7, <2>10, <2>11
<1> HIDE DEF Good
<1>4. \A k \in 0..Len(values) : k \in Good
  BY <1>1, <1>2, <1>3, Throughout
<1> QED
  BY <1>4 DEF Good

(* The loop finds the worst fall (_max_drawdown), whatever NaN or Inf lies *)
(* between, provided that it begins with a number.                         *)
THEOREM WorstFallFound ==
  ASSUME NEW values \in Seq(Extended), values # <<>>, values[1] \in Ratios
  PROVE  IsWorstFall(values, MaxDrawdown(values)) /\ MaxDrawdown(values) \in Shares
<1>1. PICK falls : falls = Falls(values)
  OBVIOUS
<1>2. Len(values) \in 0..Len(values) /\ DOMAIN values = 1..Len(values)
  OBVIOUS
<1>3. MaxDrawdown(values) = falls[Len(values)].worst /\ falls[Len(values)] \in FallStates
  BY <1>1, <1>2, FallsAre
<1>4. WorstAt(values, MaxDrawdown(values), Len(values))
  BY <1>1, <1>2, <1>3, FallsMean
<1> QED
  BY <1>2, <1>3, <1>4 DEF WorstAt, IsWorstFall, AtMost, FallStates

(* It finds nothing when it begins with NaN: no comparison gets past that. *)
THEOREM NoFallFound ==
  ASSUME NEW values \in Seq(Extended), values # <<>>, IsNaN(values[1])
  PROVE  MaxDrawdown(values) = Frac(1, 1)
<1>1. PICK falls : falls = Falls(values)
  OBVIOUS
<1>2. Len(values) \in Nat /\ \A i \in 1..Len(values) : values[i] \in Extended
  OBVIOUS
<1>3. /\ falls[0] = [peak |-> values[1], worst |-> Frac(1, 1)]
      /\ \A i \in 1..Len(values) : falls[i] = Fall(falls[i - 1], values[i])
      /\ MaxDrawdown(values) = falls[Len(values)].worst
  BY <1>1, FallsAre
<1> DEFINE Good == {i \in 0..Len(values) : IsNaN(falls[i].peak) /\ falls[i].worst = Frac(1, 1)}
<1>4. 0 \in Good
  BY <1>2, <1>3
<1>5. ASSUME NEW i \in 1..Len(values), i - 1 \in Good PROVE i \in Good
  <2>1. PICK old, new : old = falls[i - 1] /\ new = falls[i]
    OBVIOUS
  <2>2. IsNaN(old.peak) /\ old.worst = Frac(1, 1) /\ new = Fall(old, values[i])
    BY <1>3, <1>5, <2>1
  <2>3. values[i][1] \in Nat /\ values[i][2] \in Nat
    BY <1>2, RatioIs
  <2>4. Larger(old.peak, values[i]) = old.peak
    BY <2>2, <2>3 DEF Larger, Less, IsNaN
  <2>5. IsNaN(Over(values[i], old.peak))
    BY <2>2, <2>3 DEF Over, IsNaN
  <2>6. Smaller(Frac(1, 1), Over(values[i], old.peak)) = Frac(1, 1)
    BY <2>5 DEF Smaller, Less, IsNaN, Frac
  <2>7. new.peak = old.peak /\ new.worst = Frac(1, 1)
    BY <2>2, <2>4, <2>6 DEF Fall
  <2>8. IsNaN(new.peak) /\ i \in 0..Len(values)
    BY <1>2, <2>2, <2>7
  <2> QED
    BY <2>1, <2>7, <2>8
<1> HIDE DEF Good
<1>6. \A i \in 0..Len(values) : i \in Good
  BY <1>2, <1>4, <1>5, Throughout
<1>7. Len(values) \in Good
  BY <1>2, <1>6
<1> QED
  BY <1>3, <1>7 DEF Good

(* Series of numbers that change alike fall alike.                         *)
LEMMA FallsAlike ==
  ASSUME NEW one \in Seq(Ratios), NEW other \in Seq(Ratios), DOMAIN one = DOMAIN other,
         \A i, j \in DOMAIN one : Same(Over(one[j], one[i]), Over(other[j], other[i])),
         NEW fall \in Shares, IsWorstFall(one, fall)
  PROVE  IsWorstFall(other, fall)
<1>1. ASSUME NEW i \in DOMAIN one, NEW j \in DOMAIN one
      PROVE  /\ Over(one[j], one[i]) \in Shares /\ Over(other[j], other[i]) \in Shares
             /\ Over(one[j], one[i]) \in Extended /\ Over(other[j], other[i]) \in Extended
             /\ ~IsNaN(Over(one[j], one[i])) /\ ~IsNaN(Over(other[j], other[i]))
             /\ Same(Over(one[j], one[i]), Over(other[j], other[i]))
  <2>1. one[i] \in Ratios /\ one[j] \in Ratios /\ other[i] \in Ratios /\ other[j] \in Ratios
    OBVIOUS
  <2>2. PICK a \in Ratios, b \in Ratios : a = Over(one[j], one[i]) /\ b = Over(other[j], other[i])
    BY <2>1, RatioClosed
  <2>3. a \in Extended /\ b \in Extended /\ a \in Shares /\ b \in Shares /\ ~IsNaN(a) /\ ~IsNaN(b)
    BY RatioIs DEF IsNaN
  <2> QED
    BY <2>2, <2>3
<1>0. fall \in Extended
  BY RatioIs
<1>2. ASSUME NEW i \in DOMAIN other, NEW j \in DOMAIN other, i <= j
      PROVE  ~Less(Over(other[j], other[i]), fall)
  <2>1. AtMost(fall, Over(one[j], one[i]))
    BY <1>2 DEF IsWorstFall, AtMost
  <2>2. AtMost(fall, Over(other[j], other[i]))
    BY <1>0, <1>1, <2>1, SameIsAtMost, AtMostTransitive
  <2> QED
    BY <2>2 DEF AtMost
<1>3. \E i, j \in DOMAIN other :
        i <= j /\ ~IsNaN(Over(other[j], other[i])) /\ Same(Over(other[j], other[i]), fall)
  <2>1. PICK i \in DOMAIN one, j \in DOMAIN one : i <= j /\ Same(Over(one[j], one[i]), fall)
    BY DEF IsWorstFall
  <2>2. Same(Over(other[j], other[i]), fall)
    BY <1>1, <2>1, SameIsAtMost, SameTransitive
  <2> QED
    BY <1>1, <2>1, <2>2
<1> QED
  BY <1>2, <1>3 DEF IsWorstFall

LEMMA SameChange ==
  ASSUME NEW a \in Ratios, NEW b \in Ratios, NEW c \in Ratios, NEW d \in Ratios,
         Same(a, c), Same(b, d)
  PROVE  Same(Over(b, a), Over(d, c))
<1>1. PICK a1 \in Nat, a2 \in Nat, b1 \in Nat, b2 \in Nat,
           c1 \in Nat, c2 \in Nat, d1 \in Nat, d2 \in Nat :
        /\ a1 = a[1] /\ a2 = a[2] /\ b1 = b[1] /\ b2 = b[2]
        /\ c1 = c[1] /\ c2 = c[2] /\ d1 = d[1] /\ d2 = d[2]
  BY DEF Ratios
<1>2. a1 * c2 = c1 * a2 /\ b1 * d2 = d1 * b2
  BY <1>1 DEF Same
<1>3. (b1 * a2) * (d2 * c1) = (d1 * c2) * (b2 * a1)
  <2>1. (b1 * a2) * (d2 * c1) = (b1 * d2) * (c1 * a2)
    OBVIOUS
  <2>2. (d1 * c2) * (b2 * a1) = (d1 * b2) * (a1 * c2)
    OBVIOUS
  <2> QED
    BY <1>2, <2>1, <2>2
<1> QED
  BY <1>1, <1>3 DEF Same, Over

(* What the values are measured in makes no difference, to NaN and Inf     *)
(* neither.                                                                *)
LEMMA Scaled ==
  ASSUME NEW a \in Extended, NEW b \in Extended, NEW unit \in Ratios, NEW fall \in Shares,
         NEW scaled, scaled = Over(Over(a, unit), Over(b, unit))
  PROVE  /\ Less(scaled, fall) <=> Less(Over(a, b), fall)
         /\ Same(scaled, fall) <=> Same(Over(a, b), fall)
         /\ IsNaN(scaled) <=> IsNaN(Over(a, b))
<1>1. PICK a1 \in Nat, a2 \in Nat, b1 \in Nat, b2 \in Nat,
           u1 \in Nat, u2 \in Nat, f1 \in Nat, f2 \in Nat :
        /\ a1 = a[1] /\ a2 = a[2] /\ b1 = b[1] /\ b2 = b[2]
        /\ u1 = unit[1] /\ u2 = unit[2] /\ f1 = fall[1] /\ f2 = fall[2]
        /\ u1 > 0 /\ u2 > 0
  <2>1. /\ a[1] \in Nat /\ a[2] \in Nat /\ b[1] \in Nat /\ b[2] \in Nat
        /\ unit[1] \in Nat /\ unit[2] \in Nat /\ fall[1] \in Nat /\ fall[2] \in Nat
        /\ unit[1] > 0 /\ unit[2] > 0
    BY RatioIs
  <2> QED
    BY <2>1
<1>2. PICK m \in Nat, n \in Nat, d \in Nat :
        m = u1 * u2 /\ n = a1 * b2 /\ d = a2 * b1 /\ m > 0
  BY <1>1, Products
<1>3. (a1 * u2) * (b2 * u1) = n * m /\ (a2 * u1) * (b1 * u2) = d * m
  <2>1. (a1 * u2) * (b2 * u1) = (a1 * b2) * (u1 * u2)
    OBVIOUS
  <2>2. (a2 * u1) * (b1 * u2) = (a2 * b1) * (u1 * u2)
    OBVIOUS
  <2> QED
    BY <1>2, <2>1, <2>2
<1>4. /\ scaled[1] = n * m /\ scaled[2] = d * m
      /\ Over(a, b)[1] = n /\ Over(a, b)[2] = d
  BY <1>1, <1>2, <1>3 DEF Over
<1>5. PICK x \in Nat, y \in Nat : x = n * f2 /\ y = f1 * d
  BY Products
<1>6. (n * m) * f2 = x * m /\ f1 * (d * m) = y * m
  BY <1>5
<1>7. /\ x * m < y * m <=> x < y
      /\ x * m = y * m <=> x = y
      /\ n * m = 0 <=> n = 0
      /\ d * m = 0 <=> d = 0
  <2>1. x * m <= y * m => x <= y
    BY <1>2, Cancel
  <2>2. y * m <= x * m => y <= x
    BY <1>2, Cancel
  <2>3. (n > 0 => n * m > 0) /\ (d > 0 => d * m > 0)
    BY <1>2, Products
  <2>4. x <= y => x * m <= y * m
    BY <1>2, Cancel
  <2>5. y <= x => y * m <= x * m
    BY <1>2, Cancel
  <2>6. x * m \in Nat /\ y * m \in Nat /\ 0 * m = 0
    BY Products
  <2> QED
    BY <2>1, <2>2, <2>3, <2>4, <2>5, <2>6
<1> QED
  BY <1>1, <1>4, <1>5, <1>6, <1>7 DEF Less, Same, IsNaN

LEMMA FallOfShares ==
  ASSUME NEW closes \in Seq(Extended), closes # <<>>, closes[1] \in Ratios,
         NEW values, values = [i \in DOMAIN closes |-> Over(closes[i], closes[1])],
         NEW fall \in Shares, IsWorstFall(values, fall)
  PROVE  IsWorstFall(closes, fall)
<1>1. \A i \in DOMAIN closes : closes[i] \in Extended /\ values[i] = Over(closes[i], closes[1])
  OBVIOUS
<1>2. ASSUME NEW i \in DOMAIN closes, NEW j \in DOMAIN closes
      PROVE  /\ Less(Over(values[j], values[i]), fall) <=> Less(Over(closes[j], closes[i]), fall)
             /\ Same(Over(values[j], values[i]), fall) <=> Same(Over(closes[j], closes[i]), fall)
             /\ IsNaN(Over(values[j], values[i])) <=> IsNaN(Over(closes[j], closes[i]))
  BY <1>1, Scaled
<1>3. DOMAIN values = DOMAIN closes
  OBVIOUS
<1>4. ASSUME NEW i \in DOMAIN closes, NEW j \in DOMAIN closes, i <= j
      PROVE  ~Less(Over(closes[j], closes[i]), fall)
  <2>1. ~Less(Over(values[j], values[i]), fall)
    BY <1>3, <1>4 DEF IsWorstFall
  <2> QED
    BY <1>2, <2>1
<1>5. PICK i \in DOMAIN closes, j \in DOMAIN closes :
        i <= j /\ ~IsNaN(Over(values[j], values[i])) /\ Same(Over(values[j], values[i]), fall)
  BY <1>3 DEF IsWorstFall
<1>6. ~IsNaN(Over(closes[j], closes[i])) /\ Same(Over(closes[j], closes[i]), fall)
  BY <1>2, <1>5
<1> QED
  BY <1>4, <1>5, <1>6 DEF IsWorstFall

-----------------------------------------------------------------------------
(* The moving averages.                                                    *)

(* What is added to Inf or NaN is Inf or NaN, to NaN it is NaN.            *)
LEMMA Added ==
  ASSUME NEW a \in Extended, NEW b \in Extended, NEW sum, sum = Plus(a, b)
  PROVE  /\ sum \in Extended
         /\ b[2] = 0 => sum[2] = 0
         /\ IsNaN(b) => IsNaN(sum)
<1>1. PICK a1 \in Nat, a2 \in Nat, b1 \in Nat, b2 \in Nat :
        a1 = a[1] /\ a2 = a[2] /\ b1 = b[1] /\ b2 = b[2]
  <2>1. a[1] \in Nat /\ a[2] \in Nat /\ b[1] \in Nat /\ b[2] \in Nat
    BY RatioIs
  <2> QED
    BY <2>1
<1>2. /\ a1 * b1 \in Nat /\ a1 * b2 + b1 * a2 \in Nat /\ a2 * b2 \in Nat
      /\ b2 = 0 => a2 * b2 = 0
      /\ b1 = 0 => a1 * b1 = 0
      /\ b1 = 0 /\ b2 = 0 => a1 * b2 + b1 * a2 = 0
  BY Products
<1>3. CASE a2 = 0 /\ b2 = 0
  <2>1. sum = <<a1 * b1, 0>>
    BY <1>1, <1>3 DEF Plus
  <2> QED
    BY <1>1, <1>2, <2>1 DEF Extended, IsNaN
<1>4. CASE ~(a2 = 0 /\ b2 = 0)
  <2>1. sum = <<a1 * b2 + b1 * a2, a2 * b2>>
    BY <1>1, <1>4 DEF Plus
  <2>2. PICK n \in Nat, d \in Nat : n = a1 * b2 + b1 * a2 /\ d = a2 * b2
    BY <1>2
  <2> QED
    BY <1>1, <1>2, <2>1, <2>2 DEF Extended, IsNaN
<1> QED
  BY <1>3, <1>4

LEMMA TotalIs ==
  ASSUME NEW values \in Seq(Extended), values # <<>>
  PROVE  /\ Total(values) \in Extended
         /\ \E t \in Extended : Total(values) = Plus(t, values[Len(values)])
<1> DEFINE base == Frac(0, 1)
           step == [i \in 1..Len(values) |-> [acc \in Extended |-> Plus(acc, values[i])]]
<1>1. Len(values) \in Nat /\ Len(values) > 0 /\ \A i \in 1..Len(values) : values[i] \in Extended
  OBVIOUS
<1>2. base \in Extended
  BY RatioIs
<1>3. \A i \in 1..Len(values), acc \in Extended : Plus(acc, values[i]) \in Extended
  BY <1>1, Added
<1>4. step \in [1..Len(values) -> [Extended -> Extended]]
  BY <1>3
<1> HIDE DEF base, step
<1>5. PICK run \in [0..Len(values) -> Extended] : IsLoop(run, Len(values), base, step)
  BY <1>1, <1>2, <1>4, Loop
<1>6. run = [i \in 0..Len(values) |-> IF i = 0 THEN base ELSE Plus(run[i - 1], values[i])]
  <2>1. ASSUME NEW i \in 0..Len(values), i # 0
        PROVE  step[i][run[i - 1]] = Plus(run[i - 1], values[i])
    <3>1. i \in 1..Len(values) /\ i - 1 \in 0..Len(values)
      BY <1>1, <2>1
    <3>2. run[i - 1] \in Extended
      BY <3>1
    <3> QED
      BY <3>1, <3>2 DEF step
  <2> QED
    BY <1>5, <2>1 DEF IsLoop
<1> DEFINE total == CHOOSE f :
              f = [i \in 0..Len(values) |-> IF i = 0 THEN base ELSE Plus(f[i - 1], values[i])]
<1>7. total = [i \in 0..Len(values) |-> IF i = 0 THEN base ELSE Plus(total[i - 1], values[i])]
  BY <1>6
<1>8. Total(values) = total[Len(values)]
  BY DEF Total, base
<1> HIDE DEF total
<1>9. \A i \in 0..Len(values) : total[i] = IF i = 0 THEN base ELSE Plus(total[i - 1], values[i])
  BY <1>7
<1>10. \A i \in 0..Len(values) : total[i] \in Extended
  <2> DEFINE Good == {i \in 0..Len(values) : total[i] \in Extended}
  <2>1. 0 \in Good
    BY <1>1, <1>2, <1>9
  <2>2. ASSUME NEW i \in 1..Len(values), i - 1 \in Good PROVE i \in Good
    BY <1>1, <1>3, <1>9, <2>2
  <2> HIDE DEF Good
  <2>3. \A i \in 0..Len(values) : i \in Good
    BY <1>1, <2>1, <2>2, Throughout
  <2> QED
    BY <2>3 DEF Good
<1>11. Len(values) \in 0..Len(values) /\ Len(values) - 1 \in 0..Len(values) /\ Len(values) # 0
  BY <1>1
<1>12. total[Len(values)] = Plus(total[Len(values) - 1], values[Len(values)])
  BY <1>9, <1>11
<1> QED
  BY <1>8, <1>10, <1>11, <1>12

(* An average is not a number when the last price is none, and NaN when    *)
(* that is NaN.                                                            *)
LEMMA WindowIs ==
  ASSUME NEW closes \in Seq(Extended), NEW i \in 1..Len(closes), NEW days \in Nat \ {0},
         NEW average, average = Window(closes, i, days)
  PROVE  /\ average \in Extended
         /\ closes[i][2] = 0 => average[2] = 0
         /\ IsNaN(closes[i]) => IsNaN(average)
<1>1. PICK first \in 1..i : first = IF i > days THEN i - days + 1 ELSE 1
  <2>1. i \in Nat /\ i >= 1 /\ days >= 1
    OBVIOUS
  <2>2. CASE i > days
    <3>1. i - days + 1 \in 1..i
      BY <2>1, <2>2
    <3> QED
      BY <2>2, <3>1
  <2>3. CASE ~(i > days)
    BY <2>1, <2>3
  <2> QED
    BY <2>2, <2>3
<1>2. PICK values : values = SubSeq(closes, first, i)
  OBVIOUS
<1>3. values \in Seq(Extended) /\ Len(values) = i - first + 1 /\ values[Len(values)] = closes[i]
  <2>1. values = [k \in 1..(1 + i - first) |-> closes[k + first - 1]]
    BY <1>2
  <2>2. \A k \in 1..(1 + i - first) : k + first - 1 \in 1..Len(closes)
    BY <1>1
  <2>3. 1 + i - first \in Nat /\ 1 + i - first \in 1..(1 + i - first)
        /\ (1 + i - first) + first - 1 = i
    BY <1>1
  <2>4. values \in [1..(1 + i - first) -> Extended]
    BY <2>1, <2>2
  <2>5. values \in Seq(Extended) /\ Len(values) = 1 + i - first
    BY <2>3, <2>4
  <2> QED
    BY <2>1, <2>3, <2>5
<1>4. Len(values) \in Nat \ {0} /\ values # <<>> /\ closes[i] \in Extended
  BY <1>1, <1>3
<1>5. PICK n \in Nat : n = Len(values) /\ n > 0
  BY <1>4
<1>6. PICK total \in Extended, t \in Extended :
        total = Total(values) /\ total = Plus(t, closes[i])
  BY <1>3, <1>4, TotalIs
<1>7. average = Over(total, Frac(n, 1))
  BY <1>1, <1>2, <1>5, <1>6 DEF Window, Mean
<1>8. PICK t1 \in Nat, t2 \in Nat : t1 = total[1] /\ t2 = total[2]
  BY RatioIs
<1>9. average = <<t1 * 1, t2 * n>>
  BY <1>7, <1>8 DEF Over, Frac
<1>10. t2 * n \in Nat /\ (t2 = 0 => t2 * n = 0) /\ t1 * 1 = t1
  BY Products
<1>11. average \in Extended /\ (t2 = 0 => average[2] = 0) /\ (t1 = 0 /\ t2 = 0 => IsNaN(average))
  BY <1>9, <1>10 DEF Extended, IsNaN
<1>12. (closes[i][2] = 0 => t2 = 0) /\ (IsNaN(closes[i]) => t1 = 0 /\ t2 = 0)
  BY <1>4, <1>6, <1>8, Added DEF IsNaN
<1> QED
  BY <1>11, <1>12

Closings == {a \in Extended : a[1] > 0 \/ a[2] = 0}   \* above zero, Inf or NaN

(* What is bought has a finite price; what is sold has one above zero.     *)
LEMMA PricesWhenCrossing ==
  ASSUME NEW closes \in Seq(Closings), NEW i \in 1..Len(closes)
  PROVE  /\ Bullish(closes, i) => closes[i][2] > 0
         /\ Bearish(closes, i) => closes[i][1] > 0
<1>1. closes \in Seq(Extended) /\ closes[i] \in Extended /\ (closes[i][1] > 0 \/ closes[i][2] = 0)
  <2>1. closes[i] \in Closings /\ \A k \in 1..Len(closes) : closes[k] \in Closings
    OBVIOUS
  <2>2. \A k \in 1..Len(closes) : closes[k] \in Extended
    BY <2>1 DEF Closings
  <2> QED
    BY <2>1, <2>2 DEF Closings
<1>2. PICK long, short :
        long = Window(closes, i, LongWindow) /\ short = Window(closes, i, ShortWindow)
  OBVIOUS
<1>3. LongWindow \in Nat \ {0} /\ ShortWindow \in Nat \ {0}
  BY WindowAssumption
<1>4. /\ long \in Extended /\ short \in Extended
      /\ closes[i][2] = 0 => long[2] = 0
      /\ IsNaN(closes[i]) => IsNaN(long)
  BY <1>1, <1>2, <1>3, WindowIs
<1>5. /\ long[1] \in Nat /\ long[2] \in Nat /\ short[1] \in Nat /\ short[2] \in Nat
      /\ closes[i][1] \in Nat /\ closes[i][2] \in Nat
  BY <1>1, <1>4, RatioIs
<1>6. ASSUME Bullish(closes, i) PROVE closes[i][2] > 0
  <2>1. long[1] * short[2] < short[1] * long[2]
    BY <1>2, <1>6 DEF Bullish, Less
  <2>2. PICK l1 \in Nat, l2 \in Nat, s1 \in Nat, s2 \in Nat :
          l1 = long[1] /\ l2 = long[2] /\ s1 = short[1] /\ s2 = short[2]
    BY <1>5
  <2>3. l1 * s2 \in Nat /\ (l2 = 0 => s1 * l2 = 0) /\ l1 * s2 < s1 * l2
    BY <2>1, <2>2, Products
  <2>4. l2 # 0
    BY <2>3
  <2> QED
    BY <1>4, <1>5, <2>2, <2>4
<1>7. ASSUME Bearish(closes, i) PROVE closes[i][1] > 0
  <2>1. ~IsNaN(long)
    BY <1>2, <1>7 DEF Bearish
  <2>2. ~IsNaN(closes[i])
    BY <1>4, <2>1
  <2> QED
    BY <1>1, <1>5, <2>2 DEF IsNaN
<1> QED
  BY <1>6, <1>7

CrossStates == [cash : Extended, btc : Extended, trades : Nat, equity : Seq(Extended)]

(* A day in and out of the market.                                         *)
Crossed(acc, new, invested, position, price) ==
  /\ new.equity = Append(acc.equity, Plus(new.cash, Times(new.btc, price)))
  /\ invested = position =>
       /\ new.cash = acc.cash /\ new.btc = acc.btc /\ new.trades = acc.trades
  /\ ~invested /\ position =>
       /\ new.cash = Frac(0, 1) /\ new.btc = Over(acc.cash, price)
       /\ new.trades = acc.trades + 1
  /\ invested /\ ~position =>
       /\ new.cash = Times(acc.btc, price) /\ new.btc = Frac(0, 1)
       /\ new.trades = acc.trades + 1

LEMMA CrossIs ==
  ASSUME NEW closes \in Seq(Extended), NEW i \in 1..Len(closes), NEW acc \in CrossStates,
         NEW new, new = CrossDay(closes, acc, i),
         NEW invested \in BOOLEAN, invested <=> acc.btc[1] > 0,
         NEW position \in BOOLEAN, position <=> Position(closes, i, acc.btc[1] > 0)
  PROVE  new \in CrossStates /\ Crossed(acc, new, invested, position, closes[i])
<1>1. PICK price \in Extended : price = closes[i]
  OBVIOUS
<1>2. /\ acc.cash \in Extended /\ acc.btc \in Extended /\ acc.trades \in Nat
      /\ acc.equity \in Seq(Extended)
  BY DEF CrossStates
<1>3. /\ Over(acc.cash, price) \in Extended /\ Times(acc.btc, price) \in Extended
      /\ Frac(0, 1) \in Extended
  <2>1. Over(acc.cash, price) \in Extended /\ Times(acc.btc, price) \in Extended
    BY <1>2, RatioClosed
  <2>2. Frac(0, 1) \in Extended
    BY RatioIs
  <2> QED
    BY <2>1, <2>2
<1> DEFINE cash == IF invested /\ ~position THEN Times(acc.btc, price)
                   ELSE IF ~invested /\ position THEN Frac(0, 1) ELSE acc.cash
           btc == IF ~invested /\ position THEN Over(acc.cash, price)
                  ELSE IF invested /\ ~position THEN Frac(0, 1) ELSE acc.btc
           trades == acc.trades + (IF (~invested /\ position) \/ (invested /\ ~position) THEN 1 ELSE 0)
           value == Plus(cash, Times(btc, price))
<1>4. new = [cash |-> cash, btc |-> btc, trades |-> trades, equity |-> Append(acc.equity, value)]
  BY <1>1 DEF CrossDay
<1>5. cash \in Extended /\ btc \in Extended /\ trades \in Nat
  BY <1>2, <1>3
<1>6. Times(btc, price) \in Extended
  BY <1>1, <1>5, RatioClosed
<1>7. value \in Extended
  BY <1>5, <1>6, Added
<1>8. new \in CrossStates
  <2> HIDE DEF cash, btc, trades, value
  <2> QED
    BY <1>2, <1>4, <1>5, <1>7 DEF CrossStates
<1>9. new.cash = cash /\ new.btc = btc /\ new.trades = trades /\ new.equity = Append(acc.equity, value)
  BY <1>4
<1>10. /\ invested = position => cash = acc.cash /\ btc = acc.btc /\ trades = acc.trades
       /\ ~invested /\ position =>
            cash = Frac(0, 1) /\ btc = Over(acc.cash, price) /\ trades = acc.trades + 1
       /\ invested /\ ~position =>
            cash = Times(acc.btc, price) /\ btc = Frac(0, 1) /\ trades = acc.trades + 1
  BY <1>2
<1>11. value = Plus(new.cash, Times(new.btc, price))
  BY <1>9
<1> HIDE DEF cash, btc, trades, value
<1> QED
  BY <1>1, <1>8, <1>9, <1>10, <1>11 DEF Crossed

LEMMA CrossoverIs ==
  ASSUME NEW closes \in Seq(Extended), NEW day, day = Crossover(closes)
  PROVE  /\ day \in [0..Len(closes) -> CrossStates]
         /\ day[0] = [cash |-> Frac(1, 1), btc |-> Frac(0, 1), trades |-> 0, equity |-> <<>>]
         /\ \A i \in 1..Len(closes) : day[i] = CrossDay(closes, day[i - 1], i)
<1> DEFINE base == [cash |-> Frac(1, 1), btc |-> Frac(0, 1), trades |-> 0, equity |-> <<>>]
           step == [i \in 1..Len(closes) |-> [acc \in CrossStates |-> CrossDay(closes, acc, i)]]
<1>1. Len(closes) \in Nat
  OBVIOUS
<1>2. base \in CrossStates
  <2>1. Frac(1, 1) \in Extended /\ Frac(0, 1) \in Extended
    BY RatioIs
  <2> QED
    BY <2>1 DEF CrossStates
<1>3. \A i \in 1..Len(closes), acc \in CrossStates : CrossDay(closes, acc, i) \in CrossStates
  <2> TAKE i \in 1..Len(closes), acc \in CrossStates
  <2>1. PICK invested \in BOOLEAN : invested <=> acc.btc[1] > 0
    OBVIOUS
  <2>2. PICK position \in BOOLEAN : position <=> Position(closes, i, acc.btc[1] > 0)
    OBVIOUS
  <2> QED
    BY <2>1, <2>2, CrossIs
<1>4. step \in [1..Len(closes) -> [CrossStates -> CrossStates]]
  BY <1>3
<1> HIDE DEF base, step
<1>5. PICK run \in [0..Len(closes) -> CrossStates] : IsLoop(run, Len(closes), base, step)
  BY <1>1, <1>2, <1>4, Loop
<1>6. run = [i \in 0..Len(closes) |-> IF i = 0 THEN base ELSE CrossDay(closes, run[i - 1], i)]
  <2>1. ASSUME NEW i \in 0..Len(closes), i # 0
        PROVE  step[i][run[i - 1]] = CrossDay(closes, run[i - 1], i)
    <3>1. i \in 1..Len(closes) /\ i - 1 \in 0..Len(closes)
      BY <1>1, <2>1
    <3>2. run[i - 1] \in CrossStates
      BY <3>1
    <3> QED
      BY <3>1, <3>2 DEF step
  <2> QED
    BY <1>5, <2>1 DEF IsLoop
<1>7. day = [i \in 0..Len(closes) |-> IF i = 0 THEN base ELSE CrossDay(closes, day[i - 1], i)]
  BY <1>6 DEF Crossover, base
<1>8. \A i \in 0..Len(closes) : day[i] = IF i = 0 THEN base ELSE CrossDay(closes, day[i - 1], i)
  BY <1>7
<1>9. \A i \in 0..Len(closes) : day[i] \in CrossStates
  <2> DEFINE Good == {i \in 0..Len(closes) : day[i] \in CrossStates}
  <2>1. 0 \in Good
    BY <1>1, <1>2, <1>8
  <2>2. ASSUME NEW i \in 1..Len(closes), i - 1 \in Good PROVE i \in Good
    BY <1>1, <1>3, <1>8, <2>2
  <2> HIDE DEF Good
  <2>3. \A i \in 0..Len(closes) : i \in Good
    BY <1>1, <2>1, <2>2, Throughout
  <2> QED
    BY <2>3 DEF Good
<1>10. day \in [0..Len(closes) -> CrossStates]
  <2>1. day = [i \in 0..Len(closes) |-> day[i]]
    BY <1>7
  <2> QED
    BY <1>9, <2>1
<1>11. day[0] = [cash |-> Frac(1, 1), btc |-> Frac(0, 1), trades |-> 0, equity |-> <<>>]
  BY <1>1, <1>8 DEF base
<1>12. \A i \in 1..Len(closes) : day[i] = CrossDay(closes, day[i - 1], i)
  BY <1>1, <1>8
<1> QED
  BY <1>10, <1>11, <1>12

(* The loop is in the market when the averages say so.                     *)
LEMMA PositionIs ==
  ASSUME NEW closes, NEW i \in Nat \ {0}, NEW acc, acc.btc[1] > 0 <=> Holds(closes, i - 1)
  PROVE  Position(closes, i, acc.btc[1] > 0) <=> Holds(closes, i)
<1>1. Bullish(closes, i) => Holds(closes, i)
  <2>1. i \in 1..i /\ \A k \in (i + 1)..i : FALSE
    OBVIOUS
  <2> QED
    BY <2>1 DEF Holds
<1>2. Holds(closes, i - 1) /\ ~Bearish(closes, i) => Holds(closes, i)
  <2> SUFFICES ASSUME Holds(closes, i - 1), ~Bearish(closes, i) PROVE Holds(closes, i)
    OBVIOUS
  <2>1. PICK j \in 1..(i - 1) : Bullish(closes, j) /\ \A k \in (j + 1)..(i - 1) : ~Bearish(closes, k)
    BY DEF Holds
  <2>2. j \in 1..i /\ \A k \in (j + 1)..i : k = i \/ k \in (j + 1)..(i - 1)
    OBVIOUS
  <2> QED
    BY <2>1, <2>2 DEF Holds
<1>3. Holds(closes, i) => Bullish(closes, i) \/ (Holds(closes, i - 1) /\ ~Bearish(closes, i))
  <2> SUFFICES ASSUME Holds(closes, i), ~Bullish(closes, i)
               PROVE  Holds(closes, i - 1) /\ ~Bearish(closes, i)
    OBVIOUS
  <2>1. PICK j \in 1..i : Bullish(closes, j) /\ \A k \in (j + 1)..i : ~Bearish(closes, k)
    BY DEF Holds
  <2>2. j # i
    BY <2>1
  <2>3. j \in 1..(i - 1) /\ i \in (j + 1)..i /\ \A k \in (j + 1)..(i - 1) : k \in (j + 1)..i
    BY <2>2
  <2> QED
    BY <2>1, <2>3 DEF Holds
<1> QED
  BY <1>1, <1>2, <1>3 DEF Position

Switches(closes, i) == Holds(closes, i) # (i > 1 /\ Holds(closes, i - 1))
Switched(closes, k) == {i \in 1..k : Switches(closes, i)}

LEMMA HoldsNothing ==
  ASSUME NEW closes PROVE ~Holds(closes, 0)
  BY DEF Holds

LEMMA SwitchesIs ==
  ASSUME NEW closes, NEW k \in Nat \ {0}
  PROVE  Switches(closes, k) <=> ~(Holds(closes, k) <=> Holds(closes, k - 1))
<1>1. CASE k > 1
  <2>1. Holds(closes, k) \in BOOLEAN /\ Holds(closes, k - 1) \in BOOLEAN
    BY DEF Holds
  <2>2. (k > 1 /\ Holds(closes, k - 1)) = Holds(closes, k - 1)
    BY <1>1, <2>1
  <2> QED
    BY <2>1, <2>2 DEF Switches
<1>2. CASE k = 1
  <2>1. ~Holds(closes, k - 1)
    BY <1>2, HoldsNothing
  <2>2. Holds(closes, k) \in BOOLEAN /\ (k > 1 /\ Holds(closes, k - 1)) = FALSE
    BY <1>2 DEF Holds
  <2> QED
    BY <2>1, <2>2 DEF Switches
<1> QED
  BY <1>1, <1>2

LEMMA SwitchedIs ==
  ASSUME NEW closes
  PROVE  /\ Cardinality(Switched(closes, 0)) = 0
         /\ \A k \in Nat \ {0} :
              /\ Cardinality(Switched(closes, k - 1)) \in Nat
              /\ Cardinality(Switched(closes, k)) =
                   IF Holds(closes, k) <=> Holds(closes, k - 1)
                   THEN Cardinality(Switched(closes, k - 1))
                   ELSE Cardinality(Switched(closes, k - 1)) + 1
<1>1. Switched(closes, 0) = {}
  BY DEF Switched
<1>2. ASSUME NEW k \in Nat \ {0}
      PROVE  /\ IsFiniteSet(Switched(closes, k - 1)) /\ k \notin Switched(closes, k - 1)
             /\ Switches(closes, k) => Switched(closes, k) = Switched(closes, k - 1) \cup {k}
             /\ ~Switches(closes, k) => Switched(closes, k) = Switched(closes, k - 1)
  <2>1. IsFiniteSet(1..(k - 1))
    BY FS_Interval
  <2>2. IsFiniteSet(Switched(closes, k - 1))
    BY <2>1, FS_Subset DEF Switched
  <2>3. k \notin Switched(closes, k - 1)
    BY DEF Switched
  <2>4. \A i : i \in Switched(closes, k) <=>
                 i \in Switched(closes, k - 1) \/ (i = k /\ Switches(closes, k))
    <3>1. \A i : i \in 1..k <=> i \in 1..(k - 1) \/ i = k
      OBVIOUS
    <3> QED
      BY <3>1 DEF Switched
  <2> QED
    BY <2>2, <2>3, <2>4
<1>3. ASSUME NEW k \in Nat \ {0}
      PROVE  /\ Cardinality(Switched(closes, k - 1)) \in Nat
             /\ Switches(closes, k) =>
                  Cardinality(Switched(closes, k)) = Cardinality(Switched(closes, k - 1)) + 1
             /\ ~Switches(closes, k) =>
                  Cardinality(Switched(closes, k)) = Cardinality(Switched(closes, k - 1))
  <2> DEFINE old == Switched(closes, k - 1)
  <2>1. IsFiniteSet(old) /\ k \notin old
    BY <1>2
  <2>2. Cardinality(old) \in Nat
    BY <2>1, FS_CardinalityType
  <2>3. Cardinality(old \cup {k}) = Cardinality(old) + 1
    BY <2>1, FS_AddElement
  <2> QED
    BY <1>2, <2>2, <2>3
<1> QED
  BY <1>1, <1>3, SwitchesIs, FS_EmptySet

(* After day k the strategy is all in the market or all out of it, after   *)
(* as many trades as there were changes.                                   *)
TradedBy(closes, acc, k) ==
  /\ acc.btc[1] > 0 <=> Holds(closes, k)
  /\ ~Holds(closes, k) => acc.cash[1] > 0
  /\ acc.trades = Cardinality(Switched(closes, k))

LEMMA TradeKeeps ==
  ASSUME NEW closes \in Seq(Closings), NEW k \in 1..Len(closes),
         NEW acc \in CrossStates, NEW new, new = CrossDay(closes, acc, k),
         TradedBy(closes, acc, k - 1)
  PROVE  TradedBy(closes, new, k)
<1>1. closes \in Seq(Extended) /\ k \in Nat \ {0}
  <2>1. \A i \in 1..Len(closes) : closes[i] \in Extended
    <3>1. \A i \in 1..Len(closes) : closes[i] \in Closings
      OBVIOUS
    <3> QED
      BY <3>1 DEF Closings
  <2> QED
    BY <2>1
<1>2. PICK price \in Extended : price = closes[k]
  BY <1>1
<1>3. PICK invested \in BOOLEAN : invested <=> acc.btc[1] > 0
  OBVIOUS
<1>4. PICK position \in BOOLEAN : position <=> Position(closes, k, acc.btc[1] > 0)
  OBVIOUS
<1>5. (invested <=> Holds(closes, k - 1)) /\ (position <=> Holds(closes, k))
  <2>1. acc.btc[1] > 0 <=> Holds(closes, k - 1)
    BY DEF TradedBy
  <2>2. Position(closes, k, acc.btc[1] > 0) <=> Holds(closes, k)
    BY <1>1, <2>1, PositionIs
  <2> QED
    BY <1>3, <1>4, <2>1, <2>2
<1>6. new \in CrossStates /\ Crossed(acc, new, invested, position, price)
  BY <1>1, <1>2, <1>3, <1>4, CrossIs
<1>7. /\ ~invested /\ position => price[2] > 0
      /\ invested /\ ~position => price[1] > 0
  <2>1. /\ Bullish(closes, k) => price[2] > 0
        /\ Bearish(closes, k) => price[1] > 0
    BY <1>2, PricesWhenCrossing
  <2>2. position <=> Bullish(closes, k) \/ (invested /\ ~Bearish(closes, k))
    BY <1>3, <1>4 DEF Position
  <2> QED
    BY <2>1, <2>2
<1>8. PICK b1 \in Nat, c1 \in Nat, p1 \in Nat, p2 \in Nat :
        b1 = acc.btc[1] /\ c1 = acc.cash[1] /\ p1 = price[1] /\ p2 = price[2]
  <2>1. acc.btc \in Extended /\ acc.cash \in Extended
    BY DEF CrossStates
  <2> QED
    BY <2>1, RatioIs
<1>9. ~invested => c1 > 0 /\ b1 = 0
  BY <1>3, <1>5, <1>8 DEF TradedBy
<1>10. invested => b1 > 0
  BY <1>3, <1>8
<1>11. /\ position => new.btc[1] > 0
       /\ ~position => ~(new.btc[1] > 0) /\ new.cash[1] > 0
  <2>1. CASE invested = position
    BY <1>6, <1>8, <1>9, <1>10, <2>1 DEF Crossed
  <2>2. CASE ~invested /\ position
    <3>1. new.btc = Over(acc.cash, price)
      BY <1>6, <2>2 DEF Crossed
    <3>2. new.btc[1] = c1 * p2
      BY <1>8, <3>1 DEF Over
    <3> QED
      BY <1>7, <1>8, <1>9, <2>2, <3>2, Products
  <2>3. CASE invested /\ ~position
    <3>1. new.cash = Times(acc.btc, price) /\ new.btc = Frac(0, 1)
      BY <1>6, <2>3 DEF Crossed
    <3>2. new.cash[1] = b1 * p1 /\ new.btc[1] = 0
      BY <1>8, <3>1 DEF Times, Frac
    <3> QED
      BY <1>7, <1>8, <1>10, <2>3, <3>2, Products
  <2> QED
    BY <2>1, <2>2, <2>3
<1>12. new.trades = Cardinality(Switched(closes, k))
  <2>1. acc.trades \in Nat /\ acc.trades = Cardinality(Switched(closes, k - 1))
    BY DEF CrossStates, TradedBy
  <2>2. /\ invested = position => Cardinality(Switched(closes, k)) = acc.trades
        /\ invested # position => Cardinality(Switched(closes, k)) = acc.trades + 1
    BY <1>1, <1>5, <2>1, SwitchedIs
  <2> QED
    BY <1>6, <2>1, <2>2 DEF Crossed
<1> QED
  BY <1>5, <1>11, <1>12 DEF TradedBy

(* The loop of the moving-average baseline trades whenever the averages    *)
(* cross, and never otherwise, whatever NaN or Inf lies between            *)
(* (compute_btc_baseline_backtests).                                       *)
THEOREM CrossoverTrades ==
  ASSUME NEW closes \in Seq(Closings), NEW cross, cross = Crossover(closes)[Len(closes)]
  PROVE  cross.trades = Changes(closes)
<1>1. PICK day : day = Crossover(closes)
  OBVIOUS
<1>2. closes \in Seq(Extended) /\ Len(closes) \in Nat /\ DOMAIN closes = 1..Len(closes)
  <2>1. \A i \in 1..Len(closes) : closes[i] \in Closings
    OBVIOUS
  <2>2. \A i \in 1..Len(closes) : closes[i] \in Extended
    BY <2>1 DEF Closings
  <2> QED
    BY <2>2
<1>3. /\ \A i \in 0..Len(closes) : day[i] \in CrossStates
      /\ day[0] = [cash |-> Frac(1, 1), btc |-> Frac(0, 1), trades |-> 0, equity |-> <<>>]
      /\ \A i \in 1..Len(closes) : day[i] = CrossDay(closes, day[i - 1], i)
  BY <1>1, <1>2, CrossoverIs
<1> DEFINE Good == {k \in 0..Len(closes) : TradedBy(closes, day[k], k)}
<1>4. 0 \in Good
  <2>1. day[0].btc = Frac(0, 1) /\ day[0].cash = Frac(1, 1) /\ day[0].trades = 0
    BY <1>3
  <2>2. day[0].btc[1] = 0 /\ day[0].cash[1] = 1
    BY <2>1 DEF Frac
  <2> QED
    BY <1>2, <2>1, <2>2, HoldsNothing, SwitchedIs DEF TradedBy
<1>5. ASSUME NEW k \in 1..Len(closes), k - 1 \in Good PROVE k \in Good
  <2>1. k - 1 \in 0..Len(closes) /\ k \in 0..Len(closes)
    BY <1>2
  <2>2. day[k - 1] \in CrossStates /\ day[k] = CrossDay(closes, day[k - 1], k)
    BY <1>3, <2>1
  <2>3. TradedBy(closes, day[k - 1], k - 1)
    BY <1>5
  <2>4. TradedBy(closes, day[k], k)
    BY <2>2, <2>3, TradeKeeps
  <2> QED
    BY <2>1, <2>4
<1> HIDE DEF Good
<1>6. \A k \in 0..Len(closes) : k \in Good
  BY <1>2, <1>4, <1>5, Throughout
<1>7. TradedBy(closes, cross, Len(closes))
  <2>1. Len(closes) \in Good
    BY <1>2, <1>6
  <2> QED
    BY <1>1, <2>1 DEF Good
<1>8. Changes(closes) = Cardinality(Switched(closes, Len(closes)))
  BY <1>2 DEF Changes, Switched, Switches
<1> QED
  BY <1>7, <1>8 DEF TradedBy

LEMMA GrowthIs ==
  ASSUME NEW closes \in Seq(Ratios), NEW grown, grown = Growth(closes)
  PROVE  /\ grown \in [0..Len(closes) -> Ratios]
         /\ grown[0] = Frac(1, 1)
         /\ \A i \in 1..Len(closes) : /\ grown[i] = Times(grown[i - 1], Night(closes, i))
                                      /\ Night(closes, i) \in Ratios
<1> DEFINE base == Frac(1, 1)
           step == [i \in 1..Len(closes) |-> [acc \in Ratios |-> Times(acc, Night(closes, i))]]
<1>1. Len(closes) \in Nat
  OBVIOUS
<1>2. base \in Ratios
  BY RatioIs
<1>3. \A i \in 1..Len(closes) : Night(closes, i) \in Ratios
  <2> TAKE i \in 1..Len(closes)
  <2>1. CASE i > 1
    <3>1. closes[i] \in Ratios /\ closes[i - 1] \in Ratios
      BY <2>1
    <3>2. Over(closes[i], closes[i - 1]) \in Ratios
      BY <3>1, RatioClosed
    <3> QED
      BY <1>2, <3>2 DEF Night
  <2>2. CASE ~(i > 1)
    BY <1>2, <2>2 DEF Night
  <2> QED
    BY <2>1, <2>2
<1>4. step \in [1..Len(closes) -> [Ratios -> Ratios]]
  BY <1>3, RatioClosed
<1> HIDE DEF base, step
<1>5. PICK run \in [0..Len(closes) -> Ratios] : IsLoop(run, Len(closes), base, step)
  BY <1>1, <1>2, <1>4, Loop
<1>6. run = [i \in 0..Len(closes) |-> IF i = 0 THEN base ELSE Times(run[i - 1], Night(closes, i))]
  <2>1. ASSUME NEW i \in 0..Len(closes), i # 0
        PROVE  step[i][run[i - 1]] = Times(run[i - 1], Night(closes, i))
    <3>1. i \in 1..Len(closes) /\ i - 1 \in 0..Len(closes)
      BY <1>1, <2>1
    <3>2. run[i - 1] \in Ratios
      BY <3>1
    <3> QED
      BY <3>1, <3>2 DEF step
  <2> QED
    BY <1>5, <2>1 DEF IsLoop
<1>7. grown = [i \in 0..Len(closes) |-> IF i = 0 THEN base ELSE Times(grown[i - 1], Night(closes, i))]
  BY <1>6 DEF Growth, base
<1>8. \A i \in 0..Len(closes) : grown[i] = IF i = 0 THEN base ELSE Times(grown[i - 1], Night(closes, i))
  BY <1>7
<1>9. \A i \in 0..Len(closes) : grown[i] \in Ratios
  <2> DEFINE Good == {i \in 0..Len(closes) : grown[i] \in Ratios}
  <2>1. 0 \in Good
    BY <1>1, <1>2, <1>8
  <2>2. ASSUME NEW i \in 1..Len(closes), i - 1 \in Good PROVE i \in Good
    BY <1>1, <1>3, <1>8, <2>2, RatioClosed
  <2> HIDE DEF Good
  <2>3. \A i \in 0..Len(closes) : i \in Good
    BY <1>1, <2>1, <2>2, Throughout
  <2> QED
    BY <2>3 DEF Good
<1>10. grown \in [0..Len(closes) -> Ratios]
  <2>1. grown = [i \in 0..Len(closes) |-> grown[i]]
    BY <1>7
  <2> QED
    BY <1>9, <2>1
<1>11. grown[0] = Frac(1, 1)
  BY <1>1, <1>8 DEF base
<1>12. \A i \in 1..Len(closes) : grown[i] = Times(grown[i - 1], Night(closes, i))
  BY <1>1, <1>8
<1> QED
  BY <1>3, <1>10, <1>11, <1>12

(* A holding is worth its part of the price; buying and selling cost       *)
(* nothing.                                                                *)
LEMMA HeldOvernight ==
  ASSUME NEW btc \in Shares, NEW grown \in Shares, NEW before \in Ratios, NEW now \in Ratios,
         Same(Times(btc, before), grown)
  PROVE  Same(Times(btc, now), Times(grown, Over(now, before)))
<1>1. PICK b1 \in Nat, b2 \in Nat, g1 \in Nat, g2 \in Nat,
           p1 \in Nat, p2 \in Nat, q1 \in Nat, q2 \in Nat :
        /\ b1 = btc[1] /\ b2 = btc[2] /\ g1 = grown[1] /\ g2 = grown[2]
        /\ p1 = before[1] /\ p2 = before[2] /\ q1 = now[1] /\ q2 = now[2]
  <2>1. /\ btc[1] \in Nat /\ btc[2] \in Nat /\ grown[1] \in Nat /\ grown[2] \in Nat
        /\ before[1] \in Nat /\ before[2] \in Nat /\ now[1] \in Nat /\ now[2] \in Nat
    BY RatioIs
  <2> QED
    BY <2>1
<1>2. (b1 * p1) * g2 = g1 * (b2 * p2)
  BY <1>1 DEF Same, Times
<1>3. (b1 * q1) * (g2 * (q2 * p1)) = (g1 * (q1 * p2)) * (b2 * q2)
  <2>1. (b1 * q1) * (g2 * (q2 * p1)) = (q1 * q2) * ((b1 * p1) * g2)
    OBVIOUS
  <2>2. (g1 * (q1 * p2)) * (b2 * q2) = (q1 * q2) * (g1 * (b2 * p2))
    OBVIOUS
  <2> QED
    BY <1>2, <2>1, <2>2
<1> QED
  BY <1>1, <1>3 DEF Same, Times, Over

LEMMA KeptOvernight ==
  ASSUME NEW cash \in Shares, NEW grown \in Shares, Same(cash, grown)
  PROVE  Same(cash, Times(grown, Frac(1, 1)))
<1>1. PICK c1 \in Nat, c2 \in Nat, g1 \in Nat, g2 \in Nat :
        c1 = cash[1] /\ c2 = cash[2] /\ g1 = grown[1] /\ g2 = grown[2]
  BY RatioIs
<1>2. c1 * g2 = g1 * c2
  BY <1>1 DEF Same
<1>3. c1 * (g2 * 1) = (g1 * 1) * c2
  BY <1>2
<1> QED
  BY <1>1, <1>3 DEF Same, Times, Frac

LEMMA Bought ==
  ASSUME NEW cash \in Shares, NEW price \in Ratios
  PROVE  Same(Times(Over(cash, price), price), cash)
<1>1. PICK c1 \in Nat, c2 \in Nat, p1 \in Nat, p2 \in Nat :
        c1 = cash[1] /\ c2 = cash[2] /\ p1 = price[1] /\ p2 = price[2]
  BY RatioIs
<1>2. ((c1 * p2) * p1) * c2 = c1 * ((c2 * p1) * p2)
  OBVIOUS
<1> QED
  BY <1>1, <1>2 DEF Same, Times, Over

(* Nothing in cash, or nothing in the market, counts for nothing.          *)
LEMMA AllInOrOut ==
  ASSUME NEW held \in Shares, NEW price \in Ratios, NEW grown \in Ratios, Same(held, grown)
  PROVE  /\ Plus(Frac(0, 1), held) \in Ratios /\ Same(Plus(Frac(0, 1), held), grown)
         /\ Plus(held, Times(Frac(0, 1), price)) \in Ratios
         /\ Same(Plus(held, Times(Frac(0, 1), price)), grown)
<1>1. PICK h1 \in Nat, h2 \in Nat, p1 \in Nat, p2 \in Nat, g1 \in Nat, g2 \in Nat :
        /\ h1 = held[1] /\ h2 = held[2] /\ p1 = price[1] /\ p2 = price[2]
        /\ g1 = grown[1] /\ g2 = grown[2] /\ h2 > 0 /\ p1 > 0 /\ p2 > 0 /\ g1 > 0 /\ g2 > 0
  <2>1. /\ held[1] \in Nat /\ held[2] \in Nat /\ price[1] \in Nat /\ price[2] \in Nat
        /\ grown[1] \in Nat /\ grown[2] \in Nat
        /\ held[2] > 0 /\ price[1] > 0 /\ price[2] > 0 /\ grown[1] > 0 /\ grown[2] > 0
    BY RatioIs
  <2> QED
    BY <2>1
<1>2. h1 * g2 = g1 * h2
  BY <1>1 DEF Same
<1>3. h1 > 0
  <2>1. g1 * h2 > 0
    BY <1>1, Products
  <2> QED
    BY <1>2, <2>1
<1>4. 0 * h2 + h1 * 1 = h1 /\ 1 * h2 = h2 /\ 0 * p1 = 0 /\ 1 * p2 = p2 /\ 0 * h2 = 0
  OBVIOUS
<1>5. Plus(Frac(0, 1), held) = <<h1, h2>>
  BY <1>1, <1>4 DEF Plus, Frac
<1>6. Times(Frac(0, 1), price) = <<0, p2>>
  BY <1>1, <1>4 DEF Times, Frac
<1>7. Plus(held, <<0, p2>>) = <<h1 * p2 + 0 * h2, h2 * p2>>
  BY <1>1 DEF Plus
<1>8. PICK n \in Nat, d \in Nat : n = h1 * p2 /\ d = h2 * p2 /\ n > 0 /\ d > 0
  BY <1>1, <1>3, Products
<1>9. n * g2 = g1 * d
  <2>1. n * g2 = p2 * (h1 * g2)
    BY <1>8
  <2>2. g1 * d = p2 * (g1 * h2)
    BY <1>8
  <2> QED
    BY <1>2, <2>1, <2>2
<1>10. Plus(held, Times(Frac(0, 1), price)) = <<n, d>>
  <2>1. h1 * p2 + 0 * h2 = n
    BY <1>8
  <2> QED
    BY <1>6, <1>7, <1>8, <2>1
<1>11. <<h1, h2>> \in Ratios /\ <<n, d>> \in Ratios
  BY <1>1, <1>3, <1>8 DEF Ratios
<1>12. Same(<<h1, h2>>, grown) /\ Same(<<n, d>>, grown)
  BY <1>1, <1>2, <1>9 DEF Same
<1> QED
  BY <1>5, <1>10, <1>11, <1>12

(* After day k the strategy is worth what the nights in the market made.   *)
AtDay(closes, acc, growth, k) ==
  /\ TradedBy(closes, acc, k)
  /\ acc.cash \in Shares /\ acc.btc \in Shares
  /\ Holds(closes, k) =>
       k \in DOMAIN closes /\ acc.cash = Frac(0, 1) /\ Same(Times(acc.btc, closes[k]), growth[k])
  /\ ~Holds(closes, k) => acc.btc = Frac(0, 1) /\ Same(acc.cash, growth[k])
  /\ acc.equity \in Seq(Ratios) /\ Len(acc.equity) = k
  /\ \A i \in 1..k : Same(acc.equity[i], growth[i])

LEMMA DayKeeps ==
  ASSUME NEW closes \in Seq(Ratios), NEW k \in 1..Len(closes),
         NEW acc \in CrossStates, NEW new, new = CrossDay(closes, acc, k),
         NEW growth, NEW before \in Ratios, before = growth[k - 1],
         NEW grown, grown = growth[k], grown = Times(before, Night(closes, k)),
         AtDay(closes, acc, growth, k - 1)
  PROVE  AtDay(closes, new, growth, k)
<1>1. /\ closes \in Seq(Extended) /\ closes \in Seq(Closings)
      /\ k \in Nat \ {0} /\ k \in DOMAIN closes /\ before \in Shares
  <2>1. \A i \in 1..Len(closes) : closes[i] \in Ratios
    OBVIOUS
  <2>2. \A i \in 1..Len(closes) : closes[i] \in Extended /\ closes[i] \in Closings
    BY <2>1, RatioIs DEF Closings
  <2>3. closes \in Seq(Extended) /\ closes \in Seq(Closings)
    BY <2>2
  <2>4. before \in Shares
    BY RatioIs
  <2> QED
    BY <2>3, <2>4
<1>2. PICK price \in Ratios : price = closes[k]
  BY <1>1
<1>3. PICK invested \in BOOLEAN : invested <=> acc.btc[1] > 0
  OBVIOUS
<1>4. PICK position \in BOOLEAN : position <=> Position(closes, k, acc.btc[1] > 0)
  OBVIOUS
<1>5. (invested <=> Holds(closes, k - 1)) /\ (position <=> Holds(closes, k))
  <2>1. acc.btc[1] > 0 <=> Holds(closes, k - 1)
    BY DEF AtDay, TradedBy
  <2>2. Position(closes, k, acc.btc[1] > 0) <=> Holds(closes, k)
    BY <1>1, <2>1, PositionIs
  <2> QED
    BY <1>3, <1>4, <2>1, <2>2
<1>6. new \in CrossStates /\ Crossed(acc, new, invested, position, price)
  BY <1>1, <1>2, <1>3, <1>4, CrossIs
<1>7. acc.cash \in Shares /\ acc.btc \in Shares /\ Frac(0, 1) \in Shares /\ price \in Shares
  BY RatioIs DEF AtDay
<1>8. grown \in Ratios /\ grown \in Shares
  <2>1. Night(closes, k) \in Ratios
    BY GrowthIs
  <2>2. grown \in Ratios
    BY <2>1, RatioClosed
  <2> QED
    BY <2>2, RatioIs
<1>9. TradedBy(closes, new, k)
  BY <1>1, TradeKeeps DEF AtDay
<1>10. invested => acc.cash = Frac(0, 1) /\ Same(Times(acc.btc, price), grown)
  <2> SUFFICES ASSUME invested PROVE acc.cash = Frac(0, 1) /\ Same(Times(acc.btc, price), grown)
    OBVIOUS
  <2>1. /\ k - 1 \in DOMAIN closes /\ acc.cash = Frac(0, 1)
        /\ Same(Times(acc.btc, closes[k - 1]), before)
    BY <1>5 DEF AtDay
  <2>2. closes[k - 1] \in Ratios /\ k > 1
    BY <1>1, <2>1
  <2>3. grown = Times(before, Over(price, closes[k - 1]))
    BY <1>2, <1>5, <2>2 DEF Night
  <2> QED
    BY <1>1, <1>7, <2>1, <2>2, <2>3, HeldOvernight
<1>11. ~invested => acc.btc = Frac(0, 1) /\ Same(acc.cash, grown)
  <2> SUFFICES ASSUME ~invested PROVE acc.btc = Frac(0, 1) /\ Same(acc.cash, grown)
    OBVIOUS
  <2>1. acc.btc = Frac(0, 1) /\ Same(acc.cash, before)
    BY <1>5 DEF AtDay
  <2>2. grown = Times(before, Frac(1, 1))
    BY <1>5 DEF Night
  <2> QED
    BY <1>1, <1>7, <2>1, <2>2, KeptOvernight
<1> DEFINE value == Plus(new.cash, Times(new.btc, price))
           InOrOut ==
             /\ new.cash \in Shares /\ new.btc \in Shares
             /\ position => new.cash = Frac(0, 1) /\ Same(Times(new.btc, price), grown)
             /\ ~position => new.btc = Frac(0, 1) /\ Same(new.cash, grown)
<1>12. InOrOut
  <2>1. CASE invested /\ position
    <3>1. new.cash = acc.cash /\ new.btc = acc.btc
      BY <1>6, <2>1 DEF Crossed
    <3> QED
      BY <1>7, <1>10, <2>1, <3>1
  <2>2. CASE ~invested /\ position
    <3>1. new.cash = Frac(0, 1) /\ new.btc = Over(acc.cash, price)
      BY <1>6, <2>2 DEF Crossed
    <3>2. Same(Times(new.btc, price), acc.cash) /\ new.btc \in Shares
      BY <1>7, <3>1, Bought, RatioClosed
    <3>3. Times(new.btc, price) \in Shares
      BY <1>7, <3>2, RatioClosed
    <3>4. Same(Times(new.btc, price), grown)
      BY <1>7, <1>8, <1>11, <2>2, <3>2, <3>3, SameTransitive
    <3> QED
      BY <1>7, <2>2, <3>1, <3>2, <3>4
  <2>3. CASE invested /\ ~position
    <3>1. new.cash = Times(acc.btc, price) /\ new.btc = Frac(0, 1)
      BY <1>6, <2>3 DEF Crossed
    <3>2. new.cash \in Shares
      BY <1>7, <3>1, RatioClosed
    <3> QED
      BY <1>7, <1>10, <2>3, <3>1, <3>2
  <2>4. CASE ~invested /\ ~position
    <3>1. new.cash = acc.cash /\ new.btc = acc.btc
      BY <1>6, <2>4 DEF Crossed
    <3> QED
      BY <1>7, <1>11, <2>4, <3>1
  <2> QED
    BY <2>1, <2>2, <2>3, <2>4
<1>13. value \in Ratios /\ Same(value, grown) /\ new.equity = Append(acc.equity, value)
  <2>1. new.equity = Append(acc.equity, value)
    BY <1>6 DEF Crossed
  <2>2. CASE position
    <3>1. Times(new.btc, price) \in Shares
      BY <1>7, <1>12, RatioClosed
    <3> QED
      BY <1>8, <1>12, <2>1, <2>2, <3>1, AllInOrOut
  <2>3. CASE ~position
    BY <1>8, <1>12, <2>1, <2>3, AllInOrOut
  <2> QED
    BY <2>2, <2>3
<1> HIDE DEF value
<1>14. /\ new.equity \in Seq(Ratios) /\ Len(new.equity) = k
       /\ \A i \in 1..k : Same(new.equity[i], growth[i])
  <2>1. /\ acc.equity \in Seq(Ratios) /\ Len(acc.equity) = k - 1
        /\ \A i \in 1..(k - 1) : Same(acc.equity[i], growth[i])
    BY DEF AtDay
  <2>2. /\ new.equity \in Seq(Ratios) /\ Len(new.equity) = k /\ new.equity[k] = value
        /\ \A i \in 1..(k - 1) : new.equity[i] = acc.equity[i]
    BY <1>1, <1>13, <2>1
  <2>3. \A i \in 1..k : i \in 1..(k - 1) \/ i = k
    BY <1>1
  <2> QED
    BY <1>13, <2>1, <2>2, <2>3
<1> QED
  BY <1>1, <1>2, <1>5, <1>9, <1>12, <1>14 DEF AtDay

(* When every close is a number, the strategy is worth what the nights in  *)
(* the market made, and its worst fall is theirs                           *)
(* (compute_btc_baseline_backtests).                                       *)
THEOREM CrossoverEarnsNights ==
  ASSUME NEW closes \in Seq(Ratios), closes # <<>>,
         NEW cross, cross = Crossover(closes)[Len(closes)]
  PROVE  /\ Same(cross.equity[Len(closes)], Worth(closes)[Len(closes)])
         /\ IsWorstFall(Worth(closes), MaxDrawdown(cross.equity))
<1>1. PICK day : day = Crossover(closes)
  OBVIOUS
<1>2. PICK growth : growth = Growth(closes)
  OBVIOUS
<1>0. closes \in Seq(Extended)
  <2>1. \A i \in 1..Len(closes) : closes[i] \in Ratios
    OBVIOUS
  <2>2. \A i \in 1..Len(closes) : closes[i] \in Extended
    BY <2>1, RatioIs
  <2> QED
    BY <2>2
<1>3. /\ \A i \in 0..Len(closes) : day[i] \in CrossStates
      /\ day[0] = [cash |-> Frac(1, 1), btc |-> Frac(0, 1), trades |-> 0, equity |-> <<>>]
      /\ \A i \in 1..Len(closes) : day[i] = CrossDay(closes, day[i - 1], i)
  BY <1>0, <1>1, CrossoverIs
<1>4. /\ \A i \in 0..Len(closes) : growth[i] \in Ratios
      /\ growth[0] = Frac(1, 1)
      /\ \A i \in 1..Len(closes) : growth[i] = Times(growth[i - 1], Night(closes, i))
  BY <1>2, GrowthIs
<1>5. Len(closes) \in Nat /\ Len(closes) > 0 /\ DOMAIN closes = 1..Len(closes)
  OBVIOUS
<1> DEFINE Good == {k \in 0..Len(closes) : AtDay(closes, day[k], growth, k)}
<1>6. 0 \in Good
  <2>1. /\ day[0].btc = Frac(0, 1) /\ day[0].cash = Frac(1, 1) /\ day[0].trades = 0
        /\ day[0].equity = <<>>
    BY <1>3
  <2>2. day[0].btc[1] = 0 /\ day[0].cash[1] = 1 /\ Same(day[0].cash, growth[0])
    BY <1>4, <2>1 DEF Frac, Same
  <2>3. TradedBy(closes, day[0], 0)
    BY <2>1, <2>2, HoldsNothing, SwitchedIs DEF TradedBy
  <2>4. Frac(0, 1) \in Shares /\ Frac(1, 1) \in Shares
    BY RatioIs
  <2>5. day[0].equity \in Seq(Ratios) /\ Len(day[0].equity) = 0
    BY <2>1
  <2>6. \A i \in 1..0 : FALSE
    OBVIOUS
  <2>7. AtDay(closes, day[0], growth, 0)
    BY <2>1, <2>2, <2>3, <2>4, <2>5, <2>6, HoldsNothing DEF AtDay
  <2> QED
    BY <1>5, <2>7
<1>7. ASSUME NEW k \in 1..Len(closes), k - 1 \in Good PROVE k \in Good
  <2>1. k - 1 \in 0..Len(closes) /\ k \in 0..Len(closes)
    BY <1>5
  <2>2. day[k - 1] \in CrossStates /\ day[k] = CrossDay(closes, day[k - 1], k)
    BY <1>3, <2>1
  <2>3. growth[k - 1] \in Ratios /\ growth[k] = Times(growth[k - 1], Night(closes, k))
    BY <1>4, <2>1
  <2>4. AtDay(closes, day[k - 1], growth, k - 1)
    BY <1>7
  <2>5. AtDay(closes, day[k], growth, k)
    BY <2>2, <2>3, <2>4, DayKeeps
  <2> QED
    BY <2>1, <2>5
<1> HIDE DEF Good
<1>8. \A k \in 0..Len(closes) : k \in Good
  BY <1>5, <1>6, <1>7, Throughout
<1>9. AtDay(closes, cross, growth, Len(closes))
  <2>1. Len(closes) \in Good
    BY <1>5, <1>8
  <2> QED
    BY <1>1, <2>1 DEF Good
<1>10. PICK worth : worth = Worth(closes)
  OBVIOUS
<1>11. /\ DOMAIN worth = 1..Len(closes) /\ worth \in Seq(Ratios)
       /\ \A i \in 1..Len(closes) : worth[i] = growth[i]
  <2>1. worth = [i \in 1..Len(closes) |-> growth[i]]
    BY <1>2, <1>5, <1>10 DEF Worth
  <2>2. \A i \in 1..Len(closes) : growth[i] \in Ratios
    BY <1>4, <1>5
  <2>3. worth \in [1..Len(closes) -> Ratios]
    BY <2>1, <2>2
  <2> QED
    BY <1>5, <2>1, <2>3
<1>12. PICK equity : equity = cross.equity
  OBVIOUS
<1>13. /\ equity \in Seq(Ratios) /\ DOMAIN equity = 1..Len(closes) /\ equity # <<>>
       /\ \A i \in 1..Len(closes) : Same(equity[i], worth[i])
  <2>1. /\ equity \in Seq(Ratios) /\ Len(equity) = Len(closes)
        /\ \A i \in 1..Len(closes) : Same(equity[i], growth[i])
    BY <1>9, <1>12 DEF AtDay
  <2> QED
    BY <1>5, <1>11, <2>1
<1>14. IsWorstFall(worth, MaxDrawdown(equity))
  <2>1. IsWorstFall(equity, MaxDrawdown(equity)) /\ MaxDrawdown(equity) \in Shares
    <3>1. \A i \in 1..Len(closes) : equity[i] \in Ratios /\ equity[i] \in Extended
      BY <1>13, RatioIs
    <3>2. equity \in Seq(Extended) /\ equity[1] \in Ratios
      BY <1>5, <1>13, <3>1
    <3> QED
      BY <1>13, <3>2, WorstFallFound
  <2>2. ASSUME NEW i \in DOMAIN equity, NEW j \in DOMAIN equity
        PROVE  Same(Over(equity[j], equity[i]), Over(worth[j], worth[i]))
    <3>1. equity[i] \in Ratios /\ equity[j] \in Ratios /\ worth[i] \in Ratios /\ worth[j] \in Ratios
      BY <1>11, <1>13
    <3> QED
      BY <1>13, <3>1, SameChange
  <2> QED
    BY <1>11, <1>13, <2>1, <2>2, FallsAlike
<1>15. Same(equity[Len(closes)], worth[Len(closes)])
  BY <1>5, <1>13
<1> QED
  BY <1>10, <1>12, <1>14, <1>15

-----------------------------------------------------------------------------
(* The checks of a price cache.                                            *)

PriceRecords == [date : Nat, kind : {"number", "inf", "nan", "huge", "text"}, close : Int]

(* A cache is fine only if each of its records is: the first one that is   *)
(* not decides what comes of the cache.                                    *)
LEMMA FineRecords ==
  ASSUME NEW rows \in Seq(PriceRecords), LoadRecords(rows) = Fine
  PROVE  Len(rows) >= 2 /\ \A i \in DOMAIN rows : CheckRecord(rows, i) = Fine
<1> DEFINE faulty == {i \in DOMAIN rows : CheckRecord(rows, i) # Fine}
           first == CHOOSE i \in faulty : \A j \in faulty : i <= j
<1>1. faulty = {}
  <2>1. SUFFICES ASSUME faulty # {} PROVE FALSE OBVIOUS
  <2>2. faulty \subseteq Nat OBVIOUS
  <2>3. \E i \in faulty : \A j \in faulty : i <= j
    <3> HIDE DEF faulty
    <3> QED BY <2>1, <2>2, Smallest
  <2>4. first \in faulty BY <2>3
  <2>5. LoadRecords(rows) = CheckRecord(rows, first) BY <2>1 DEF LoadRecords
  <2> HIDE DEF first
  <2> QED BY <2>4, <2>5
<1>2. ~(Len(rows) < 2) BY <1>1 DEF LoadRecords, Fine, Rejected
<1> QED BY <1>1, <1>2

(* Dates that follow each other in order are in order altogether.          *)
LEMMA DatesInOrder ==
  ASSUME NEW rows \in Seq(PriceRecords),
         \A i \in DOMAIN rows : i > 1 => rows[i - 1].date < rows[i].date,
         NEW i \in DOMAIN rows, NEW j \in DOMAIN rows, i < j
  PROVE  rows[i].date < rows[j].date
<1> DEFINE Early == {k \in DOMAIN rows : i < k /\ ~(rows[i].date < rows[k].date)}
<1>1. \A k \in DOMAIN rows : k \in Nat /\ rows[k].date \in Nat
  <2>1. \A k \in DOMAIN rows : rows[k] \in PriceRecords OBVIOUS
  <2> QED BY <2>1 DEF PriceRecords
<1>2. Early = {}
  <2>1. SUFFICES ASSUME Early # {} PROVE FALSE OBVIOUS
  <2>2. Early \subseteq Nat BY <1>1
  <2>3. PICK k \in Early : \A l \in Early : k <= l
    <3> HIDE DEF Early
    <3> QED BY <2>1, <2>2, Smallest
  <2>4. k \in DOMAIN rows /\ i < k /\ ~(rows[i].date < rows[k].date) BY <2>3
  <2>5. k > 1 /\ k - 1 \in DOMAIN rows /\ i <= k - 1 BY <2>4
  <2>6. rows[k - 1].date < rows[k].date BY <2>4, <2>5
  <2>7. k - 1 \notin Early BY <1>1, <2>3, <2>5
  <2>8. i = k - 1 \/ rows[i].date < rows[k - 1].date BY <1>1, <2>5, <2>7
  <2> QED BY <1>1, <2>4, <2>5, <2>6, <2>8
<1> QED BY <1>2

(* A cache that passes the checks of load_btc_ohlcv_records is a series of *)
(* dates in order, each with a close above zero, infinite or NaN.          *)
LEMMA CheckedIsSeries ==
  ASSUME NEW rows \in Seq(PriceRecords), Run(rows) = Fine
  PROVE  Series(rows)
<1>1. LoadRecords(rows) = Fine BY DEF Run, Fine, Raised
<1>2. Len(rows) >= 2 /\ \A i \in DOMAIN rows : CheckRecord(rows, i) = Fine
  BY <1>1, FineRecords
<1>3. ASSUME NEW i \in DOMAIN rows
      PROVE  /\ rows[i].date > 0
             /\ \/ rows[i].kind \in {"inf", "nan"}
                \/ rows[i].kind = "number" /\ rows[i].close > 0
             /\ i > 1 => rows[i - 1].date < rows[i].date
  <2>1. rows[i] \in PriceRecords OBVIOUS
  <2>2. /\ rows[i].date \in Nat /\ rows[i].close \in Int
        /\ rows[i].kind \in {"number", "inf", "nan", "huge", "text"}
    BY <2>1 DEF PriceRecords
  <2>3. /\ rows[i].date # 0 /\ rows[i].kind # "text" /\ rows[i].kind # "huge"
        /\ ~(rows[i].kind = "number" /\ rows[i].close <= 0)
        /\ ~(i > 1 /\ ~InOrder(rows[i - 1].date, rows[i].date))
    BY <1>2 DEF CheckRecord, Fine, Rejected, Raised
  <2> QED BY <2>2, <2>3 DEF InOrder
<1>4. \A i, j \in DOMAIN rows : i < j => rows[i].date < rows[j].date BY <1>3, DatesInOrder
<1> QED BY <1>2, <1>3, <1>4 DEF Series

-----------------------------------------------------------------------------
(* The figures.                                                            *)

AreMeant(figures, closes) ==
  /\ IF IsFinite(closes[1]) THEN IsWorstFall(closes, figures.drawdown)
                            ELSE figures.drawdown = Frac(1, 1)
  /\ figures.sma.verdict = "BASELINE_RESULT" =>
       /\ figures.sma.trades = Changes(closes)
       /\ (\A i \in DOMAIN closes : IsFinite(closes[i])) =>
            /\ Same(figures.sma.equity, Worth(closes)[Len(closes)])
            /\ IsWorstFall(Worth(closes), figures.sma.drawdown)

LEMMA ClosesAre ==
  ASSUME NEW rows \in Seq(PriceRecords), Series(rows), NEW closes, closes = Closes(rows)
  PROVE  /\ closes \in Seq(Closings) /\ closes \in Seq(Extended)
         /\ Len(closes) = Len(rows) /\ Len(closes) >= 2
         /\ \A i \in DOMAIN closes : IsFinite(closes[i]) => closes[i] \in Ratios
<1>1. ASSUME NEW i \in DOMAIN rows
      PROVE  /\ Price(rows[i]) \in Closings /\ Price(rows[i]) \in Extended
             /\ IsFinite(Price(rows[i])) => Price(rows[i]) \in Ratios
  <2>1. CASE rows[i].kind = "number" /\ rows[i].close > 0
    <3>1. rows[i] \in PriceRecords
      OBVIOUS
    <3>2. PICK close \in Nat \ {0} : close = rows[i].close
      BY <2>1, <3>1 DEF PriceRecords
    <3>3. Price(rows[i]) = <<close, 1>>
      BY <2>1, <3>2 DEF Price, Frac
    <3> QED
      BY <3>3 DEF Closings, Extended, Ratios
  <2>2. CASE rows[i].kind = "inf"
    <3>1. Price(rows[i]) = <<1, 0>>
      BY <2>2 DEF Price, Inf
    <3> QED
      BY <3>1 DEF Closings, Extended, IsFinite
  <2>3. CASE rows[i].kind = "nan"
    <3>1. Price(rows[i]) = <<0, 0>>
      BY <2>3 DEF Price, NaN
    <3> QED
      BY <3>1 DEF Closings, Extended, IsFinite
  <2>4. rows[i].kind \in {"inf", "nan"} \/ (rows[i].kind = "number" /\ rows[i].close > 0)
    BY DEF Series
  <2> QED
    BY <2>1, <2>2, <2>3, <2>4
<1>2. Len(rows) \in Nat /\ Len(rows) >= 2 /\ DOMAIN rows = 1..Len(rows)
  BY DEF Series
<1>3. closes = [i \in 1..Len(rows) |-> Price(rows[i])]
  BY <1>2 DEF Closes
<1>4. closes \in [1..Len(rows) -> Closings] /\ closes \in [1..Len(rows) -> Extended]
  BY <1>1, <1>2, <1>3
<1>5. closes \in Seq(Closings) /\ closes \in Seq(Extended) /\ Len(closes) = Len(rows)
  BY <1>2, <1>4
<1>6. \A i \in DOMAIN closes : IsFinite(closes[i]) => closes[i] \in Ratios
  BY <1>1, <1>2, <1>3
<1> QED
  BY <1>2, <1>5, <1>6

(* What is computed from a series is what is meant.                        *)
LEMMA ComputedIsMeant ==
  ASSUME NEW rows \in Seq(PriceRecords), Series(rows),
         NEW figures, figures = Compute(rows), NEW closes, closes = Closes(rows)
  PROVE  AreMeant(figures, closes)
<1>1. /\ closes \in Seq(Closings) /\ closes \in Seq(Extended) /\ closes # <<>>
      /\ Len(closes) = Len(rows) /\ Len(closes) \in Nat /\ Len(closes) >= 2
      /\ \A i \in DOMAIN closes : IsFinite(closes[i]) => closes[i] \in Ratios
      /\ DOMAIN closes = 1..Len(closes) /\ 1 \in DOMAIN closes /\ closes[1] \in Extended
  <2>1. /\ closes \in Seq(Closings) /\ closes \in Seq(Extended)
        /\ Len(closes) = Len(rows) /\ Len(closes) >= 2
        /\ \A i \in DOMAIN closes : IsFinite(closes[i]) => closes[i] \in Ratios
    BY ClosesAre
  <2> QED
    BY <2>1
<1>2. PICK values : values = [i \in DOMAIN closes |-> Over(closes[i], closes[1])]
  OBVIOUS
<1>3. values \in Seq(Extended) /\ values # <<>> /\ values[1] = Over(closes[1], closes[1])
  <2>1. \A i \in 1..Len(closes) : closes[i] \in Extended
    BY <1>1
  <2>2. \A i \in 1..Len(closes) : Over(closes[i], closes[1]) \in Extended
    BY <1>1, <2>1, RatioClosed
  <2>3. values \in [1..Len(closes) -> Extended]
    BY <1>1, <1>2, <2>2
  <2>4. values \in Seq(Extended) /\ Len(values) = Len(closes)
    BY <1>1, <2>3
  <2> QED
    BY <1>1, <1>2, <2>4
<1>4. IsFinite(closes[1]) => IsWorstFall(closes, MaxDrawdown(values))
  <2> SUFFICES ASSUME IsFinite(closes[1]) PROVE IsWorstFall(closes, MaxDrawdown(values))
    OBVIOUS
  <2>1. closes[1] \in Ratios
    BY <1>1
  <2>2. values[1] \in Ratios
    BY <1>3, <2>1, RatioClosed
  <2>3. IsWorstFall(values, MaxDrawdown(values)) /\ MaxDrawdown(values) \in Shares
    BY <1>3, <2>2, WorstFallFound
  <2> QED
    BY <1>1, <1>2, <2>1, <2>3, FallOfShares
<1>5. ~IsFinite(closes[1]) => MaxDrawdown(values) = Frac(1, 1)
  <2> SUFFICES ASSUME ~IsFinite(closes[1]) PROVE MaxDrawdown(values) = Frac(1, 1)
    OBVIOUS
  <2>1. PICK n \in Nat : n = closes[1][1] /\ closes[1][2] = 0
    BY <1>1, RatioIs DEF IsFinite
  <2>2. n * 0 = 0 /\ 0 * n = 0
    OBVIOUS
  <2>3. IsNaN(values[1])
    BY <1>3, <2>1, <2>2 DEF Over, IsNaN
  <2> QED
    BY <1>3, <2>3, NoFallFound
<1>6. PICK cross : cross = Crossover(closes)[Len(closes)]
  OBVIOUS
<1>7. cross.trades = Changes(closes)
  BY <1>1, <1>6, CrossoverTrades
<1>8. (\A i \in DOMAIN closes : IsFinite(closes[i])) =>
        /\ Same(cross.equity[Len(closes)], Worth(closes)[Len(closes)])
        /\ IsWorstFall(Worth(closes), MaxDrawdown(cross.equity))
  <2> SUFFICES ASSUME \A i \in DOMAIN closes : IsFinite(closes[i])
               PROVE  /\ Same(cross.equity[Len(closes)], Worth(closes)[Len(closes)])
                      /\ IsWorstFall(Worth(closes), MaxDrawdown(cross.equity))
    OBVIOUS
  <2>1. \A i \in 1..Len(closes) : closes[i] \in Ratios
    BY <1>1
  <2>2. closes \in Seq(Ratios)
    BY <1>1, <2>1
  <2> QED
    BY <1>1, <1>6, <2>2, CrossoverEarnsNights
<1>9. PICK sma :
        sma = IF Len(rows) >= MinRecords
              THEN [verdict |-> "BASELINE_RESULT", equity |-> cross.equity[Len(rows)],
                    drawdown |-> MaxDrawdown(cross.equity), trades |-> cross.trades]
              ELSE [verdict |-> "INSUFFICIENT"]
  OBVIOUS
<1>10. figures = [drawdown |-> MaxDrawdown(values), sma |-> sma]
  BY <1>2, <1>6, <1>9 DEF Compute
<1>11. sma.verdict = "BASELINE_RESULT" =>
         /\ sma.equity = cross.equity[Len(rows)] /\ sma.drawdown = MaxDrawdown(cross.equity)
         /\ sma.trades = cross.trades
  BY <1>9
<1>12. figures.drawdown = MaxDrawdown(values) /\ figures.sma = sma
  BY <1>10
<1> QED
  BY <1>1, <1>4, <1>5, <1>7, <1>8, <1>11, <1>12 DEF AreMeant
=============================================================================
