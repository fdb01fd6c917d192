---------------------------- MODULE ArtifactGate ----------------------------
(***************************************************************************)
(* What the executor and the acceptance gate read in an artifact: the      *)
(* headings and list items of its text, the fence a worker may wrap it in, *)
(* the metadata written beside it, and validate_artifact.                  *)
(*                                                                         *)
(* A text is a sequence of lines, a line a kind and a slug.  The word of a *)
(* "prose" line is its slug, so that it can be taken for a heading.        *)
(***************************************************************************)
EXTENDS Naturals, SequencesExt

CONSTANT Slugs  \* the words a heading may spell

NoSlug == "none"
Line(kind, slug) == [kind |-> kind, slug |-> slug]

Heading(slug) == Line("heading", slug)        \* ## slug
BareHeading == Line("bare", NoSlug)           \* ##
Prose(slug) == Line("prose", slug)            \* slug
Item == Line("item", NoSlug)                  \* - something
Blank == Line("blank", NoSlug)
Fence == Line("fence", NoSlug)                \* ```
Credential == Line("credential", NoSlug)      \* api_key = a1b2c3

Lines ==
  {Heading(slug) : slug \in Slugs} \cup {Prose(slug) : slug \in Slugs}
    \cup {BareHeading, Item, Blank, Fence, Credential}

(***************************************************************************)
(* Parsing.                                                                *)
(***************************************************************************)
(* Mutant: every line below a bare heading names a section. *)
SectionsNeverClosed(text) ==
  LET Read(acc, line) ==
        IF line.kind = "heading" \/ (acc.open /\ line.kind = "prose")
        THEN [acc EXCEPT !.found = @ \cup {line.slug}]
        ELSE [acc EXCEPT !.open = @ \/ line.kind = "bare"]
  IN FoldLeft(Read, [found |-> {}, open |-> FALSE], text).found

(* parse_markdown_sections.  The white space after ## may be a line break: *)
(* a bare heading takes the next line that is not blank, whatever it is,   *)
(* for its slug, and that line is read no more.  The slugs such a line     *)
(* spells when it is not prose are no section's and left out.              *)
ReadForSections(acc, line) ==
  IF line.kind = "blank" THEN acc
  ELSE [found |-> IF \/ line.kind = "heading" /\ ~acc.open
                     \/ line.kind = "prose" /\ acc.open
                  THEN acc.found \cup {line.slug}
                  ELSE acc.found,
        open |-> line.kind = "bare" /\ ~acc.open]
SectionsRead(text) ==
  LET read[i \in 0..Len(text)] ==
        IF i = 0 THEN [found |-> {}, open |-> FALSE]
        ELSE ReadForSections(read[i - 1], text[i])
  IN read
Sections(text) == SectionsRead(text)[Len(text)].found

(* parse_markdown_sources reads line by line, so that here a bare heading  *)
(* is prose: it neither takes the next line nor ends the list of sources.  *)
ReadForSources(acc, line) ==
  CASE line.kind = "heading" -> [acc EXCEPT !.inside = line.slug = "sources"]
    [] line.kind = "item" /\ acc.inside -> [acc EXCEPT !.count = @ + 1]
    [] OTHER -> acc
SourcesRead(text) ==
  LET read[i \in 0..Len(text)] ==
        IF i = 0 THEN [count |-> 0, inside |-> FALSE]
        ELSE ReadForSources(read[i - 1], text[i])
  IN read
Sources(text) == SourcesRead(text)[Len(text)].count

(* str.strip, by lines. *)
Strip(text) ==
  LET written == {i \in DOMAIN text : text[i].kind # "blank"} IN
  IF written = {} THEN <<>>
  ELSE SubSeq(text, CHOOSE i \in written : \A j \in written : i <= j,
                    CHOOSE i \in written : \A j \in written : j <= i)

(* Mutant: the first and the last line go whatever they are. *)
StripCodeFenceAlways(text) ==
  LET stripped == Strip(text) IN
  IF Len(stripped) >= 2 THEN Strip(SubSeq(stripped, 2, Len(stripped) - 1)) ELSE stripped

(* strip_code_fence *)
StripCodeFence(text) ==
  LET stripped == Strip(text)
      last == Len(stripped)
  IN IF last >= 2 /\ stripped[1] = Fence /\ stripped[last] = Fence
     THEN Strip(SubSeq(stripped, 2, last - 1))
     ELSE stripped

ContainsSecretMaterial(text) == \E i \in DOMAIN text : text[i].kind = "credential"

(***************************************************************************)
(* The metadata, and the gate.                                             *)
(***************************************************************************)
Meta(text) == [sections |-> Sections(text), sources |-> Sources(text)]

(* A file that may be there or not.                                        *)
Absent == <<>>
File(contents) == <<contents>>
Contents(file) == file[1]

(* validate_artifact for a stage of the BTC campaign: required_artifact,   *)
(* require_hash and require_sources hold, and nothing is forbidden but     *)
(* credentials.                                                            *)
ValidateArtifact(artifact, meta, required) ==
  /\ artifact # Absent
  /\ meta # Absent
  /\ required \subseteq Contents(meta).sections
  /\ required \subseteq Sections(Contents(artifact))
  /\ Contents(meta).sources > 0
  /\ ~ContainsSecretMaterial(Contents(artifact))

-----------------------------------------------------------------------------
(***************************************************************************)
(* What the gate is meant to tell, without the parsers.                    *)
(***************************************************************************)
(* A section has a heading, or (which the regular expression takes for the *)
(* same, and nobody meant) its word stands right below an empty one.       *)
Headed(text, slug) ==
  \E i \in DOMAIN text :
    \/ text[i] = Heading(slug)
    \/ /\ text[i] = Prose(slug)
       /\ \E j \in 1..(i - 1) : /\ text[j] = BareHeading
                               /\ \A k \in (j + 1)..(i - 1) : text[k] = Blank

(* A list item stands below the heading of the sources, and no other       *)
(* heading between the two.                                                *)
Sourced(text) ==
  \E i \in DOMAIN text, j \in DOMAIN text :
    /\ text[i] = Heading("sources") /\ text[j] = Item /\ i < j
    /\ \A k \in (i + 1)..(j - 1) : text[k].kind # "heading"

HasForm(text, required) ==
  /\ \A slug \in required : Headed(text, slug)
  /\ Sourced(text)
  /\ \A i \in DOMAIN text : text[i] # Credential

(* The brief of build_research_instruction: the slugs word for word, a     *)
(* list of sources, no credentials, no fence; one around the whole text    *)
(* is forgiven.  Stricter than the brief, which does not rule it out, this *)
(* has no bare heading: one right above a required heading would hide it.  *)
KeepsToBrief(text, required) ==
  /\ \A slug \in required : \E i \in DOMAIN text : text[i] = Heading(slug)
  /\ Sourced(text)
  /\ \A i \in DOMAIN text : text[i].kind \notin {"bare", "fence", "credential"}
FollowsBrief(text, required) ==
  \/ KeepsToBrief(text, required)
  \/ /\ Len(text) >= 2 /\ text[1] = Fence /\ text[Len(text)] = Fence
     /\ KeepsToBrief(SubSeq(text, 2, Len(text) - 1), required)
=============================================================================
