----------------------------- MODULE PromptFile -----------------------------
(***************************************************************************)
(* The text of an agent's system prompt file and the functions that edit   *)
(* it: filemerge/section.go, the strip functions of components/sdd and     *)
(* components/communitytool and the cleaners of components/uninstall.  A   *)
(* file is a sequence of tokens, each standing for a run of lines; blank   *)
(* lines and frontmatter are left out.  What the user writes starts with a *)
(* heading of its own.  The empty sequence is a missing or empty file.     *)
(***************************************************************************)
EXTENDS Naturals, Sequences, FiniteSets, FiniteSetsExt, Functions

Sections == {"persona", "sdd-orchestrator", "trigger-rules", "strict-tdd-mode",
             "engram-protocol", "codegraph-guidance"}

User(i) == [kind |-> "user", id |-> i, text |-> ""]
Open(s) == [kind |-> "open", id |-> s, text |-> ""]
Close(s) == [kind |-> "close", id |-> s, text |-> ""]
(* The content of a section, with or without its markers. *)
Body(s, text) == [kind |-> "body", id |-> s, text |-> text]
(* A persona as the text a file starts with. *)
Base(text) == [kind |-> "body", id |-> "persona", text |-> text]
(* An orchestrator pasted without markers, and what stays of it when only  *)
(* its first headed part is removed.                                       *)
Bare == Body("sdd-orchestrator", "bare")
Rest == [kind |-> "rest", id |-> "sdd-orchestrator", text |-> ""]
Begin(block) == [kind |-> "begin", id |-> block, text |-> ""]
End(block) == [kind |-> "end", id |-> block, text |-> ""]

Opens == {Open(s) : s \in Sections}

Has(f, t) == t \in Range(f)

(* strings.Index: where a token of T stands first, past the end if nowhere. *)
Index(f, T) == Min({Len(f) + 1} \union {i \in DOMAIN f : f[i] \in T})

Before(f, i) == SubSeq(f, 1, i - 1)
From(f, i) == SubSeq(f, i, Len(f))
Without(f, T) == SelectSeq(f, LAMBDA t : t \notin T)

Preamble(f) == Before(f, Index(f, Opens))
Managed(f) == From(f, Index(f, Opens))

(* The persona assets that hold all the fingerprints of                    *)
(* legacyPersonaFingerprints.                                              *)
FullPersonas == {"gentleman", "neutral"}
Fingerprinted(f) ==
    \E t \in Range(f) : t.kind = "body" /\ t.id = "persona" /\ t.text \in FullPersonas

(* Faulty: whatever stands before the first marker is taken for a persona. *)
StripPreamble(f) == Managed(f)

StripLegacyPersonaBlock(f) == IF Fingerprinted(Preamble(f)) THEN Managed(f) ELSE f

(* The tokens of f that no block encloses, without stray block markers.    *)
StripBlocks(f, block) ==
    LET enclosed(i) ==
            /\ \E b \in 1 .. i - 1 :
                  f[b] = Begin(block) /\ End(block) \notin {f[j] : j \in b .. i}
            /\ Has(From(f, i), End(block))
        kept == {i \in DOMAIN f :
                    f[i] \notin {Begin(block), End(block)} /\ ~enclosed(i)}
    IN  [n \in 1 .. Cardinality(kept) |->
            f[CHOOSE i \in kept : Cardinality({j \in kept : j <= i}) = n]]

StripLegacyATLBlock(f) == StripBlocks(f, "agent-teams-lite")
StripLegacyCodeGraphGuidance(f) == StripBlocks(f, "codegraph")

---------------------------------------------------------------------------
(* Managed sections. *)

(* Faulty: a closer without an opener stays.                               *)
StripOrphanOpeners(f, s) == IF Has(f, Close(s)) THEN f ELSE Without(f, {Open(s)})

(* Closers before the first opener go; openers that no closer follows go.  *)
StripOrphanMarkers(f, s) ==
    LET opener == Index(f, {Open(s)})
        g == Without(Before(f, opener), {Close(s)}) \o From(f, opener)
    IN  IF Has(g, Close(s)) THEN g ELSE Without(g, {Open(s)})

(* The first pair is replaced; without one the section goes to the end. *)
InjectMarkdownSection(f, s, text) ==
    LET g == StripOrphanMarkers(f, s)
        block == <<Open(s), Body(s, text), Close(s)>>
    IN  IF Has(g, Open(s))
        THEN Before(g, Index(g, {Open(s)})) \o block \o From(g, Index(g, {Close(s)}) + 1)
        ELSE g \o block

RemoveMarkdownSection(f, s) ==
    LET g == StripOrphanMarkers(f, s) IN
    IF Has(g, Open(s))
    THEN Before(g, Index(g, {Open(s)})) \o From(g, Index(g, {Close(s)}) + 1)
    ELSE g

RemoveManagedPersonaPreamble(f) ==
    IF Fingerprinted(Preamble(f)) /\ Managed(f) # <<>> THEN Managed(f) ELSE f

(* A persona that replaces the top of the file keeps what follows the      *)
(* first marker, unless it is the Gentleman persona.                       *)
ReplacePersona(f, persona) ==
    IF persona = "gentleman" THEN <<Base(persona)>> ELSE <<Base(persona)>> \o Managed(f)

---------------------------------------------------------------------------
(* Orchestrators without markers: tokens with one of sddOrchestratorMarkers. *)

Headings(f) ==
    {t \in Range(f) : t.kind = "body" /\ t.id = "sdd-orchestrator"}

HasSDDOrchestrator(f) == Headings(f) # {}

StripBareOrchestratorSection(f) == [f EXCEPT ![Index(f, Headings(f))] = Rest]

HasLegacyBareOrchestrator(f) ==
    /\ HasSDDOrchestrator(f)
    /\ Index(f, Headings(f)) < Index(f, {Open("sdd-orchestrator")})

(* The assets of some agents start with the title of old orchestrators. *)
Titles == {Bare, Body("sdd-orchestrator", "titled")}

(* A title before the section: everything up to the section goes, other    *)
(* sections included.  Else from the first heading to the next marker.     *)
StripBareOrchestratorForFilePrompt(f) ==
    LET marked == Index(f, {Open("sdd-orchestrator")})
        title == Index(f, Titles)
        start == Index(f, Headings(f))
        rest == From(f, start)
    IN  IF title < marked /\ marked <= Len(f)
        THEN Before(f, title) \o From(f, marked)
        ELSE Before(f, start) \o Managed(rest)
=============================================================================
