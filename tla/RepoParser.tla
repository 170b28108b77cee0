----------------------------- MODULE RepoParser -----------------------------
(***************************************************************************)
(* What index_repo reads of a repository: its index.scip if it has one     *)
(* (ScipIndex), else every source file with the parser of its extension    *)
(* (LanguageParsers).  The state is that input, grown step by step to      *)
(* every input up to the bounds.                                           *)
(***************************************************************************)
EXTENDS TreeQueries, ScipIndex

VARIABLE hasScip    \* index.scip exists

vars == <<treeVars, scipVars, hasScip>>

TypeOK == TreeTypeOK /\ ScipTypeOK /\ hasScip \in BOOLEAN

Init ==
    /\ hasScip \in BOOLEAN
    /\ InitTree /\ (hasScip => lang = CHOOSE l \in Lang : TRUE)
    /\ InitScip /\ (~hasScip => shown = {})

Next ==
    \/ hasScip /\ AppendOccurrence /\ UNCHANGED <<treeVars, hasScip>>
    \/ ~hasScip /\ GrowTree /\ UNCHANGED <<scipVars, hasScip>>

Spec == Init /\ [][Next]_vars
=============================================================================
