---------------------------- MODULE AtomicIndex ----------------------------
(***************************************************************************)
(* What the tools that write an index promise to those that read it: the   *)
(* symbols of a repository are replaced in two steps, all gone and then    *)
(* all there, or one file at a time; a symbol can be found by its vector   *)
(* only while it is there, and vectors come and go with their symbols.     *)
(***************************************************************************)
CONSTANTS
    Repo,
    File,
    Decl,
    FileOf      \* the file a Decl stands in

VARIABLES
    content,    \* per repo: the declarations load_symbols returns
    embedded    \* per repo: those of them a vector search can find

indexVars == <<content, embedded>>

Init ==
    /\ content = [r \in Repo |-> {}]
    /\ embedded = [r \in Repo |-> {}]

Wipe(r) ==
    /\ content' = [content EXCEPT ![r] = {}]
    /\ embedded' = [embedded EXCEPT ![r] = {}]

\* A whole index at once, and only where there is none.
Publish(r) ==
    /\ content[r] = {}
    /\ \E D \in SUBSET Decl : content' = [content EXCEPT ![r] = D]
    /\ UNCHANGED embedded

Embed(r) ==
    /\ \E D \in SUBSET content[r] : embedded' = [embedded EXCEPT ![r] = @ \cup D]
    /\ UNCHANGED content

\* The declarations of one file are replaced by others of that file, which have
\* no vectors.
ReplaceFile(r, f) ==
    LET others == {d \in content[r] : FileOf[d] # f}
    IN  /\ \E D \in SUBSET {d \in Decl : FileOf[d] = f} :
              content' = [content EXCEPT ![r] = others \cup D]
        /\ embedded' = [embedded EXCEPT ![r] = @ \cap others]

Next ==
    \E r \in Repo : \/ Wipe(r) \/ Publish(r) \/ Embed(r)
                    \/ \E f \in File : ReplaceFile(r, f)

Spec == Init /\ [][Next]_indexVars
=============================================================================
