---------------------------- MODULE RestorePromise ----------------------------
(***************************************************************************)
(* What backups and restorations promise the operator, without files,      *)
(* journals, locks, a memory to lose or steps to be interrupted between:   *)
(* the Gateway's data are one whole content; an archive is made of it, and  *)
(* a restoration, once demanded, either puts the whole content of its       *)
(* archive in its place or nothing.  While one is demanded nothing serves,  *)
(* no archive is lost, and one holds what is being replaced.                *)
(*                                                                         *)
(* From the moment `void` is TRUE nothing is promised.                     *)
(***************************************************************************)
CONSTANTS Archive, Content, Absent

VARIABLES
    content,    \* the data, and those a demanded restoration found
    kept,       \* what each archive holds; Absent where there is none
    demanded,   \* the archive that is to be restored, if any
    serving,    \* a server runs
    void

vars == <<content, kept, demanded, serving, void>>

Init ==
    /\ content \in Content
    /\ kept \in [Archive -> Content \cup {Absent}]
    /\ demanded = {} /\ serving = FALSE /\ void = FALSE

Serve ==
    /\ demanded = {}
    /\ ~serving /\ serving' = TRUE
    /\ UNCHANGED <<content, kept, demanded, void>>

Stop ==
    /\ serving /\ serving' = FALSE
    /\ UNCHANGED <<content, kept, demanded, void>>

\* A new archive; old ones may go.
Save ==
    /\ demanded = {}
    /\ \E a \in Archive :
        /\ kept[a] = Absent /\ kept'[a] = content
        /\ \A b \in Archive \ {a} : kept'[b] \in {kept[b], Absent}
    /\ UNCHANGED <<content, demanded, serving, void>>

Demand(a) ==
    /\ demanded = {} /\ ~serving
    /\ kept[a] # Absent
    /\ \E b \in Archive : kept[b] = content
    /\ demanded' = {a}
    /\ UNCHANGED <<content, kept, serving, void>>

Complete(a) ==
    /\ demanded = {a}
    /\ content' = kept[a] /\ demanded' = {}
    /\ UNCHANGED <<kept, serving, void>>

GiveUp ==
    /\ demanded # {} /\ demanded' = {}
    /\ UNCHANGED <<content, kept, serving, void>>

Next ==
    \/ Serve \/ Stop \/ Save \/ GiveUp
    \/ \E a \in Archive : Demand(a) \/ Complete(a)
    \/ void' = TRUE

Spec == Init /\ [][Next]_vars

===============================================================================
