------------------------------- MODULE SeedSync -------------------------------
(***************************************************************************)
(* evals/seed_langsmith_dataset.py: the cases of a file are brought into a *)
(* LangSmith dataset.  sync_cases lists the examples page by page and then *)
(* creates or updates them one by one, while people go on working in it.   *)
(* A run may be cut off anywhere, a request may be carried out although    *)
(* its answer is lost, and the next run may come with another file.  One   *)
(* run at a time: docs/RELIABILITY.md does not support two.                *)
(*                                                                         *)
(* Examples without a case_id play no part and are left out.               *)
(***************************************************************************)
EXTENDS Naturals, Sequences, FiniteSets

CONSTANTS Cases,     \* case ids
          Contents,  \* what inputs, or outputs, can be
          Files,     \* the versions of the file
          Examples,  \* ids the dataset can give to examples
          MaxEdits   \* bound: changes people make

ASSUME SeedAssumption ==
    /\ Files \subseteq Seq([case : Cases, inputs : Contents, outputs : Contents])
    /\ Contents # {} /\ Cases # {}
    /\ MaxEdits \in Nat

VARIABLES remote,   \* the dataset
          run,      \* the run of sync_cases: where it is, its file, the next case
          listing,  \* the examples as list_examples returned them to this run
          unread,   \* examples of the pages that are still to come
          touched,  \* cases of which people changed an example this run had passed
          edits     \* how many changes people made

seedVars == <<remote, run, listing, unread, touched, edits>>

\* made tells whether the seeder created the example; the program does not see it.
Example == [state : {"unused", "live", "deleted"}, case : Cases, inputs : Contents,
            outputs : Contents, source : {"seed", "other"}, notes : BOOLEAN, made : BOOLEAN]

Datasets == [Examples -> Example]

Run == [pc : {"none", "listing", "syncing", "done", "failed"}, file : Files, next : Nat \ {0}]

Live(d) == {x \in Examples : d[x].state = "live"}

\* existing: the example that carries the case's id, if there is one.
OfCase(d, k) == {x \in Live(d) : d[x].case = k}

NotYet == [state |-> "unused", case |-> CHOOSE k \in Cases : TRUE,
           inputs |-> CHOOSE c \in Contents : TRUE, outputs |-> CHOOSE c \in Contents : TRUE,
           source |-> "seed", notes |-> FALSE, made |-> FALSE]

Nothing == [x \in Examples |-> NotYet]

\* A new dataset, made by main when there is none of that name.
SeedInit ==
    /\ remote = Nothing
    /\ run \in [pc : {"none"}, file : Files, next : {1}]
    /\ listing = Nothing
    /\ unread = {}
    /\ touched = {}
    /\ edits = 0

-----------------------------------------------------------------------------
\* A run is over, with this outcome; its listing is forgotten.
Stop(outcome) ==
    /\ run' = [run EXCEPT !.pc = outcome]
    /\ listing' = Nothing
    /\ unread' = {}

UnderWay == run.pc \in {"listing", "syncing"}

\* load_cases, and list_examples begins.
Begin(f) ==
    /\ ~UnderWay
    /\ run' = [pc |-> "listing", file |-> f, next |-> 1]
    /\ unread' = Live(remote)
    /\ touched' = {}
    /\ UNCHANGED <<remote, listing, edits>>

\* A page brings an example as it is now, if it is still there.  The pages together
\* are taken to bring every example that is there from the first to the last.
ReadExample(x) ==
    /\ run.pc = "listing" /\ x \in unread
    /\ unread' = unread \ {x}
    /\ listing' = IF x \in Live(remote) THEN [listing EXCEPT ![x] = remote[x]] ELSE listing
    /\ UNCHANGED <<remote, run, touched, edits>>

\* Two examples of the listing, or two cases of the file, have one id: nothing is written.
Ambiguous ==
    \/ \E x, y \in Live(listing) : x # y /\ listing[x].case = listing[y].case
    \/ \E m, n \in DOMAIN run.file : m # n /\ run.file[m].case = run.file[n].case

Listed ==
    /\ run.pc = "listing" /\ unread = {}
    /\ \/ Ambiguous /\ Stop("failed")
       \/ ~Ambiguous /\ run' = [run EXCEPT !.pc = "syncing"] /\ UNCHANGED <<listing, unread>>
    /\ UNCHANGED <<remote, touched, edits>>

Syncing == run.pc = "syncing" /\ run.next <= Len(run.file)

Current == run.file[run.next]

\* MUTANT: only examples of the seeder's own are looked at.
Previous_SeedOnly == {x \in OfCase(listing, Current.case) : listing[x].source = "seed"}

\* previous
Previous == OfCase(listing, Current.case)

\* MUTANT: an example is brought up to date only if both parts differ.
Differs_Both(x, c) == x.inputs # c.inputs /\ x.outputs # c.outputs

Differs(x, c) == x.inputs # c.inputs \/ x.outputs # c.outputs

\* The request was carried out; its answer comes, or is lost and ends the run.
Answered ==
    \/ run' = [run EXCEPT !.next = @ + 1] /\ UNCHANGED <<listing, unread>>
    \/ Stop("failed")

CreateExample ==
    /\ Syncing /\ Previous = {}
    /\ \E x \in Examples :
           /\ remote[x].state = "unused"
           /\ remote' = [remote EXCEPT ![x] =
                  [state |-> "live", case |-> Current.case, inputs |-> Current.inputs,
                   outputs |-> Current.outputs, source |-> "seed", notes |-> FALSE,
                   made |-> TRUE]]
    /\ Answered
    /\ UNCHANGED <<touched, edits>>

Skip ==
    /\ Syncing
    /\ \E x \in Previous : ~Differs(listing[x], Current)
    /\ run' = [run EXCEPT !.next = @ + 1]
    /\ UNCHANGED <<remote, listing, unread, touched, edits>>

\* The example differs and is not the seeder's: the run ends.
Refuse ==
    /\ Syncing
    /\ \E x \in Previous : Differs(listing[x], Current) /\ listing[x].source # "seed"
    /\ Stop("failed")
    /\ UNCHANGED <<remote, touched, edits>>

\* MUTANT: the metadata is the seeder's own and nothing else.
Updated_NoMerge(x) ==
    [remote[x] EXCEPT !.inputs = Current.inputs, !.outputs = Current.outputs,
                      !.source = "seed", !.notes = FALSE]

\* update_example replaces contents and metadata; the metadata is that of the listing
\* under the seeder's own.
Updated(x) ==
    [remote[x] EXCEPT !.inputs = Current.inputs, !.outputs = Current.outputs,
                      !.source = "seed", !.notes = listing[x].notes]

UpdateExample ==
    /\ Syncing
    /\ \E x \in Previous :
           /\ Differs(listing[x], Current) /\ listing[x].source = "seed"
           /\ remote[x].state = "live"
           /\ remote' = [remote EXCEPT ![x] = Updated(x)]
    /\ Answered
    /\ UNCHANGED <<touched, edits>>

\* A request is not carried out (the example may be gone), or the process ends.
Break ==
    /\ UnderWay
    /\ Stop("failed")
    /\ UNCHANGED <<remote, touched, edits>>

Finish ==
    /\ run.pc = "syncing" /\ run.next > Len(run.file)
    /\ Stop("done")
    /\ UNCHANGED <<remote, touched, edits>>

Seeder ==
    \/ \E f \in Files : Begin(f)
    \/ \E x \in Examples : ReadExample(x)
    \/ Listed
    \/ CreateExample \/ Skip \/ Refuse \/ UpdateExample \/ Break \/ Finish

-----------------------------------------------------------------------------
\* EXTERNAL: people annotate, correct, take over or delete an example ...
Touch(x) ==
    /\ edits < MaxEdits
    /\ remote[x].state = "live"
    /\ \/ remote' = [remote EXCEPT ![x].notes = TRUE]
       \/ \E c \in Contents : remote' = [remote EXCEPT ![x].outputs = c]
       \/ remote' = [remote EXCEPT ![x].source = "other"]
       \/ remote' = [remote EXCEPT ![x].state = "deleted"]
    /\ touched' = IF x \in unread THEN touched ELSE touched \cup {remote[x].case}
    /\ edits' = edits + 1
    /\ UNCHANGED <<run, listing, unread>>

\* ... and add examples of their own, perhaps copies that carry a case_id in use; one
\* that comes during a listing may or may not be on a page to come.
AddExample(x) ==
    /\ edits < MaxEdits
    /\ remote[x].state = "unused"
    /\ \E k \in Cases, c \in Contents, s \in {"seed", "other"} :
           remote' = [remote EXCEPT ![x] =
               [state |-> "live", case |-> k, inputs |-> c, outputs |-> c, source |-> s,
                notes |-> TRUE, made |-> FALSE]]
    /\ unread' \in IF run.pc = "listing" THEN {unread, unread \cup {x}} ELSE {unread}
    /\ edits' = edits + 1
    /\ UNCHANGED <<run, listing, touched>>

People == \E x \in Examples : Touch(x) \/ AddExample(x)

SeedNext == Seeder \/ People

SeedSpec == SeedInit /\ [][SeedNext]_seedVars

-----------------------------------------------------------------------------
SeedTypeOK ==
    /\ remote \in Datasets /\ listing \in Datasets
    /\ run \in Run
    /\ unread \subseteq Examples
    /\ touched \subseteq Cases
    /\ edits \in 0 .. MaxEdits

\* However often the seeding is broken off and repeated, with requests that took effect
\* unseen, examples taken over by people and files that change, the seeder never makes
\* a second example of a case while its first is there (sync_cases).
NoDuplicates ==
    \A x, y \in Live(remote) :
        remote[x].made /\ remote[y].made /\ remote[x].case = remote[y].case => x = y

\* What people did before the run's listing came to the example is kept: the seeder writes
\* no example that is not its own, deletes none, and its writes carry the annotations on.
\* A change made after the listing passed it is not seen and may be overwritten.
HumanWorkKept ==
    [][\A x \in Live(remote) :
           remote'[x] # remote[x] /\ edits' = edits /\ remote[x].case \notin touched =>
               /\ remote[x].source = "seed"
               /\ remote'[x].state = "live"
               /\ remote'[x].notes = remote[x].notes]_seedVars

\* After a run that ends in peace the dataset has every case of the file as the file
\* has it, except where people changed the case's example behind the run's back.
FinishedMeansSynced ==
    run.pc = "done" =>
        \A n \in DOMAIN run.file :
            \/ run.file[n].case \in touched
            \/ \E x \in OfCase(remote, run.file[n].case) :
                   /\ remote[x].inputs = run.file[n].inputs
                   /\ remote[x].outputs = run.file[n].outputs

=============================================================================
