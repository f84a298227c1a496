---------------------------- MODULE SettingsStore ----------------------------
(***************************************************************************)
(* The one config. Settings owns it while the app runs and writes it whole; *)
(* at each launch the home directory is tidied into it, since an older      *)
(* build may have run meanwhile and written a file of its own. A setting of *)
(* the download policy is refused while a run re-reads it for every track.  *)
(***************************************************************************)
EXTENDS Naturals

CONSTANTS Builds,    \* older builds: the names in the home directory, "home" the newer
          Values,    \* of a setting
          Setters,   \* calls of settings.set under way at once
          MaxWrites, \* bound: writes of a config
          MaxTrouble \* bound: files that could not be read, written or removed

Keys == {"policy", "theme"}
NoStore == [k \in Keys |-> 0] \* every key at its default

VARIABLES file,    \* [names -> [at, data]]: the configs on disk, at = 0 where there is none
          clock,   \* the time of the last write
          app,     \* "none", a build, or the new one at "tidy", "load" or "runs"
          left,    \* old names the tidy-up has not come to
          seed,    \* the one it moves
          mem,     \* _data
          setter,  \* [Setters -> [pc, key, val]]
          job,     \* a download job holds a slot
          read,    \* policies the job's tracks have read
          chosen,  \* history: the store whose user last set something
          trouble, \* (bounded)
          excused  \* history: the config was not read, moved or written since

vars == <<file, clock, app, left, seed, mem, setter, job, read, chosen, trouble, excused>>

Names == Builds \union {"config"}
NoCall == [pc |-> "none", key |-> "theme", val |-> 0]
NoFile == [at |-> 0, data |-> NoStore]

Init == /\ file = [n \in Names |-> NoFile] /\ clock = 0 /\ app = "none" /\ left = {} /\ seed = "none"
        /\ mem = NoStore /\ setter = [s \in Setters |-> NoCall] /\ job = FALSE /\ read = {}
        /\ chosen = NoStore /\ trouble = 0 /\ excused = FALSE

calls == <<setter, job, read>>
Fault == trouble < MaxTrouble /\ trouble' = trouble + 1

-----------------------------------------------------------------------------
(* An older build. *)

RunOld == /\ app = "none" /\ \E b \in Builds : app' = b /\ mem' = file[b].data
          /\ UNCHANGED <<file, clock, left, seed, calls, chosen, trouble, excused>>

\* It writes its own file, whole.
OldSets == /\ app \in Builds /\ clock < MaxWrites /\ clock' = clock + 1
           /\ \E k \in Keys, v \in Values : mem' = [mem EXCEPT ![k] = v]
           /\ file' = [file EXCEPT ![app] = [at |-> clock', data |-> mem']]
           /\ chosen' = mem' /\ excused' = FALSE
           /\ UNCHANGED <<app, left, seed, calls, trouble>>

-----------------------------------------------------------------------------
(* The launch: tidy_home_config, then _load. *)

Present == {b \in Builds : file[b].at > 0}
Newest(names) == IF "home" \in names THEN "home" ELSE CHOOSE n \in names : TRUE

\* Mutant of SeedOf: the newest name, also when the config is newer.
SeedByName == IF Present = {} THEN "none" ELSE Newest(Present)
\* The newest name present, if it was written after the config.
SeedOf == IF Present = {} \/ file["config"].at >= file[Newest(Present)].at THEN "none" ELSE Newest(Present)

Launch == /\ app = "none" /\ app' = "tidy" /\ left' = Present /\ seed' = SeedOf
          /\ UNCHANGED <<file, clock, mem, calls, chosen, trouble, excused>>

\* One name at a time: the seed is moved over the config, the others go, and one
\* that cannot be is left where it is.
Tidy == /\ app = "tidy" /\ \E b \in left :
             /\ left' = left \ {b}
             /\ \/ /\ file' = IF b = seed THEN [file EXCEPT !["config"] = file[b], ![b] = NoFile]
                              ELSE [file EXCEPT ![b] = NoFile]
                   /\ UNCHANGED <<trouble, excused>>
                \/ Fault /\ excused' = (excused \/ b = seed) /\ UNCHANGED file
        /\ UNCHANGED <<clock, app, seed, mem, calls, chosen>>

\* A file that cannot be read is a store of defaults, which the first write keeps.
Load == /\ app = "tidy" /\ left = {} /\ app' = "runs"
        /\ \/ mem' = file["config"].data /\ UNCHANGED <<trouble, excused>>
           \/ file["config"].at > 0 /\ Fault /\ mem' = NoStore /\ excused' = TRUE
        /\ UNCHANGED <<file, clock, left, seed, calls, chosen>>

-----------------------------------------------------------------------------
(* The running app. *)

Call == /\ app = "runs" /\ \E s \in Setters, k \in Keys, v \in Values :
             /\ setter[s].pc = "none" /\ setter' = [setter EXCEPT ![s] = [pc |-> "frozen", key |-> k, val |-> v]]
        /\ UNCHANGED <<file, clock, app, left, seed, mem, job, read, chosen, trouble, excused>>

\* _refuse_frozen_setting: the slots as they are now, and no longer held.
Refuse == /\ \E s \in Setters :
               /\ setter[s].pc = "frozen"
               /\ setter' = [setter EXCEPT ![s] = IF job /\ @.key = "policy" THEN NoCall ELSE [@ EXCEPT !.pc = "set"]]
          /\ UNCHANGED <<file, clock, app, left, seed, mem, job, read, chosen, trouble, excused>>

\* update(): under the lock, the whole store, atomically; a failed write is swallowed.
Updated(s) == [mem EXCEPT ![setter[s].key] = setter[s].val]
Update == /\ clock < MaxWrites /\ clock' = clock + 1
          /\ \E s \in Setters :
               /\ setter[s].pc = "set" /\ setter' = [setter EXCEPT ![s] = NoCall]
               /\ mem' = Updated(s) /\ chosen' = mem'
          /\ \/ file' = [file EXCEPT !["config"] = [at |-> clock', data |-> mem']]
                /\ excused' = FALSE /\ UNCHANGED trouble
             \/ Fault /\ excused' = TRUE /\ UNCHANGED file
          /\ UNCHANGED <<app, left, seed, job, read>>

JobStarts == /\ app = "runs" /\ ~job /\ job' = TRUE /\ read' = {}
             /\ UNCHANGED <<file, clock, app, left, seed, mem, setter, chosen, trouble, excused>>

\* Each track's policy is read afresh.
Track == /\ job /\ read' = read \union {mem["policy"]}
         /\ UNCHANGED <<file, clock, app, left, seed, mem, setter, job, chosen, trouble, excused>>

JobEnds == /\ job /\ job' = FALSE /\ read' = {}
           /\ UNCHANGED <<file, clock, app, left, seed, mem, setter, chosen, trouble, excused>>

\* The process ends, at any moment.
Exit == /\ app # "none" /\ app' = "none" /\ left' = {} /\ seed' = "none" /\ mem' = NoStore
        /\ setter' = [s \in Setters |-> NoCall] /\ job' = FALSE /\ read' = {}
        /\ UNCHANGED <<file, clock, chosen, trouble, excused>>

Next == \/ RunOld \/ OldSets \/ Launch \/ Tidy \/ Load
        \/ Call \/ Refuse \/ Update \/ JobStarts \/ Track \/ JobEnds \/ Exit
Spec == Init /\ [][Next]_vars

-----------------------------------------------------------------------------
(* Properties *)

\* What the user last set is what the app runs with, across launches, kills and an
\* older build in between - unless the config could not be read, moved or written since.
ChoiceSurvives == (app = "runs" /\ ~excused) => mem = chosen

\* The tracks of one run all see one policy.
OnePolicyPerRun == \A p, q \in read : p = q

-----------------------------------------------------------------------------
(* The inductive invariant that the property follows from. *)

Stores == [Keys -> Values \cup {0}]
TypeOK == /\ file \in [Names -> [at : Nat, data : Stores]]
          /\ clock \in Nat
          /\ app \in {"none", "tidy", "runs"} \cup Builds
          /\ left \subseteq Builds /\ seed \in Builds \cup {"none"}
          /\ mem \in Stores /\ chosen \in Stores
          /\ setter \in [Setters -> [pc : {"none", "frozen", "set"}, key : Keys, val : Values \cup {0}]]
          /\ excused \in BOOLEAN
\* What the user last set is in one place, written at the time of the last write.
Holds(n) == file[n].at = clock /\ file[n].data = chosen
FilesAreDated == \A n \in Names : /\ file[n].at <= clock
                                  /\ file[n].at = 0 => file[n].data = NoStore
                                  /\ \A m \in Names : file[n].at > 0 /\ file[m].at = file[n].at => m = n
Launching == app = "tidy" => IF seed \in left THEN Holds(seed) ELSE Holds("config")
ChoiceIsHeld == ~excused => /\ \E n \in Names : Holds(n)
                            /\ Launching
                            /\ app = "runs" => Holds("config") /\ mem = chosen
CallsAreTheApps == \A s \in Setters : setter[s].pc # "none" => app = "runs"
StoreInv == TypeOK /\ FilesAreDated /\ ChoiceIsHeld /\ CallsAreTheApps
=============================================================================
