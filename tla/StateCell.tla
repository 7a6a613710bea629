------------------------------ MODULE StateCell ------------------------------
(***************************************************************************)
(* A cell of the state layer (service/state_cell.lua) whose state is a     *)
(* table of tables: the differences of lualib/ltdiff.lua that it is sent   *)
(* and keeps, and how it saves the state to the database and quits.        *)
(* Module Starre has the locks and the workers' copies; here the one that  *)
(* has the lock sends any new state, and every older copy is brought up to *)
(* date.                                                                   *)
(*                                                                         *)
(* A table of tables is a function from the paths that have a value to the *)
(* values.  The Lua functions recurse over sub; here a difference names    *)
(* the whole paths.                                                        *)
(***************************************************************************)
EXTENDS Naturals, Sequences, FiniteSets, SequencesExt

CONSTANTS Paths,      \* sequences of keys (bound)
          Leaves,     \* values that are no tables
          Table,      \* what a path to a table has
          MaxPatches, \* bound, of a cell that does not save
          MaxSaved    \* bound, of one that does

StateCellAssumption ==
  /\ Paths \subseteq Seq(STRING) /\ Table \notin Leaves /\ {MaxPatches, MaxSaved} \subseteq Nat
  /\ \A p \in Paths : Len(p) > 1 => Front(p) \in Paths

VARIABLES conf,     \* how the state is saved: not at all, at once, after a delay
          t,
          patches,  \* the differences kept
          shared,   \* of each, the paths whose table is a part of t now
          was,      \* the state of every version (history)
          timing, quit,
          waits,    \* updates of the database the cell awaits
          updates,  \* and those the database has not made
          saved,    \* the state in the database
          exit,     \* the cell was told to exit
          gone,     \* it has quit
          overlap   \* a save was delayed while one was awaited (history)

saving == <<timing, waits, updates, saved, overlap>>
vars == <<conf, t, patches, shared, was, quit, exit, gone, saving>>

IsTable(s, p) == p = <<>> \/ (p \in DOMAIN s /\ s[p] = Table)
Trees == {s \in UNION {[P -> Leaves \cup {Table}] : P \in SUBSET Paths} :
            \A p \in DOMAIN s : IsTable(s, Front(p))}
Below(s, p) == [q \in {x \in DOMAIN s : IsPrefix(p, x)} |-> s[q]]

-----------------------------------------------------------------------------
(* table_diff: of the paths both have a table at the end of, those whose key
   B does not have, and those where B has something else. *)
Diff(A, B) ==
  LET looked == {p \in Paths : IsTable(A, Front(p)) /\ IsTable(B, Front(p))}
      mod == {p \in looked \cap DOMAIN B :
                ~(IsTable(A, p) /\ IsTable(B, p)) /\ (p \in DOMAIN A => A[p] # B[p])}
  IN [del |-> {p \in looked \cap DOMAIN A : p \notin DOMAIN B},
      mod |-> [p \in mod |-> Below(B, p)]]

Touched(d) == d.del \cup DOMAIN d.mod
Replaced(d) == {p \in Paths : \E q \in Touched(d) : IsPrefix(q, p)}
Error == [p \in {<<>>} |-> "attempt to index"]  \* no table: has a value at no key

(* table_patch.  It fails at the key of something that is no table. *)
Patch(A, d) ==
  IF A = Error \/ \E p \in Touched(d) : ~IsTable(A, Front(p)) THEN Error
  ELSE LET kept == DOMAIN A \ Replaced(d)
           new == UNION {DOMAIN d.mod[p] : p \in DOMAIN d.mod}
       IN [q \in kept \cup new |->
             IF q \in new THEN d.mod[CHOOSE p \in DOMAIN d.mod : q \in DOMAIN d.mod[p]][q]
             ELSE A[q]]

-----------------------------------------------------------------------------
Version == Len(patches)

Init ==
  /\ conf \in {"none", "now", "delay"}
  /\ t \in Trees /\ was = <<t>> /\ saved = t
  /\ patches = <<>> /\ shared = <<>>
  /\ timing = FALSE /\ quit = FALSE /\ exit = FALSE /\ gone = FALSE /\ overlap = FALSE
  /\ waits = 0 /\ updates = <<>>

(* patches[#patches + 1] = diff: a table in it becomes a part of t, and what
   later patches do to it they do to the kept difference. *)
Keep(d, new) ==
  LET still == Append([i \in DOMAIN shared |-> shared[i] \ Replaced(d)],
                      {p \in DOMAIN d.mod : IsTable(new, p)})
      kept == Append(patches, d)
  IN /\ shared' = still
     /\ patches' = [i \in DOMAIN kept |->
          [kept[i] EXCEPT !.mod = [p \in DOMAIN @ |->
             IF p \in still[i] THEN Below(new, p) ELSE @[p]]]]

Update(state) == waits' = waits + 1 /\ updates' = Append(updates, state) /\ UNCHANGED saved

(* delay_save *)
DelaySave == timing' = TRUE /\ overlap' = (overlap \/ (~timing /\ waits > 0))
             /\ UNCHANGED <<waits, updates, saved>>

(* S.patch.  state_mgr sends one when the last was answered, and none after
   exit. *)
PatchCell(new) ==
  /\ ~exit /\ (conf = "now" => waits = 0)
  /\ Version < IF conf = "none" THEN MaxPatches ELSE MaxSaved
  /\ Diff(t, new) # [del |-> {}, mod |-> <<>>]
  /\ t' = Patch(t, Diff(t, new)) /\ was' = Append(was, new)
  /\ Keep(Diff(t, new), new)
  /\ CASE conf = "none" -> UNCHANGED saving
       [] conf = "now" -> Update(t') /\ UNCHANGED <<timing, overlap>>
       [] conf = "delay" -> DelaySave
  /\ UNCHANGED <<conf, quit, exit, gone>>

(* The function of delay_save, to its call of the database ... *)
Timeout ==
  /\ timing /\ ~gone
  /\ timing' = FALSE /\ Update(t)
  /\ UNCHANGED <<conf, t, patches, shared, was, quit, exit, gone, overlap>>

(* ... and after it. *)
Updated ==
  /\ waits > Len(updates) /\ ~gone
  /\ waits' = waits - 1 /\ gone' = quit
  /\ UNCHANGED <<conf, t, patches, shared, was, timing, quit, updates, saved, exit, overlap>>

(* The database service *)
Database ==
  /\ updates # <<>> /\ saved' = Head(updates) /\ updates' = Tail(updates)
  /\ UNCHANGED <<conf, t, patches, shared, was, timing, quit, waits, exit, gone, overlap>>

(* mutant: the cell does not wait for its delayed save *)
ExitAtOnce == gone' = TRUE /\ quit' = quit

LeaveOrWait == IF timing THEN quit' = TRUE /\ UNCHANGED gone
               ELSE gone' = TRUE /\ UNCHANGED quit

(* S.exit *)
Exit == /\ ~exit /\ exit' = TRUE /\ LeaveOrWait
        /\ UNCHANGED <<conf, t, patches, shared, was, saving>>

Next == (\E new \in Trees : PatchCell(new)) \/ Timeout \/ Updated \/ Database \/ Exit
Spec == Init /\ [][Next]_vars

-----------------------------------------------------------------------------
(* mutant: the first of the missing patches is left out *)
PatchesAfter(v) == SubSeq(patches, v + 2, Version)

(* S.query: what a copy of version v is sent *)
PatchesSince(v) == SubSeq(patches, v + 1, Version)

(* Differences and their versions are what the patches kept since make of
   them; the database never has a state no version had. *)
TypeOK ==
  /\ t \in Trees /\ Len(was) = Version + 1 /\ Len(shared) = Version
  /\ \A i \in DOMAIN shared : shared[i] \subseteq DOMAIN patches[i].mod
  /\ waits >= Len(updates)
  /\ {saved} \cup ToSet(updates) \subseteq ToSet(was)

(* A copy of any version from 1 on, brought up to date by the patches kept,
   is the state of the cell, or the patches fail: although the tables in the
   differences were changed by later patches, no copy is silently wrong.
   (They do fail when a table in one lost a key of a later one: README.) *)
CatchUp ==
  /\ t = was[Version + 1]
  /\ \A v \in 1..Version : FoldLeft(Patch, was[v + 1], PatchesSince(v)) \in {t, Error}

(* The state the database will have *)
Stored == IF updates = <<>> THEN saved ELSE Last(updates)

(* A cell quits when its state is saved, whenever it is told to exit, unless
   a save was delayed while another one was awaited. *)
SavedOrOverlapped == gone /\ conf # "none" => Stored = t \/ overlap

=============================================================================
