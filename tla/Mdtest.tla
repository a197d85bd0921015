------------------------------- MODULE Mdtest -------------------------------
(***************************************************************************)
(* mdtest (mdtest.c): the tasks of a job create, stat, read and remove     *)
(* directories and files in a tree of directories, phase by phase, and for *)
(* several iterations.  An option shifts the names between the phases, so  *)
(* that a task meets what another one has made.  Jobs follow each other on *)
(* the same file system.  Times are abstracted to choices: with a          *)
(* stonewall timer the time may be up after any item.                      *)
(***************************************************************************)
EXTENDS Integers, FiniteSets, SequencesExt

CONSTANTS Size,             \* tasks of a job
          Jobs              \* sequences of options, one for each job

MdtestAssumption == Size \in Nat \ {0}

VARIABLES jobs, job,        \* the jobs, and which one runs
          program,          \* the parts of an iteration
          task,             \* the variables of each task
          calls,            \* what each task has still to do in its part
          fs,               \* the paths that exist, as sequences of names
          seen,             \* what the phase has visited
          status,           \* the stonewall status file
          failed            \* FAIL, that is MPI_Abort

vars == <<jobs, job, program, task, calls, fs, seen, status, failed>>

Task == 0 .. Size - 1
opt  == jobs[job]
None == -1
Empty == -2

-----------------------------------------------------------------------------
(* valid_tests, the checks of the options that are modelled.               *)
valid_tests(o) ==
  /\ ~(o.wall /\ o.branch_factor > 1) /\ o.barriers
  /\ ~(o.shared_file /\ o.collective_creates)
  /\ ~(o.path_count > 1 /\ (o.collective_creates \/ o.nstride > 0 \/ ~o.unique_dir))
  /\ ~(o.unique_dir /\ o.shared_file)
  /\ o.path_count <= Size
  /\ ~(o.branch_factor < 1 /\ o.depth > 0)
  /\ (o.items > 0 /\ o.items_per_dir > 0) =>
       ~o.unique_dir /\ o.items % o.items_per_dir = 0 /\ ~o.wall

directory_loops(o) == IF o.items > 0 /\ o.items_per_dir > 0 /\ ~o.unique_dir
                        THEN o.items \div o.items_per_dir ELSE 1

Leaves(o) == o.branch_factor ^ o.depth
num_dirs_in_tree(o) ==
  IF o.depth <= 0 \/ o.branch_factor < 1 THEN 1
  ELSE IF o.branch_factor = 1 THEN o.depth + 1
  ELSE (o.branch_factor ^ (o.depth + 1) - 1) \div (o.branch_factor - 1)

(* Directories of a tree that get items.                                   *)
Holders(o) == IF ~o.leaf_only THEN num_dirs_in_tree(o)
              ELSE IF o.branch_factor <= 1 THEN 1 ELSE Leaves(o)
items_per_dir(o) == IF o.items_per_dir > 0 THEN o.items_per_dir ELSE o.items \div Holders(o)
InitialItems(o) == IF o.items_per_dir > 0
                     THEN IF o.items = 0 THEN o.items_per_dir * Holders(o) ELSE o.items
                     ELSE items_per_dir(o) * Holders(o)
num_dirs_in_tree_calc(o) ==
  IF o.items_per_dir > 0 /\ o.items > 0 THEN num_dirs_in_tree(o) ELSE 0

-----------------------------------------------------------------------------
(* Paths.                                                                  *)
testdir(t, loop) == <<"testdir", t % opt.path_count, task[t].iteration, loop>>
base_tree_name(t) == IF opt.unique_dir THEN t ELSE None
Shifted(t, by) == (t + by * opt.nstride) % Size

Shift == [create |-> 0, stat |-> 1, read |-> 2, remove |-> 3]
(* The task in the names of the items: mk_name to rm_name.                 *)
item_name(t, phase) == IF opt.shared_file THEN None ELSE Shifted(t, Shift[phase])

(* The root of the tree of a phase, from unique_chdir_dir to unique_rm_dir.*)
(* collective_create_remove has put testdir into these names again.        *)
unique_dir_access(t, phase, loop) ==
  <<testdir(t, loop)>>
    \o (IF opt.unique_dir /\ task[t].prefixed THEN <<testdir(t, loop)>> ELSE <<>>)
    \o << <<"tree", IF opt.unique_dir THEN Shifted(t, Shift[phase] + 1) ELSE None, 0>> >>

RECURSIVE Below(_, _, _, _, _)
(* The directories below one, in the order of the recursion: parents first *)
(* or (to remove them) last.                                               *)
Below(path, base, currDepth, dirNum, first) ==
  IF currDepth > opt.depth THEN <<>>
  ELSE FlattenSeq([i \in 1 .. opt.branch_factor |->
         LET n    == dirNum + i - 1
             dir  == Append(path, <<"tree", base, n>>)
             rest == Below(dir, base, currDepth + 1, n * opt.branch_factor + 1, first)
         IN  IF first THEN <<dir>> \o rest ELSE Append(rest, dir)])

RECURSIVE Climb(_)
(* The directories above an item, found from the number of its directory.  *)
Climb(dir) == IF dir = 0 THEN <<>>
              ELSE IF dir <= opt.branch_factor THEN <<dir>>
              ELSE Append(Climb((dir - 1) \div opt.branch_factor), dir)

-----------------------------------------------------------------------------
(* What a task does in a part of the program, as a sequence of calls on    *)
(* the file system.                                                        *)
OpOn(op, path) == [op |-> op, path |-> path, dir |-> 0, i |-> 0]

Kind(dirs) == IF dirs THEN "dir" ELSE "file"

(* create_remove_items: the items from number from on in every directory.  *)
Items(op, root, base, dirs, name, from, to) ==
  LET tree == <<root>> \o Below(root, base, 1, 1, TRUE)
      held == SelectSeq(tree, LAMBDA d : ~opt.leaf_only \/ Len(d) = Len(root) + opt.depth)
  IN  FlattenSeq([k \in 1 .. Len(held) |->
        [i \in 1 .. IF to > from THEN to - from ELSE 0 |->
          [op   |-> op, dir |-> k, i |-> from + i - 1,
           path |-> Append(held[k], <<Kind(dirs), name,
                                      Last(held[k])[3] * items_per_dir(opt) + from + i - 1>>)]]])

OwnItems(t, op, phase, dirs, loop, from) ==
  Items(op, unique_dir_access(t, phase, loop), base_tree_name(t), dirs,
        item_name(t, phase), from, task[t].items_per_dir)

(* collective_create_remove: task 0 does it for all.                       *)
AllItems(t, op, phase, dirs, loop, from) ==
  FlattenSeq([k \in 1 .. Size |->
    LET base == base_tree_name(k - 1)
        ops  == Items(op, <<testdir(t, loop), <<"tree", base, 0>> >>, base, dirs,
                      item_name(k - 1, phase), from, task[t].items_per_dir)
    IN  [n \in DOMAIN ops |-> [ops[n] EXCEPT !.dir = @ + k * num_dirs_in_tree(opt)]]])

BugStopItems(t) == items_per_dir(opt)
stop_items(t) == IF directory_loops(opt) # 1 THEN items_per_dir(opt) ELSE task[t].items

(* The items in the order of the numbers or at random.                     *)
Visits(t, op, dirs, loop) ==
  [i \in 1 .. stop_items(t) |->
    LET drawn == IF i <= Len(task[t].rand_array) THEN task[t].rand_array[i] ELSE None
        n == (IF opt.random THEN drawn ELSE i - 1)
               + (IF opt.leaf_only
                    THEN items_per_dir(opt) * (num_dirs_in_tree(opt) - Leaves(opt)) ELSE 0)
        up == IF n < 0 THEN <<>> ELSE Climb(n \div items_per_dir(opt))
    IN  OpOn(op, unique_dir_access(t, op, loop)
                   \o [k \in DOMAIN up |-> <<"tree", base_tree_name(t), up[k]>>]
                   \o << <<Kind(dirs), item_name(t, op), n>> >>)]

mdtest_stat(t, dirs, loop) == Visits(t, "stat", dirs, loop)
mdtest_read(t, dirs, loop) == Visits(t, "read", dirs, loop)

(* The trees a task makes and removes.                                     *)
Trees(t) == IF opt.unique_dir /\ opt.collective_creates
              THEN IF t = 0 THEN [k \in 1 .. Size |-> k - 1] ELSE <<>>
            ELSE IF opt.unique_dir THEN <<t>> ELSE IF t = 0 THEN <<None>> ELSE <<>>

Loops == [l \in 1 .. directory_loops(opt) |-> l - 1]
BugOnlyFirst(t, op) == IF t >= opt.path_count \/ (t # 0 /\ op = "rmtestdir") THEN <<>>
                       ELSE [l \in DOMAIN Loops |-> OpOn(op, <<testdir(t, Loops[l])>>)]
TestDirs(t, op) == IF t >= opt.path_count THEN <<>>
                   ELSE [l \in DOMAIN Loops |-> OpOn(op, <<testdir(t, Loops[l])>>)]

create_remove_directory_tree(t, create) ==
  FlattenSeq([l \in DOMAIN Loops |-> FlattenSeq([k \in DOMAIN Trees(t) |->
    LET root == <<testdir(t, Loops[l]), <<"tree", Trees(t)[k], 0>> >>
        dirs == Below(root, Trees(t)[k], 1, 1, create)
    IN  IF create
          THEN <<OpOn("mkroot", root)>> \o [d \in DOMAIN dirs |-> OpOn("mkdir", dirs[d])]
          ELSE Append([d \in DOMAIN dirs |-> OpOn("rmdir", dirs[d])], OpOn("rmdir", root))])])

-----------------------------------------------------------------------------
(* The program: its parts in their order.  All tasks meet in the parts     *)
(* "barrier", "wall" and "load".                                           *)
Part(k, dirs, loop) == [part |-> k, dirs |-> dirs, loop |-> loop]
Barrier == <<Part("barrier", FALSE, 0)>>
If(c, s) == IF c THEN s ELSE <<>>
ForLoops(dirs, parts) ==
  FlattenSeq([l \in DOMAIN Loops |-> [p \in DOMAIN parts |-> Part(parts[p], dirs, Loops[l])]])

Does(phase) == opt.phases = {} \/ phase \in opt.phases

BugNoBarrier(dirs) == <<>>
(* The barrier between two phases.                                         *)
PhaseBarrier(dirs) == If(opt.barriers, Barrier)

Creation(dirs) ==
  ForLoops(dirs,
    If(opt.unique_dir, <<"barrier">>)
      \o (IF opt.collective_creates
            THEN <<"collect">> \o If(~dirs, <<"barrier", "create">>) ELSE <<"create">>)
      \o If(~dirs /\ opt.wall,
            <<"wall", "again">> \o If(opt.status_file, <<"store">>) \o <<"nowall">>))

Visiting(dirs) ==
  If(Does("stat"), ForLoops(dirs, <<"stat">>))
    \o PhaseBarrier(dirs) \o If(Does("read") /\ ~dirs, ForLoops(dirs, <<"read">>))
Removal(dirs) == If(Does("remove"), ForLoops(dirs, <<"remove">>))

directory_test ==
  Barrier \o If(Does("create"), Creation(TRUE)) \o PhaseBarrier(TRUE)
    \o Visiting(TRUE) \o PhaseBarrier(TRUE) \o Removal(TRUE) \o PhaseBarrier(TRUE)

file_test ==
  Barrier
    \o (IF Does("create") THEN Creation(FALSE)
        ELSE If(opt.status_file, <<Part("load", FALSE, 0)>>))
    \o PhaseBarrier(FALSE) \o Visiting(FALSE) \o PhaseBarrier(FALSE)
    \o Removal(FALSE) \o PhaseBarrier(FALSE) \o <<Part("scale", FALSE, 0)>>

TreeRemoval ==
  If(Does("remove"),
     <<Part("rmtree", FALSE, 0)>> \o Barrier \o <<Part("rmtestdir", FALSE, 0)>>)

mdtest_iteration ==
  <<Part("mktestdir", FALSE, 0)>>
    \o If(Does("create"), Barrier \o <<Part("mktree", FALSE, 0)>> \o Barrier)
    \o If((opt.dirs_only \/ ~opt.files_only) /\ ~opt.shared_file, directory_test)
    \o If(opt.files_only \/ ~opt.dirs_only, file_test)
    \o Barrier \o TreeRemoval
    \o <<Part("next", FALSE, 0), Part("summary", FALSE, 0)>>

Now(t) == program[task[t].at]

Calls(t) ==
  LET e == Now(t)
      x == task[t]
      create == IF e.dirs THEN "mkdir" ELSE IF opt.collective_creates THEN "open" ELSE "create"
      delete == IF e.dirs THEN "rmdir" ELSE IF opt.shared_file /\ t # 0 THEN "skip" ELSE "delete"
      from   == IF e.dirs THEN x.items_start ELSE 0
  IN  CASE e.part = "mktestdir" -> TestDirs(t, "touch")
        [] e.part = "mktree"    -> create_remove_directory_tree(t, TRUE)
        [] e.part = "collect" /\ t = 0 ->
             AllItems(t, IF e.dirs THEN "mkdir" ELSE "create", "create", e.dirs, e.loop, x.items_start)
        [] e.part = "create" \/ (e.part = "again" /\ x.hit) ->
             OwnItems(t, create, "create", e.dirs, e.loop, x.items_start)
        [] e.part = "stat"      -> mdtest_stat(t, e.dirs, e.loop)
        [] e.part = "read"      -> mdtest_read(t, e.dirs, e.loop)
        [] e.part = "remove" /\ ~opt.collective_creates ->
             OwnItems(t, delete, "remove", e.dirs, e.loop, from)
        [] e.part = "remove" /\ opt.collective_creates /\ t = 0 ->
             AllItems(t, delete, "remove", e.dirs, e.loop, from)
        [] e.part = "rmtree"    -> create_remove_directory_tree(t, FALSE)
        [] e.part = "rmtestdir" -> TestDirs(t, "rmtestdir")
        [] OTHER                -> <<>>

-----------------------------------------------------------------------------
(* The POSIX backend.                                                      *)
There(path) == Len(path) = 0 \/ path \in fs
IsEmpty(path) == \A q \in fs : Len(q) # Len(path) + 1 \/ Front(q) # path

(* What FAIL is called for.  A tree's root that cannot be made and a file  *)
(* that cannot be removed are only warned of.                              *)
Succeeds(c) ==
  CASE c.op = "mkdir"  -> c.path \notin fs /\ There(Front(c.path))
    [] c.op = "create" -> There(Front(c.path))
    [] c.op \in {"open", "stat", "read"} -> There(c.path)
    [] c.op = "rmdir"  -> There(c.path) /\ IsEmpty(c.path)
    [] c.op = "rmtestdir" -> IsEmpty(c.path)
    [] OTHER -> TRUE

After(c) ==
  CASE c.op \in {"mkdir", "create", "touch"} -> fs \cup {c.path}
    [] c.op = "mkroot" -> fs \cup (IF There(Front(c.path)) THEN {c.path} ELSE {})
    [] c.op \in {"rmdir", "rmtestdir", "delete"} -> fs \ {c.path}
    [] OTHER -> fs

-----------------------------------------------------------------------------
Shuffles(n) == {p \in [1 .. n -> 0 .. n - 1] : \A a, b \in 1 .. n : p[a] = p[b] => a = b}

(* A task at the beginning of an iteration.                                *)
Fresh(o) == [at |-> 1, items_start |-> 0, items_done |-> 0,
             items_per_dir |-> items_per_dir(o), wall |-> o.wall, late |-> FALSE,
             stopped |-> FALSE, hit |-> FALSE, prefixed |-> FALSE]
Begin(o, order) == [iteration |-> 0, items |-> InitialItems(o), rand_array |-> order] @@ Fresh(o)

Orders(o) == IF o.random THEN Shuffles(InitialItems(o)) ELSE {<<>>}
(* -f and -l: tasks that are left out have no communicator for barriers.   *)
CanStart(o) == valid_tests(o) /\ (o.last = 0 \/ o.first >= Size)

Init ==
  /\ jobs \in Jobs /\ job = 1
  /\ \E order \in [Task -> Orders(opt)] : task = [t \in Task |-> Begin(opt, order[t])]
  /\ program = mdtest_iteration /\ calls = [t \in Task |-> Calls(t)]
  /\ fs = {} /\ seen = {} /\ status = None
  /\ failed = ~CanStart(opt)

Go(t, r) == task' = [task EXCEPT ![t] = r @@ @]
(* Tasks go on to their next parts.                                        *)
Enter(S) == calls' = [t \in Task |-> IF t \in S THEN Calls(t)' ELSE calls[t]]

(* The parts that make or remove items, and those in which task 0 does it  *)
(* for all.                                                                *)
OfItems(e)    == e.part \in {"create", "again", "remove", "collect"}
Collective(e) == e.part = "collect" \/ (e.part = "remove" /\ opt.collective_creates)

(* items_done after call c: all when the last item of a directory is done, *)
(* and, when the time is up, those so far unless there was a number before.*)
Counted(t, c, stop) ==
  LET x    == task[t]
      last == Len(calls[t]) = 1 \/ calls[t][2].dir # c.dir
  IN  CASE stop /\ (x.items_done = 0 \/ Collective(Now(t))) -> c.i + 1
        [] ~stop /\ OfItems(Now(t)) /\ last                 -> x.items_per_dir
        [] OTHER                                            -> x.items_done

(* One call, and after an item the look at the clock: CHECK_STONE_WALL     *)
(* ends the work on this directory (not on the others).                    *)
Call(t) ==
  LET x == task[t]
      c == Head(calls[t])
      timed == x.wall /\ OfItems(Now(t)) /\ ~(Collective(Now(t)) /\ Now(t).dirs)
  IN  /\ calls[t] # <<>>
      /\ failed' = ~Succeeds(c)
      /\ fs' = IF Succeeds(c) THEN After(c) ELSE fs
      /\ seen' = IF c.op \in {"stat", "read"} THEN seen \cup {c.path} ELSE seen
      /\ \E late \in {x.late, x.late \/ timed} :
           LET stop == timed /\ late
           IN  /\ Go(t, [late |-> late, stopped |-> x.stopped \/ stop,
                         items_done |-> Counted(t, c, stop)])
               /\ calls' = [calls EXCEPT ![t] =
                              IF stop THEN SelectSeq(@, LAMBDA d : d.dir > c.dir) ELSE Tail(@)]
      /\ UNCHANGED <<jobs, job, program, status>>

(* After the rest has been made up for: items = progress->items_done.      *)
Resumed(t, done) == IF task[t].hit THEN [items |-> done] ELSE [items |-> task[t].items]

(* The end of a part.                                                      *)
Advance(t) ==
  LET x == task[t]
      e == Now(t)
      done == IF e.part \in {"create", "remove"} \/ (e.part = "collect" /\ t = 0)
                   \/ (e.part = "again" /\ x.hit)
                THEN IF x.stopped THEN x.items_done ELSE x.items_per_dir
                ELSE x.items_done
      on == [at |-> x.at + 1, stopped |-> FALSE, items_done |-> done]
  IN  /\ calls[t] = <<>> /\ e.part \notin {"barrier", "wall", "load", "summary"}
      /\ Go(t, CASE e.part \in {"collect", "remove"} /\ opt.collective_creates /\ t = 0 ->
                      [prefixed |-> TRUE] @@ on
                 [] e.part = "again" -> Resumed(t, done) @@ on
                 [] e.part = "nowall" -> [wall |-> FALSE] @@ on
                 [] e.part = "scale" /\ num_dirs_in_tree_calc(opt) # 0 ->
                      [items |-> x.items * num_dirs_in_tree_calc(opt)] @@ on
                 [] e.part = "next" /\ x.iteration + 1 < opt.iterations ->
                      [iteration |-> x.iteration + 1] @@ Fresh(opt)
                 [] OTHER -> on)
      /\ UNCHANGED <<jobs, job, program>>
      /\ Enter({t})
      /\ status' = IF e.part = "store" /\ t = 0 THEN x.items_done ELSE status
      /\ UNCHANGED <<fs, seen, failed>>

BugOnlyLate(part) == /\ \A t \in Task : Now(t).part = part /\ task[t].at = task[0].at
                     /\ part = "wall" => \A t \in Task : task[t].late
(* All tasks are in the same part.                                         *)
Meet(part) == \A t \in Task : Now(t).part = part /\ task[t].at = task[0].at

MPI_Barrier ==
  /\ Meet("barrier")
  /\ task' = [t \in Task |-> [task[t] EXCEPT !.at = @ + 1]]
  /\ seen' = {}
  /\ UNCHANGED <<jobs, job, program>>
  /\ Enter(Task)
  /\ UNCHANGED <<fs, status, failed>>

BugLeast(S) == CHOOSE n \in S : \A m \in S : n <= m
Most(S) == CHOOSE n \in S : \A m \in S : m <= n

(* updateStoneWallIterations.  Only task 0 knows the sum.                  *)
updateStoneWallIterations ==
  /\ Meet("wall")
  /\ LET most == Most({task[t].items_done : t \in Task})
         sum  == FoldFunction(LAMBDA x, n : x.items_done + n, 0, task)
     IN  task' = [t \in Task |->
           [at |-> task[t].at + 1, items_start |-> task[t].items_done, items_per_dir |-> most,
            wall |-> FALSE,
            hit |-> task[t].items # (IF t = 0 THEN sum ELSE 0) \div Size] @@ task[t]]
  /\ UNCHANGED <<jobs, job, program>>
  /\ Enter(Task)
  /\ UNCHANGED <<fs, seen, status, failed>>

(* ReadStoneWallingIterations, whose value task 0 sends to all.  A file    *)
(* without a number in it is not announced to the others.                  *)
ReadStoneWallingIterations ==
  /\ \/ /\ Meet("load") /\ status # Empty
        /\ task' = [t \in Task |->
             [at |-> task[t].at + 1,
              items |-> IF status >= 0 THEN status ELSE task[t].items,
              items_per_dir |-> IF status >= 0 THEN status ELSE task[t].items_per_dir] @@ task[t]]
     \/ /\ Now(0).part = "load" /\ status = Empty
        /\ Go(0, [at |-> task[0].at + 1])
  /\ UNCHANGED <<jobs, job, program>>
  /\ Enter(Task)
  /\ UNCHANGED <<fs, seen, status, failed>>

(* The next job of the series.                                             *)
NextJob ==
  /\ Meet("summary") /\ job < Len(jobs)
  /\ job' = job + 1
  /\ LET o == jobs[job + 1]
     IN  /\ \E order \in [Task -> Orders(o)] : task' = [t \in Task |-> Begin(o, order[t])]
         /\ failed' = ~CanStart(o)
  /\ UNCHANGED jobs
  /\ program' = mdtest_iteration'
  /\ Enter(Task)
  /\ UNCHANGED <<fs, seen, status>>

(* A job that is killed between fopen and fprintf of the status file.      *)
Killed ==
  /\ opt.fragile /\ Now(0).part = "store" /\ job < Len(jobs)
  /\ job' = job + 1 /\ status' = Empty
  /\ task' = [t \in Task |-> Begin(jobs[job + 1], <<>>)]
  /\ UNCHANGED jobs
  /\ program' = mdtest_iteration'
  /\ Enter(Task)
  /\ UNCHANGED <<fs, seen, failed>>

Running == \/ \E t \in Task : Call(t) \/ Advance(t)
           \/ MPI_Barrier \/ updateStoneWallIterations \/ ReadStoneWallingIterations
           \/ NextJob

Next == ~failed /\ (Running \/ Killed)

Spec == Init /\ [][Next]_vars

(* Tasks run, MPI lets go whom it may let go, and jobs are started.        *)
FairSpec == Spec /\ WF_vars(~failed /\ Running)

-----------------------------------------------------------------------------
ItemsThere(kind) == {p \in fs : Last(p)[1] = kind}

(* No call of a phase fails: what it works on has been made by the phase   *)
(* before, by whichever task, and is not yet removed.                      *)
NoFailure == ~failed

(* A phase that stats or reads visits every item that has been made.       *)
EveryItemVisited ==
  \A k \in 2 .. Len(program) :
    (\A t \in Task : task[t].at = k) /\ program[k - 1].part \in {"stat", "read"}
      /\ program[k].part = "barrier"
      => ItemsThere(Kind(program[k - 1].dirs)) \subseteq seen

(* -W: "ensure all processes did the same number of operations": after the *)
(* stonewall each task has the items 0, 1, .. up to the same number.       *)
SameNumberOfItems ==
  (\A t \in Task : Now(t).part = "nowall") =>
    /\ \A t, u \in Task : task[t].items = task[u].items
    /\ {<<Last(p)[2], Last(p)[3]>> : p \in ItemsThere("file")}
         = {item_name(t, "create") : t \in Task} \X (0 .. task[0].items - 1)

(* Jobs that remove leave nothing behind.                                  *)
NothingLeftBehind ==
  (\A t \in Task : Now(t).part = "summary") /\ Does("remove") => fs = {}

(* The end of the last job.                                                *)
Ended == failed \/ (job = Len(jobs) /\ \A t \in Task : Now(t).part = "summary")
=============================================================================
