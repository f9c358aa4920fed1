------------------------------ MODULE Startup ------------------------------
(***************************************************************************)
(* How the backend starts: it opens the SQLite file, applies the pending   *)
(* migrations, then listens. Each statement commits by itself; the row in  *)
(* schema_migrations is written after the last one. A process may die      *)
(* between any two statements, and two processes may start on one file:    *)
(* only the port, taken last, keeps the second out.                        *)
(*                                                                         *)
(* The schema is the set of the tables, indexes and columns it has. A      *)
(* statement is told apart by what it does to them and by when it fails.   *)
(***************************************************************************)
EXTENDS Naturals, Sequences, SequencesExt

CONSTANTS
    Procs, \* processes of the backend that may run
    Files  \* the migrations in the order of their names: sequences of statements

Ops == {"create", "create if missing", "add", "add if missing", "drop if there",
        "drop", "data", "postgres only"}

ASSUME StartupFiles ==
    /\ Files \in Seq(Seq([op : Ops, names : Seq(STRING)]))
    /\ \A f \in 1 .. Len(Files) : \A i \in 1 .. Len(Files[f]) : Files[f][i].names # <<>>

-----------------------------------------------------------------------------
(* What a file becomes before it is run.                                   *)

\* rewritePgDDL: constraints, extensions, comments and UPDATE ... FROM go; the
\* qualifiers of ADD COLUMN and DROP COLUMN are stripped.
Rewritten(s) ==
    CASE s.op = "postgres only" -> <<>>
      [] s.op = "add if missing" -> <<[s EXCEPT !.op = "add"]>>
      [] s.op = "drop if there" -> <<[s EXCEPT !.op = "drop"]>>
      [] OTHER -> <<s>>

rewritePgDDL(file) == FlattenSeq([i \in 1 .. Len(file) |-> Rewritten(file[i])])

\* expandMultiAddColumn: one statement for each column an ALTER TABLE adds. Of a
\* CREATE TABLE the first name is the table's, the others its columns'.
expandMultiAddColumn(s) ==
    IF s.op = "add"
    THEN [i \in 1 .. Len(s.names) |-> [op |-> s.op, name |-> s.names[i], adds |-> {s.names[i]}]]
    ELSE <<[op |-> s.op, name |-> Head(s.names), adds |-> ToSet(s.names)]>>

\* splitStatements of it all.
Script(f) ==
    LET file == rewritePgDDL(Files[f])
    IN FlattenSeq([i \in 1 .. Len(file) |-> expandMultiAddColumn(file[i])])

\* A later statement does not take back what an earlier one did: what is created
\* by itself is not dropped (0019 drops columns that came with their table), and
\* what is dropped is not added again.
Making == {"create", "create if missing", "add"}

UndoNothing ==
    \A f, g \in 1 .. Len(Files) : \A i \in 1 .. Len(Script(f)), j \in 1 .. Len(Script(g)) :
        f < g \/ (f = g /\ i < j) =>
            LET early == Script(f)[i]
                late == Script(g)[j]
            IN /\ early.op \in Making /\ late.op = "drop" => early.name # late.name
               /\ early.op = "drop" /\ late.op \in Making => early.name \notin late.adds

ASSUME MigrationsAdvance == UndoNothing

\* SQLite refuses a statement.
Refused(s, schema) ==
    \/ s.op \in {"create", "add"} /\ s.name \in schema
    \/ s.op = "drop" /\ s.name \notin schema

\* The schema after a statement that is not refused.
Result(s, schema) ==
    CASE s.op \in {"create", "add"} -> schema \cup s.adds
      [] s.op = "create if missing" /\ s.name \notin schema -> schema \cup s.adds
      [] s.op = "drop" -> schema \ {s.name}
      [] OTHER -> schema

-----------------------------------------------------------------------------
VARIABLES
    schema, \* what the file has
    booked, \* schema_migrations
    proc    \* progress of each process

bootVars == <<schema, booked, proc>>

Versions == 1 .. Len(Files)
Down == [pc |-> "down"]

\* A process of a binary with the first ver migrations.
Check(ver, f) == [pc |-> "check", ver |-> ver, file |-> f]
Run(ver, f, i) == [pc |-> "run", ver |-> ver, file |-> f, next |-> i]
Book(ver, f) == [pc |-> "book", ver |-> ver, file |-> f]
Listen(ver) == [pc |-> "listen", ver |-> ver]
Serve(ver) == [pc |-> "serve", ver |-> ver]

BootInit ==
    /\ schema = {}
    /\ booked = {}
    /\ proc = [p \in Procs |-> Down]

\* main: config, store.Open, and into Migrate.
Start(p) ==
    /\ proc[p] = Down
    /\ \E ver \in Versions : proc' = [proc EXCEPT ![p] = Check(ver, 1)]
    /\ UNCHANGED <<schema, booked>>

\* What follows the file f of a binary with ver of them.
After(ver, f) == IF f = ver THEN Listen(ver) ELSE Check(ver, f + 1)

\* Migrate looks whether the file is booked.
\* Mutant: it books the file first, that a second process may leave it alone.
MutantCheckFile(p) ==
    /\ proc[p].pc = "check"
    /\ LET ver == proc[p].ver
           f == proc[p].file
       IN /\ proc' = [proc EXCEPT ![p] = IF f \in booked THEN After(ver, f) ELSE Run(ver, f, 1)]
          /\ booked' = booked \cup {f}
    /\ UNCHANGED schema
CheckFile(p) ==
    /\ proc[p].pc = "check"
    /\ LET ver == proc[p].ver
           f == proc[p].file
       IN proc' = [proc EXCEPT ![p] = IF f \in booked THEN After(ver, f) ELSE Run(ver, f, 1)]
    /\ UNCHANGED <<schema, booked>>

\* The next statement; one that fails ends the process.
\* Mutant: a statement that fails ends the migration, and the start goes on.
MutantExecute(p) ==
    /\ proc[p].pc = "run"
    /\ LET ver == proc[p].ver
           f == proc[p].file
           i == proc[p].next
       IN IF i > Len(Script(f))
          THEN /\ proc' = [proc EXCEPT ![p] = Book(ver, f)]
               /\ UNCHANGED schema
          ELSE IF Refused(Script(f)[i], schema)
          THEN /\ proc' = [proc EXCEPT ![p] = Listen(ver)]
               /\ UNCHANGED schema
          ELSE /\ proc' = [proc EXCEPT ![p] = Run(ver, f, i + 1)]
               /\ schema' = Result(Script(f)[i], schema)
    /\ UNCHANGED booked
Execute(p) ==
    /\ proc[p].pc = "run"
    /\ LET ver == proc[p].ver
           f == proc[p].file
           i == proc[p].next
       IN IF i > Len(Script(f))
          THEN /\ proc' = [proc EXCEPT ![p] = Book(ver, f)]
               /\ UNCHANGED schema
          ELSE IF Refused(Script(f)[i], schema)
          THEN /\ proc' = [proc EXCEPT ![p] = Down]
               /\ UNCHANGED schema
          ELSE /\ proc' = [proc EXCEPT ![p] = Run(ver, f, i + 1)]
               /\ schema' = Result(Script(f)[i], schema)
    /\ UNCHANGED booked

\* INSERT INTO schema_migrations, which fails on a name that is there.
BookFile(p) ==
    /\ proc[p].pc = "book"
    /\ LET ver == proc[p].ver
           f == proc[p].file
       IN proc' = [proc EXCEPT ![p] = IF f \in booked THEN Down ELSE After(ver, f)]
    /\ booked' = booked \cup {proc[p].file}
    /\ UNCHANGED schema

\* ListenAndServe: the port is free, or the process ends.
ListenAndServe(p) ==
    /\ proc[p].pc = "listen"
    /\ LET taken == \E q \in Procs : proc[q].pc = "serve"
       IN proc' = [proc EXCEPT ![p] = IF taken THEN Down ELSE Serve(proc[p].ver)]
    /\ UNCHANGED <<schema, booked>>

\* A signal, a crash, a power cut.
Stop(p) ==
    /\ proc[p] # Down
    /\ proc' = [proc EXCEPT ![p] = Down]
    /\ UNCHANGED <<schema, booked>>

ProcNext(p) ==
    Start(p) \/ CheckFile(p) \/ Execute(p) \/ BookFile(p) \/ ListenAndServe(p) \/ Stop(p)

BootNext == \E p \in Procs : ProcNext(p)

BootSpec == BootInit /\ [][BootNext]_bootVars

-----------------------------------------------------------------------------
(* Properties.                                                             *)

\* What the statements of a script make of a schema, one after the other.
Along(script, from) ==
    LET made[i \in 0 .. Len(script)] ==
            IF i = 0 THEN from ELSE Result(script[i], made[i - 1])
    IN made

\* What the first k files make of an empty one.
Complete[k \in 0 .. Len(Files)] ==
    IF k = 0 THEN {} ELSE Along(Script(k), Complete[k - 1])[Len(Script(k))]

\* What the first k files and i statements of the next one make of it.
Made(k, i) == IF k < Len(Files) THEN Along(Script(k + 1), Complete[k])[i] ELSE Complete[k]

\* Whatever process dies where, whatever two do to one file at once and whatever
\* version each of them is: the schema is a point on the one path through the
\* migrations, at or after the files that are booked and before the next.
OnThePath ==
    \E k \in 0 .. Len(Files) :
        /\ booked = 1 .. k
        /\ \E i \in 0 .. (IF k < Len(Files) THEN Len(Script(k + 1)) ELSE 0) : schema = Made(k, i)

\* A process that serves has every migration it was built with behind it, though
\* another process may have applied, or be applying, some of them.
ServedIsComplete ==
    \A p \in Procs : proc[p].pc = "serve" => 1 .. proc[p].ver \subseteq booked

\* rewritePgDDL strips ADD COLUMN's qualifier: "Migrations are only ever applied
\* once thanks to schema_migrations bookkeeping".
AppliedOnce ==
    \A p \in Procs :
        proc[p].pc = "run" /\ proc[p].next <= Len(Script(proc[p].file)) =>
            LET s == Script(proc[p].file)[proc[p].next]
            IN s.op = "add" => s.name \notin schema
=============================================================================
