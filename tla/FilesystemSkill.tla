--------------------------- MODULE FilesystemSkill ---------------------------
(***************************************************************************)
(* The filesystem Skill: what skills/filesystem_executor.py does with one  *)
(* structured call, given the file context of the turn and the files.      *)
(*                                                                         *)
(* A file is its content; a path the model proposes in a name_intent is    *)
(* the path the runtime normalizes it to.  A placeholder file name counts  *)
(* as no name (is_placeholder_filename drops it everywhere).               *)
(***************************************************************************)
EXTENDS Naturals

CONSTANT Paths
NoPath == "no path"
PathOrNone == Paths \cup {NoPath}

Absent == 0                       \* the content of a path with no file
Contents == {Absent, 1, 2}

Unset == "unset"                  \* the call has no (known) operation
FileToFile == {"copy_file", "rename_file"}
HighRisk == FileToFile \cup {"replace_text"}
Operations == HighRisk \cup {"read_file", "path_exists"}

\* A structured input.  src stands for src or path, name for the path of the
\* operation_intent, based for its content_based name_policy; again and filled
\* are changes the runtime makes (goal_recovery, completed fields).
Inputs == [op : Operations \cup {Unset}, src : PathOrNone, dst : PathOrNone, name : PathOrNone,
           based : BOOLEAN, again : BOOLEAN, filled : BOOLEAN]
Blank == [op |-> Unset, src |-> NoPath, dst |-> NoPath, name |-> NoPath,
          based |-> FALSE, again |-> FALSE, filled |-> FALSE]

\* context_metadata: active_file, and the path of last_file_operation_result
\* when that result is a completed read.
Contexts == [active : PathOrNone, read : PathOrNone]

Exists(files, p) == p # NoPath /\ files[p] # Absent
Otherwise(p, q) == IF p # NoPath THEN p ELSE q

----------------------------------------------------------------------------
(* Arguments.                                                              *)

\* Mutant: a taken name is replaced by a free one.
FreeNameIntent(i, files) ==
    IF i.name = NoPath \/ ~Exists(files, i.name) THEN i.name
    ELSE CHOOSE p \in Paths : ~Exists(files, p) \/ \A q \in Paths : Exists(files, q)

\* The model's name, unless a file has it already.
FromNameIntent(i, files) == IF Exists(files, i.name) THEN NoPath ELSE i.name

\* complete_copy_file_arguments and complete_move_file_arguments.
Completed(i, ctx, files) ==
    [i EXCEPT !.src = Otherwise(@, ctx.active), !.dst = Otherwise(FromNameIntent(i, files), @)]

\* _has_completed_content_read.
ContentRead(a, ctx) == ctx.read # NoPath /\ a.src \in {NoPath, ctx.read}

----------------------------------------------------------------------------
(* Results.  next is next_action ("none": no recovery route), op the       *)
(* operation the payload names, args the arguments it carries.             *)

Result(status, op, next, args) == [status |-> status, op |-> op, next |-> next, args |-> args]
Recoverable(a, next) == Result("failed", a.op, next, a)

\* The script's own checks, and the files it leaves (overwrite is false).
ScriptOk(a, files) ==
    /\ a.op # "path_exists" => Exists(files, a.src)
    /\ a.op \in FileToFile => ~Exists(files, a.dst)
After(a, files) ==
    CASE a.op = "copy_file"    -> [files EXCEPT ![a.dst] = files[a.src]]
      [] a.op = "rename_file"  -> [files EXCEPT ![a.dst] = files[a.src], ![a.src] = Absent]
      [] a.op = "replace_text" -> [files EXCEPT ![a.src] = IF @ = 1 THEN 2 ELSE 1]
      [] OTHER                 -> files

\* _run_internal_action; works: the script meets no other obstacle.
RunInternalAction(a, files, works) ==
    Result(IF works /\ ScriptOk(a, files) THEN "succeeded" ELSE "failed", a.op, "none", a)

NeedsApproval(a) == Result("waiting_user", a.op, "none", a)

\* _file_to_file_operation.
FileToFileOperation(i, ctx, files, confirmed, works) ==
    LET a       == Completed(i, ctx, files)
        missing == {f \in {"src", "dst"} : a[f] = NoPath}
        read    == ContentRead(a, ctx)
    IN  CASE a.based /\ ~read -> Recoverable(a, "read_before_write")
          [] a.based /\ read /\ a.name = NoPath -> Recoverable(a, "continue_model_loop")
          [] ~(a.based /\ (~read \/ a.name = NoPath)) /\ "dst" \in missing ->
               Recoverable(a, "continue_model_loop")
          [] ~(a.based /\ (~read \/ a.name = NoPath)) /\ missing = {"src"} ->
               Recoverable(a, "wait_user_input")
          [] OTHER -> IF confirmed THEN RunInternalAction(a, files, works) ELSE NeedsApproval(a)

\* _replace_text, _path_exists and _read_file: the path is the call's or the
\* active file's.  same: old and new text are equal.
OnePathOperation(i, ctx, files, confirmed, works, same) ==
    LET a == [i EXCEPT !.src = Otherwise(@, ctx.active)]
    IN  IF a.src = NoPath THEN Result("failed", a.op, "none", a)
        ELSE IF a.op # "replace_text" THEN RunInternalAction(a, files, works)
        ELSE IF same THEN Result("succeeded", a.op, "none", a)
        ELSE IF confirmed THEN RunInternalAction(a, files, works) ELSE NeedsApproval(a)

\* FilesystemSkillExecutor.call.
Call(i, ctx, files, confirmed, works, same) ==
    IF i.op = Unset THEN Recoverable(i, "continue_model_loop")
    ELSE IF i.op \in FileToFile THEN FileToFileOperation(i, ctx, files, confirmed, works)
    ELSE OnePathOperation(i, ctx, files, confirmed, works, same)

\* The files after the call; a replacement of equal texts changes nothing.
FilesAfter(r, files, same) ==
    IF r.status = "succeeded" /\ ~(r.op = "replace_text" /\ same) THEN After(r.args, files) ELSE files

\* promote_filesystem_result_context.
Promoted(ctx, r) ==
    CASE r.status # "succeeded" \/ r.op = "replace_text" -> ctx
      [] r.status = "succeeded" /\ r.op \in FileToFile -> [active |-> r.args.dst, read |-> NoPath]
      [] r.status = "succeeded" /\ r.op = "read_file" -> [active |-> r.args.src, read |-> r.args.src]
      [] r.status = "succeeded" /\ r.op = "path_exists" -> [active |-> r.args.src, read |-> NoPath]

\* The input the approval card carries: the call's own, with the arguments the
\* Skill has settled on.
CardInput(outer, r) == [outer EXCEPT !.op = r.args.op, !.src = r.args.src, !.dst = r.args.dst]
=============================================================================
