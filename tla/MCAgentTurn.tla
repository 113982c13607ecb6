----------------------------- MODULE MCAgentTurn -----------------------------
EXTENDS AgentTurn

FileInput(op, src, dst, name, based) ==
    [Blank EXCEPT !.op = op, !.src = src, !.dst = dst, !.name = name, !.based = based]

\* A call without operation, reads, and writes with a name from the content,
\* with an explicit target, and on the active file.
MCInputs == { Blank,
              FileInput("read_file", "a", NoPath, NoPath, FALSE),
              FileInput("path_exists", "a", NoPath, NoPath, FALSE),
              FileInput("copy_file", "a", NoPath, "b", TRUE),
              FileInput("copy_file", "a", "b", NoPath, TRUE),
              FileInput("copy_file", "a", "c", "b", TRUE),
              FileInput("rename_file", NoPath, "b", NoPath, FALSE),
              FileInput("replace_text", "a", NoPath, NoPath, FALSE) }

\* No plan; search, then export or files, then any tool.
MCPlans == {<<>>, <<{"external.web_search"}, {"artifact.export", "skill.filesystem"}, {}>>}

\* No Skill; one that lists the search and denies the update beside one that
\* asks for both; one that lists a single other tool.
Policy(allowed, ask, denied) == [allowed |-> allowed, ask |-> ask, denied |-> denied]
MCLoaded == { {},
              {Policy({"external.web_search", "database.company_update"}, {}, {"database.company_update"}),
               Policy({}, {"external.web_search", "database.company_update"}, {})},
              {Policy({"artifact.export"}, {}, {})} }

\* At first the source, the target or both are there.
MCInit == Init /\ files["c"] = Absent /\ \E p \in Paths : files[p] # Absent
MCSpec == MCInit /\ [][Next]_vars
=============================================================================
