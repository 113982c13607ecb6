----------------------------- MODULE ToolCatalog -----------------------------
(***************************************************************************)
(* The tools the agent's registry holds, as the runtime guard sees them,   *)
(* and the two decisions that stand between a call of the model and the    *)
(* tool: the policy of the loaded Skills and the guard itself              *)
(* (tool_registry.py, tool_permissions.py, guardrails.py).  Every tool     *)
(* admits calls from the chat, so allowed_source_types refuses none here.  *)
(***************************************************************************)
EXTENDS Integers

Tool(name, risk, confirm) == [name |-> name, risk |-> risk, confirm |-> confirm]
Read(name)   == Tool(name, "low", FALSE)
Change(name) == Tool(name, "high", TRUE)

ApplicationTools == {Read("applications.find_for_mail_notification"),
                     Tool("applications.find_apply_entry", "medium", FALSE),
                     Tool("applications.sync_mail_application", "medium", FALSE)}
ArtifactTools == {Change("artifact.export")}
WebSearchTools == {Read("external.web_search")}
DatabaseReads == {Read(name) : name \in {"database.company_list", "database.company_search",
                     "database.company_profile", "database.job_search", "database.source_search"}}
DatabaseChanges == {Change("database.company_update"), Change("database.job_lead_delete")}
LocalTools == {Read("local.company_database_overview"), Read("local.job_source_overview")}
FilesystemReads == {Read(name) : name \in {"filesystem.list_dir", "filesystem.path_exists",
                       "filesystem.path_stat", "filesystem.read_file"}}
FilesystemTextChanges == {Change("filesystem.write_text"), Change("filesystem.replace_text")}
FilesystemTransfers == {Change("filesystem.copy_file"), Change("filesystem.move_file")}
FilesystemPathChanges == {Change("filesystem.delete_path"), Change("filesystem.make_dir")}
SourceTools == {Tool("offerio.sync_company_jobs", "medium", FALSE)}
ContentTools == {Read(name) : name \in {"weixin-articles-mcp.read_article",
                    "xiaohongshu-mcp.search_feeds", "xiaohongshu-mcp.get_feed_detail"}}
SkillTools == {Read(name) : name \in {"skill_list", "skill_list_actions", "skill_read"}}
              \cup {Change("skill_call")}
MemoryTools == {Read(name) : name \in {"sessions_search", "sessions_history", "memory_search",
                   "memory_get"}}
\* The shipped MCP servers, when the settings enable them: what acts on a page
\* needs a confirmation, the other verbs are read-only.
McpChanges == {Change(name) : name \in {"mcp.chrome.click", "mcp.chrome.fill", "mcp.chrome.type_text",
                  "mcp.chrome.press_key"}}
McpReads == {Read(name) : name \in {"mcp.chrome.list_pages", "mcp.chrome.select_page",
                "mcp.chrome.navigate_page", "mcp.chrome.get_page_content", "mcp.chrome.take_screenshot",
                "mcp.chrome.wait_for", "mcp.dbx.dbx_list_connections", "mcp.dbx.dbx_list_databases",
                "mcp.dbx.dbx_list_tables", "mcp.dbx.dbx_get_schema_context",
                "mcp.dbx.dbx_describe_table", "mcp.dbx.dbx_execute_query",
                "mcp.qq_mail.list_messages", "mcp.qq_mail.get_message"}}

Registry == UNION {ApplicationTools, ArtifactTools, WebSearchTools, DatabaseReads, DatabaseChanges,
                   LocalTools, FilesystemReads, FilesystemTextChanges, FilesystemTransfers,
                   FilesystemPathChanges, SourceTools, ContentTools, SkillTools, MemoryTools,
                   McpChanges, McpReads}
Definition(name) == CHOOSE tool \in Registry : tool.name = name

\* LOW_RISK_RUNTIME_CAPABILITY_TOOLS, without the one that is not registered.
LowRiskCapabilities ==
    {"external.web_search", "offerio.sync_company_jobs", "skill_list", "skill_list_actions", "skill_read"}
    \cup {tool.name : tool \in DatabaseReads \cup LocalTools}

----------------------------------------------------------------------------
\* A Skill's allowed_tools, ask_tools and disallowed_tools; a policy is the same.
Skills(tools) == [allowed : SUBSET tools, ask : SUBSET tools, denied : SUBSET tools]

\* from_loaded_skill_metadata.
from_loaded_skill_metadata(loaded) ==
    [allowed |-> UNION {skill.allowed : skill \in loaded},
     ask     |-> UNION {skill.ask : skill \in loaded},
     denied  |-> UNION {skill.denied : skill \in loaded}]

\* Mutant: ask_tools is looked at before disallowed_tools.
decide_ask_first(policy, name, confirmed) ==
    LET unlisted == policy.allowed # {} /\ name \notin policy.allowed
    IN  IF name \in policy.denied \ policy.ask THEN "deny"
        ELSE IF (name \in policy.ask \/ unlisted) /\ ~confirmed THEN "ask" ELSE "allow"

\* AgentToolPermissionPolicy.decide.
decide(policy, name, confirmed) ==
    LET unlisted == policy.allowed # {} /\ name \notin policy.allowed
    IN  IF name \in policy.denied THEN "deny"
        ELSE IF (name \in policy.ask \/ unlisted) /\ ~confirmed THEN "ask" ELSE "allow"

\* _allows_low_risk_runtime_capability.
AllowsLowRisk(tool, policy) == /\ tool.name \in LowRiskCapabilities
                               /\ tool.risk \in {"low", "medium"} /\ ~tool.confirm
                               /\ tool.name \notin policy.ask \cup policy.allowed

\* AgentToolRuntimeGuard.pre_check: "ok", "confirm" or "blocked".
pre_check(tool, policy, calls, max, confirmed) ==
    LET decision == decide(policy, tool.name, confirmed)
        asks     == decision = "ask" /\ ~AllowsLowRisk(tool, policy)
    IN  CASE calls >= max \/ decision = "deny"        -> "blocked"
          [] calls < max /\ decision # "deny"
             /\ (asks \/ (tool.confirm /\ ~confirmed)) -> "confirm"
          [] OTHER                                    -> "ok"
=============================================================================
