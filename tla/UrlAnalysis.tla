----------------------------- MODULE UrlAnalysis -----------------------------
(***************************************************************************)
(* What the pipeline decides from a URL alone: the kind of source it is,   *)
(* how it has to be fetched, which fetcher does it and how that fetcher    *)
(* can fail (domains/jobs/url_import.py, wechat_fetcher.py,                *)
(* content_fetcher.py and _select_fetcher of workflows/url_import.py).     *)
(*                                                                         *)
(* A URL is abstracted to its site, which stands for its domain and path,  *)
(* and the source_hint that came with it.                                  *)
(***************************************************************************)

Sites == {"mp.weixin.qq.com", "xiaohongshu", "job_board", "edu", "career", "other"}
SourceTypes == {"wechat_article", "xiaohongshu_note", "job_board_visible_page",
                "university_career_site", "official_career_site", "public_article",
                "official_api", "manual_clip", "wechat_account"}
NoHint == "none"
Analysed == [site : Sites, hint : SourceTypes \cup {NoHint}]

\* The domain decides before the hint does.
_classify_source(u) ==
    CASE u.site = "mp.weixin.qq.com" -> "wechat_article"
      [] u.site = "xiaohongshu"      -> "xiaohongshu_note"
      [] u.site = "job_board"        -> "job_board_visible_page"
      [] u.site = "edu"              -> "university_career_site"
      [] u.site = "career"           -> "official_career_site"
      [] u.site = "other"            -> IF u.hint = NoHint THEN "public_article" ELSE u.hint

\* requires_mcp_visible_page of analyze_import_url.
RequiresVisiblePage(u) == _classify_source(u) \in {"xiaohongshu_note", "job_board_visible_page"}

NoFetcher == "none"

\* The fetcher of the background task; for NoFetcher the code raises.
_select_fetcher(u) ==
    LET type == _classify_source(u)
    IN  CASE type = "wechat_article" -> "WeChatArticleFetcher"
          [] type \in {"public_article", "university_career_site", "official_career_site"} ->
                "HTTPArticleFetcher"
          [] OTHER -> NoFetcher

Failure(retryable, next) == [retryable |-> retryable, next |-> next]

\* A timeout; a 4xx, a 5xx or no connection; text that is too short.
HTTPFailures == {Failure(TRUE, "retry_same_stage"), Failure(FALSE, "retry_with_next_fetcher"),
                 Failure(TRUE, "retry_with_next_fetcher")}

\* A timeout; a 4xx; a 5xx, no connection or a page that asks for a login; text
\* that is too short.
WeChatFailures == {Failure(TRUE, "retry_same_stage"), Failure(FALSE, "request_user_visible_page"),
                   Failure(TRUE, "request_user_visible_page"), Failure(TRUE, "request_manual_paste")}

FetchFailures(fetcher) == CASE fetcher = "HTTPArticleFetcher"   -> HTTPFailures
                            [] fetcher = "WeChatArticleFetcher" -> WeChatFailures
                            [] OTHER                            -> {}
=============================================================================
