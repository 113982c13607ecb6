---------------------------- MODULE MCUrlImport ----------------------------
(***************************************************************************)
(* UrlImport for TLC: a page that is fetched in the background, one that   *)
(* only the user can open, and one that comes with a hint for which there  *)
(* is no fetcher.                                                          *)
(***************************************************************************)
EXTENDS UrlImport

Hinted(hint) == [site |-> "other", hint |-> hint]

\* Fetched as an article of an unknown site.
HTTPAnalysis == [u |-> Hinted(NoHint), v |-> Hinted("xiaohongshu_note"), w |-> Hinted("official_api")]

\* Fetched as an article of a public account.
WeChatAnalysis == [u |-> Hinted("wechat_article"), v |-> Hinted("job_board_visible_page")]
=============================================================================
