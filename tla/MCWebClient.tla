---------------------------- MODULE MCWebClient ----------------------------
(* TLC's instance of WebClient.  Of the pages that read and refresh alike it opens
   one each: visibility stands for reports, monitoring for agents and execution,
   and home for plan; queries, which looks its workspace up once, is opened itself. *)
EXTENDS WebClient
============================================================================
