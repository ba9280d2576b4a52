---------------------------- MODULE MCCrawlPool -----------------------------
(* CrawlOnce over four sources, one of them without an adapter.             *)
EXTENDS CrawlPoolHealth

CONSTANTS s1, s2, s3, s4, command
=============================================================================
