---------------------------- MODULE HotChangeFeed ----------------------------
(* HotChangeLog implements OrderedFeed. *)
EXTENDS HotChangeLog

Feed == INSTANCE OrderedFeed WITH
  Readers <- Clients,
  Visible <- Sees,
  latest <- rows,
  view <- local,
  position <- cursor,
  synced <- hydrated

\* Whatever the order of statements, locks and pages, a client sees a feed of
\* versions: its copies and its position only move forward, and a hydrated
\* client is covered up to its position (processSyncPull, processSyncBootstrap
\* and applyHotSyncPage).
ImplementsFeed == Feed!Spec
=============================================================================
