--------------------------- MODULE MCHotChangeLog ---------------------------
(* Small instances of HotChangeLog, its invariant and its refinement. *)
EXTENDS HotChangeInvariant

\* The settings root, a card and a media asset, in bootstrap order.
MCKindOf == <<"workspace_scheduler_settings", "card", "media_asset">>
=============================================================================
