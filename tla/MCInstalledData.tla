--------------------------- MODULE MCInstalledData ---------------------------
(***************************************************************************)
(* Two versions, the newer one with one more layout; two settings, one of  *)
(* them with a legacy spelling, and one key of a future version.           *)
(***************************************************************************)
EXTENDS InstalledData

MCBundled  == [v \in {1, 2} |-> IF v = 1 THEN {"a"} ELSE {"a", "b"}]
MCDefaults == [k \in {"enabled", "layout"} |-> IF k = "enabled" THEN 1 ELSE 0]
=============================================================================
