----------------------------- MODULE MCSourceRun -----------------------------
(* Four sources, one of each way of reading, and two runs over them. *)
EXTENDS SourceRun

MCSources == <<"ktn", "li", "bund", "tirol">>
MCKind == [s \in ToSet(MCSources) |->
    CASE s = "ktn" -> "ktn" [] s = "li" -> "linkedin" [] s = "bund" -> "bund-odata"
      [] s = "tirol" -> "tirol"]
MCContent == [s \in ToSet(MCSources) |->
    CASE s \in {"tirol"} -> "bare" [] OTHER -> "plain"]
=============================================================================
