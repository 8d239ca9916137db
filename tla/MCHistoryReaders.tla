-------------------------- MODULE MCHistoryReaders --------------------------
(* Instances of HistoryReaders: two monitored domains, up or down. *)
EXTENDS HistoryReaders, MCSights

UpOrDown == {Clean, Down}
Both     == <<"shop", "blog">>
=============================================================================
