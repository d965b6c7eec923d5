---------------------------- MODULE MCWebControl ----------------------------
(***************************************************************************)
(* Instances of WebControl for TLC: the price crawler and the granularity  *)
(* update stand for the auto workers (one drops the request's POST, one    *)
(* does not), and the health factor for the plots, with or without another *)
(* before it.                                                              *)
(***************************************************************************)
EXTENDS WebControl

TwoWorkers == <<"auto_update_datastorage", "auto_update_granularity">>
OneWorker == <<"auto_update_datastorage">>
DropsPost == {"auto_update_datastorage"}
HfOnly == <<"plot_hf">>
TwoPlots == <<"plot_price", "plot_hf">>

=============================================================================
