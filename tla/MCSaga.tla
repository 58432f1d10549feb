------------------------------ MODULE MCSaga ------------------------------
(* A small saga with steps of each kind the order saga has: a           *)
(* compensation that swallows its errors (reserve_inventory), one that      *)
(* raises (create_order, process_payment), and a step that reports the      *)
(* error of its work as a result (send_notification).                       *)
EXTENDS Saga

MCTolerant == {4}
MCSwallows == {1, 4}
=============================================================================
