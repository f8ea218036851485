-------------------------- MODULE MCCommerceOrders --------------------------
(***************************************************************************)
(* Instances of CommerceOrders for model checking.                         *)
(***************************************************************************)
EXTENDS CommerceOrders

\* Ticket orders and shop orders share no row: a behaviour follows one kind.
OneKind == Cardinality({ord[o].kind : o \in Orders} \ {"none"}) <= 1

=============================================================================
