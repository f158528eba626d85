------------------------------- MODULE MCPage -------------------------------
(***************************************************************************)
(* FrontEnd with two pages of two views, a list of six items, a form of    *)
(* two buttons and a portal of three portlets.                             *)
(***************************************************************************)
EXTENDS FrontEnd, TLC

CONSTANTS p, q, u, v,                 \* pages and views
          save, delete, form, remove, \* buttons and addresses
          a, b, c                     \* portlets

TwoPages == {p, q}
TwoViews == {u, v}

\* The button that deletes comes first, asks, and has an address of its own.
TwoButtons == <<delete, save>>
Asking == {delete}
OwnAction == delete :> remove @@ save :> form

ThreePortlets == {a, b, c}
TwoColumns == <<<<a, b>>, <<c>>>>
=============================================================================
