---------------------------- MODULE MCAdminPanel ----------------------------
(***************************************************************************)
(* The sessions in which TLC checks AdminPanel.                            *)
(***************************************************************************)
EXTENDS AdminPanel

Tour(pages, o, f, r) == [pages |-> pages, ops |-> o, faults |-> f, reqs |-> r]

\* Between them every page, every pair of pages that share a list, and enough requests at
\* once for reads to overlap and answers to come late.
SafetyTours ==
  {Tour({"users"}, 2, 1, 2), Tour({"groups"}, 1, 1, 3), Tour({"groups"}, 2, 0, 2),
   Tour({"groups", "users"}, 1, 0, 3), Tour({"rules", "devices"}, 2, 1, 3),
   Tour({"settings", "profiles"}, 2, 1, 2), Tour({"templates", "home"}, 1, 1, 6),
   Tour({"nodes", "logs"}, 1, 1, 2)}

\* The pages with a timer.
PolledTours == {Tour({"users"}, 2, 1, 2), Tour({"home"}, 1, 1, 6)}
=============================================================================
