------------------------------ MODULE MCDelivery ------------------------------
\* Values for the constants of Delivery.
EXTENDS Delivery

AllContexts ==
  {"All Build/Test Checks", "All Coverage Checks", "All Static Analysis Checks", "build",
   "integration-tests", "lint", "package", "test", "unit-tests"}
AllEdits ==
  DOMAIN RequiredFixtures \cup DOMAIN GitleaksFixtures \cup RequiredEdits \cup WorkflowEdits
  \cup InnocentEdits

\* Two pull requests never have the same flaw, and a fork has
\* a whole one or the right half.
Kinds == {"none", "whole", "left", "right", "fix"}
SomeFlaws ==
  {f \in [PR -> Kinds] :
     /\ \A p, q \in PR : p # q /\ f[p] = f[q] => f[p] = "none"
     /\ \A p \in Forks : f[p] \in {"none", "whole", "right"}}
NoFlaws == [PR -> {"none"}]
===============================================================================
