--------------------------- MODULE MCInvoiceRuns ---------------------------
(* InvoiceRuns on small sets of invoices, runs and workers.                *)
EXTENDS InvoiceRuns, TLC

RunsAndWorkersSymmetry == Permutations(Runs) \cup Permutations(Workers)
=============================================================================
