---------------------------- MODULE SessionViewMC ----------------------------
(* Three rows, pages of two, one send, one fault, one leave of the page.    *)
EXTENDS SessionView

MCSends == {9}
=============================================================================
