------------------------------ MODULE MCHttpd ------------------------------
EXTENDS Httpd, TLC

\* A page larger than the send buffer, and a page of two writes.
MCWrites == "html" :> <<3>> @@ "tasks" :> <<1, 2>>
=============================================================================
