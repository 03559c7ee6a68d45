------------------------------ MODULE MCNtpRtc ------------------------------
EXTENDS NtpRtc

\* Two answers about midnight: the RTC is set to the last hour of a day, or to
\* the first of the next.
AboutMidnight == {[date |-> 4, hour |-> 22], [date |-> 5, hour |-> 0]}
=============================================================================
