-------------------------- MODULE MCStooqDownload --------------------------
\* Small instances of StooqDownload for TLC: the processes are model values.
EXTENDS StooqDownload

CONSTANTS refresh, scrape
=============================================================================
