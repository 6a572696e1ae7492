------------------------- MODULE MCTimeoutDecorator -------------------------
\* Small instances of TimeoutDecorator.
EXTENDS TimeoutDecorator
=============================================================================
