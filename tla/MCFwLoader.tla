------------------------------ MODULE MCFwLoader ------------------------------
\* Instance of FwLoader for TLC.
EXTENDS FwLoader

Cap(dma, ishtp, size, buffer) == [dma |-> dma, ishtp |-> ishtp, image |-> size, buffer |-> buffer]

\* Direct DMA, also without a buffer; ISHTP, also without the room.
Capabilities == {Cap(TRUE, TRUE, 4, 4), Cap(TRUE, FALSE, 4, 0),
                 Cap(FALSE, TRUE, 4, 0), Cap(FALSE, TRUE, 2, 0)}
=============================================================================
