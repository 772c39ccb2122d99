----------------------------- MODULE MCPciProbe -----------------------------
EXTENDS PciProbeProofs

\* As on a PC: a little below Low, and the upper part up to Top.
MCMemPool == <<Block(Low - 1, 1), Block(8, Top - 8)>>
=============================================================================
