----------------------------- MODULE MCPipeline -----------------------------
\* Pipeline on small instances; the configurations MCPipeline_*.cfg give the
\* constants their values.
EXTENDS Pipeline
=============================================================================
