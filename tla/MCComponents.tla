---------------------------- MODULE MCComponents ----------------------------
(* The components that keep no state in common, side by side: a behaviour    *)
(* chooses one of them, gives it an input of its set and runs it while the   *)
(* others rest where their smallest input leaves them.                       *)
EXTENDS MCSearch, MCIngest, MCServing

VARIABLE part

parts == {"wand", "pipeline", "graph", "raptor", "strategies", "splade", "waves", "chunking",
          "inflate", "office", "extraction", "cache", "shares", "backends", "handler"}

componentVars ==
    <<part, wandVars, pipeVars, graphVars, raptorVars, stratVars, spladeVars, wavesVars, chunkVars,
      inflateVars, officeVars, extractionVars, cacheVars, sharesVars, backendVars, handlerVars>>

InputsOf(name, inputs, rest) == IF part = name THEN inputs ELSE rest

Init ==
    /\ part \in parts
    /\ WandInit(InputsOf("wand", WandInputs, WandRest))
    /\ PipelineInit(InputsOf("pipeline", PipeInputs, PipeRest))
    /\ GraphInit(InputsOf("graph", GraphInputs, GraphRest))
    /\ RaptorInit(InputsOf("raptor", RaptorInputs, RaptorRest))
    /\ StrategiesInit(InputsOf("strategies", StrategyInputs, StrategyRest))
    /\ SpladeInit(InputsOf("splade", SpladeInputs, SpladeRest))
    /\ WavesInit(InputsOf("waves", WavesInputs, WavesRest))
    /\ ChunkingInit(InputsOf("chunking", ChunkInputs, ChunkRest))
    /\ InflateInit(InputsOf("inflate", InflateInputs, InflateRest))
    /\ OfficeInit(InputsOf("office", OfficeInputs, OfficeRest))
    /\ ExtractionInit(InputsOf("extraction", ExtractionInputs, ExtractionRest))
    /\ CacheInit /\ (part = "cache" \/ who = CHOOSE w \in Identities : TRUE)
    /\ SharesInit /\ (part = "shares" \/ region = [loop |-> "for", n |-> 0, width |-> 1])
    /\ BackendsInit(InputsOf("backends", BackendPlans, BackendRest))
    /\ HandlerInit(InputsOf("handler", Servers, {Plain}), InputsOf("handler", Requests, {Retrieve}))

RunWand ==
    /\ part = "wand" /\ WandNext
    /\ UNCHANGED <<part, pipeVars, graphVars, raptorVars, stratVars, spladeVars, wavesVars, chunkVars,
                   inflateVars, officeVars, extractionVars, cacheVars, sharesVars, backendVars,
                   handlerVars>>
RunPipeline ==
    /\ part = "pipeline" /\ PipelineNext
    /\ UNCHANGED <<part, wandVars, graphVars, raptorVars, stratVars, spladeVars, wavesVars, chunkVars,
                   inflateVars, officeVars, extractionVars, cacheVars, sharesVars, backendVars,
                   handlerVars>>
RunGraph ==
    /\ part = "graph" /\ GraphNext
    /\ UNCHANGED <<part, wandVars, pipeVars, raptorVars, stratVars, spladeVars, wavesVars, chunkVars,
                   inflateVars, officeVars, extractionVars, cacheVars, sharesVars, backendVars,
                   handlerVars>>
RunRaptor ==
    /\ part = "raptor" /\ RaptorNext
    /\ UNCHANGED <<part, wandVars, pipeVars, graphVars, stratVars, spladeVars, wavesVars, chunkVars,
                   inflateVars, officeVars, extractionVars, cacheVars, sharesVars, backendVars,
                   handlerVars>>
RunStrategies ==
    /\ part = "strategies" /\ StrategiesNext
    /\ UNCHANGED <<part, wandVars, pipeVars, graphVars, raptorVars, spladeVars, wavesVars, chunkVars,
                   inflateVars, officeVars, extractionVars, cacheVars, sharesVars, backendVars,
                   handlerVars>>
RunSplade ==
    /\ part = "splade" /\ SpladeNext
    /\ UNCHANGED <<part, wandVars, pipeVars, graphVars, raptorVars, stratVars, wavesVars, chunkVars,
                   inflateVars, officeVars, extractionVars, cacheVars, sharesVars, backendVars,
                   handlerVars>>
RunWaves ==
    /\ part = "waves" /\ WavesNext
    /\ UNCHANGED <<part, wandVars, pipeVars, graphVars, raptorVars, stratVars, spladeVars,
                   chunkVars, inflateVars, officeVars, extractionVars, cacheVars, sharesVars,
                   backendVars, handlerVars>>
RunChunking ==
    /\ part = "chunking" /\ ChunkingNext
    /\ UNCHANGED <<part, wandVars, pipeVars, graphVars, raptorVars, stratVars, spladeVars,
                   wavesVars, inflateVars, officeVars, extractionVars, cacheVars, sharesVars,
                   backendVars, handlerVars>>
RunInflate ==
    /\ part = "inflate" /\ InflateNext
    /\ UNCHANGED <<part, wandVars, pipeVars, graphVars, raptorVars, stratVars, spladeVars, wavesVars,
                   chunkVars, officeVars, extractionVars, cacheVars, sharesVars, backendVars, handlerVars>>
RunOffice ==
    /\ part = "office" /\ OfficeNext
    /\ UNCHANGED <<part, wandVars, pipeVars, graphVars, raptorVars, stratVars, spladeVars, wavesVars,
                   chunkVars, inflateVars, extractionVars, cacheVars, sharesVars, backendVars,
                   handlerVars>>
RunExtraction ==
    /\ part = "extraction" /\ ExtractionNext
    /\ UNCHANGED <<part, wandVars, pipeVars, graphVars, raptorVars, stratVars, spladeVars, wavesVars,
                   chunkVars, inflateVars, officeVars, cacheVars, sharesVars, backendVars, handlerVars>>
RunCache ==
    /\ part = "cache" /\ CacheNext
    /\ UNCHANGED <<part, wandVars, pipeVars, graphVars, raptorVars, stratVars, spladeVars, wavesVars,
                   chunkVars, inflateVars, officeVars, extractionVars, sharesVars, backendVars,
                   handlerVars>>
RunShares ==
    /\ part = "shares" /\ SharesNext
    /\ UNCHANGED <<part, wandVars, pipeVars, graphVars, raptorVars, stratVars, spladeVars, wavesVars,
                   chunkVars, inflateVars, officeVars, extractionVars, cacheVars, backendVars,
                   handlerVars>>
RunBackends ==
    /\ part = "backends" /\ BackendsNext
    /\ UNCHANGED <<part, wandVars, pipeVars, graphVars, raptorVars, stratVars, spladeVars, wavesVars,
                   chunkVars, inflateVars, officeVars, extractionVars, cacheVars, sharesVars,
                   handlerVars>>
RunHandler ==
    /\ part = "handler" /\ HandlerNext
    /\ UNCHANGED <<part, wandVars, pipeVars, graphVars, raptorVars, stratVars, spladeVars, wavesVars,
                   chunkVars, inflateVars, officeVars, extractionVars, cacheVars, sharesVars,
                   backendVars>>

Next ==
    \/ RunWand \/ RunPipeline \/ RunGraph \/ RunRaptor \/ RunStrategies
    \/ RunSplade \/ RunWaves \/ RunChunking \/ RunInflate \/ RunOffice \/ RunExtraction
    \/ RunCache \/ RunShares \/ RunBackends \/ RunHandler

Spec == Init /\ [][Next]_componentVars
=============================================================================
