--------------------------- MODULE MC_AsyncStore ----------------------------
EXTENDS AsyncStore
\* AsyncBufferManager::Buffer, in the order updateMesh and updateSolution use it
MCMeshBuffers == <<"NODES", "ELEMENTS", "ELEMENTREGIONS", "BOUNDARYREGIONS">>
MCSolutionBuffers == <<"NODEDATA", "ELEMENTDATA">>
=============================================================================
